------------------------- MODULE UploadQueue_proofs -------------------------
(***************************************************************************)
(* Proofs about UploadQueue for any files, shares, runtimes and numbers of *)
(* batches and joins.                                                      *)
(***************************************************************************)
EXTENDS UploadQueue, FiniteSetTheorems, TLAPS

USE UploadAssumption DEF UploadAssumption

(***************************************************************************)
(* The operators                                                           *)
(***************************************************************************)
LEMMA CountType ==
  ASSUME NEW counts \in [Files -> Nat], NEW files
  PROVE  /\ Count(counts, files) \in [Files -> Nat]
         /\ \A f \in Files : /\ Count(counts, files)[f] >= counts[f]
                             /\ f \in files => Count(counts, files)[f] > 0
BY DEF Count

LEMMA ItemType ==
  ASSUME NEW n \in 1..MaxStarts, NEW f \in Files, NEW local \in BOOLEAN, NEW status \in Statuses
  PROVE  /\ Item(n, f, local, status) \in Items
         /\ Item(n, f, local, status).n = n
         /\ Item(n, f, local, status).file = f
         /\ Item(n, f, local, status).local = local
         /\ Item(n, f, local, status).status = status
BY DEF Item, Items

\* Setting a status is all that marking does to an item.
LEMMA StatusSet ==
  ASSUME NEW u \in Items, NEW status \in Statuses
  PROVE  LET v == [u EXCEPT !.status = status] IN
         /\ v \in Items /\ v.n = u.n /\ v.file = u.file /\ v.local = u.local
         /\ v.status = status
BY DEF Items

\* Marking changes no item but the one of b's file f.
LEMMA MarkedItems ==
  ASSUME uploads \subseteq Items, NEW b \in Batches, NEW f, NEW status \in Statuses
  PROVE  /\ Marked(b, f, status) \subseteq Items
         /\ \A v \in Marked(b, f, status) :
              \/ v \in uploads
              \/ /\ v.n = b.n /\ v.file = f /\ v.status = status
                 /\ \E u \in uploads : u.local = v.local
         /\ \A u \in uploads : u.n # b.n \/ u.file # f => u \in Marked(b, f, status)
<1>1. ASSUME NEW v \in Marked(b, f, status)
      PROVE  /\ v \in Items
             /\ \/ v \in uploads
                \/ /\ v.n = b.n /\ v.file = f /\ v.status = status
                   /\ \E u \in uploads : u.local = v.local
  <2>1. PICK u \in uploads :
          v = IF u.n = b.n /\ u.file = f THEN [u EXCEPT !.status = status] ELSE u
    BY <1>1 DEF Marked
  <2>2. CASE u.n = b.n /\ u.file = f
    <3>1. v = [u EXCEPT !.status = status]
      BY <2>1, <2>2
    <3>2. v \in Items /\ v.n = u.n /\ v.file = u.file /\ v.local = u.local /\ v.status = status
      BY <3>1, StatusSet
    <3> QED BY <3>2, <2>2
  <2>3. CASE ~(u.n = b.n /\ u.file = f)
    BY <2>1, <2>3
  <2> QED BY <2>2, <2>3
<1>2. ASSUME NEW u \in uploads, u.n # b.n \/ u.file # f
      PROVE  u \in Marked(b, f, status)
  BY <1>2 DEF Marked
<1> QED BY <1>1, <1>2

LEMMA MarkedNextItems ==
  ASSUME uploads \subseteq Items, NEW b \in Batches, NEW f \in Files, NEW status \in Statuses
  PROVE  /\ MarkedNext(b, f, status) \subseteq Items
         /\ \A v \in MarkedNext(b, f, status) :
              \/ v \in uploads
              \/ /\ \/ v.file = b.now /\ v.status = status
                    \/ v.status = "uploading"
                 /\ \E u \in uploads : u.local = v.local
         /\ \A u \in uploads : u.n = b.n /\ u.file # b.now =>
              IF u.file = f THEN \E v \in MarkedNext(b, f, status) :
                                   v.n = b.n /\ v.file = f /\ v.status = "uploading"
              ELSE u \in MarkedNext(b, f, status)
<1> DEFINE M == Marked(b, b.now, status)
<1>1. /\ M \subseteq Items
      /\ \A v \in M : \/ v \in uploads
                      \/ /\ v.n = b.n /\ v.file = b.now /\ v.status = status
                         /\ \E u \in uploads : u.local = v.local
      /\ \A u \in uploads : u.n # b.n \/ u.file # b.now => u \in M
  BY MarkedItems
<1>2. "uploading" \in Statuses
  BY DEF Statuses
<1>3. MarkedNext(b, f, status) =
        {IF u.n = b.n /\ u.file = f THEN [u EXCEPT !.status = "uploading"] ELSE u : u \in M}
  BY DEF MarkedNext
<1> HIDE DEF M
<1>4. ASSUME NEW v \in MarkedNext(b, f, status)
      PROVE  /\ v \in Items
             /\ \/ v \in uploads
                \/ /\ \/ v.file = b.now /\ v.status = status
                      \/ v.status = "uploading"
                   /\ \E u \in uploads : u.local = v.local
  <2>1. PICK u \in M :
          v = IF u.n = b.n /\ u.file = f THEN [u EXCEPT !.status = "uploading"] ELSE u
    BY <1>3, <1>4
  <2>2. \E w \in uploads : w.local = u.local
    BY <1>1
  <2>3. CASE u.n = b.n /\ u.file = f
    <3>1. v = [u EXCEPT !.status = "uploading"] /\ u \in Items
      BY <1>1, <2>1, <2>3
    <3>2. v \in Items /\ v.local = u.local /\ v.status = "uploading"
      BY <1>2, <3>1, StatusSet
    <3> QED BY <2>2, <3>2
  <2>4. CASE ~(u.n = b.n /\ u.file = f)
    BY <1>1, <2>1, <2>4
  <2> QED BY <2>3, <2>4
<1>5. ASSUME NEW u \in uploads, u.n = b.n, u.file # b.now
      PROVE  IF u.file = f THEN \E v \in MarkedNext(b, f, status) :
                                  v.n = b.n /\ v.file = f /\ v.status = "uploading"
             ELSE u \in MarkedNext(b, f, status)
  <2>1. u \in M /\ u \in Items
    BY <1>1, <1>5
  <2>2. CASE u.file = f
    <3>1. [u EXCEPT !.status = "uploading"] \in MarkedNext(b, f, status)
      BY <1>3, <1>5, <2>1, <2>2
    <3>2. /\ [u EXCEPT !.status = "uploading"].n = b.n
          /\ [u EXCEPT !.status = "uploading"].file = f
          /\ [u EXCEPT !.status = "uploading"].status = "uploading"
      BY <1>2, <1>5, <2>1, <2>2, StatusSet
    <3> QED BY <2>2, <3>1, <3>2
  <2>3. CASE u.file # f
    BY <1>3, <2>1, <2>3
  <2> QED BY <2>2, <2>3
<1> QED BY <1>4, <1>5

LEMMA SendingType ==
  ASSUME NEW b \in Batches, NEW f \in Files, NEW auth \in BOOLEAN
  PROVE  LET c == Sending(b, f, auth) IN
         /\ c \in Batches /\ c.now = f /\ c.files = b.files \ {f}
         /\ c.n = b.n /\ c.page = b.page /\ c.local = b.local /\ c.empty = b.empty
BY DEF Sending, Batches

\* What Show leaves in the list, for a list of items.
LEMMA ShownType ==
  ASSUME uploads \subseteq Items, NEW b, NEW items \in SUBSET Items,
         Show(b, items)
  PROVE  uploads' \subseteq Items
BY DEF Show

LEMMA BatchFacts ==
  ASSUME TypeOK, NEW b \in running
  PROVE  /\ b \in Batches /\ b.files \subseteq Files /\ b.n \in 1..MaxStarts
         /\ b.page \in 1..MaxPages /\ (b.local \/ b.now \in Files)
         /\ b.local \in BOOLEAN
BY DEF TypeOK, Batches

(***************************************************************************)
(* Type correctness                                                        *)
(***************************************************************************)
LEMMA UploadFilesType ==
  ASSUME TypeOK, joined, NEW files \in SUBSET Files, NEW empty \in SUBSET Files,
         UploadFiles(files, empty)
  PROVE  /\ uploads' \subseteq Items /\ running' \subseteq Batches
         /\ \A b \in running' : b.local \/ b.now \in Files
         /\ starts' \in 0..MaxStarts
<1> DEFINE allowed == files \ TooLarge
<1>1. CASE allowed = {}
  BY <1>1 DEF UploadFiles, TypeOK
<1>2. CASE allowed # {}
  <2>1. PICK f \in allowed :
          /\ starts < MaxStarts /\ starts' = starts + 1
          /\ uploads' = {Item(starts + 1, g, FALSE, IF g = f THEN "uploading" ELSE "queued") :
                           g \in allowed}
          /\ running' = running \cup
               {[n |-> starts + 1, page |-> page, local |-> FALSE, files |-> allowed \ {f},
                 now |-> f, auth |-> TRUE, empty |-> empty]}
    BY <1>2 DEF UploadFiles, ShowOnly
  <2>2. starts + 1 \in 1..MaxStarts /\ page \in 1..MaxPages
    BY <2>1 DEF TypeOK
  <2>3. ASSUME NEW g \in allowed
        PROVE  Item(starts + 1, g, FALSE, IF g = f THEN "uploading" ELSE "queued") \in Items
    <3>1. (IF g = f THEN "uploading" ELSE "queued") \in Statuses
      BY DEF Statuses
    <3> QED BY <2>2, <3>1, ItemType
  <2> DEFINE new == [n |-> starts + 1, page |-> page, local |-> FALSE,
                     files |-> allowed \ {f}, now |-> f, auth |-> TRUE, empty |-> empty]
  <2>4. new \in Batches /\ new.now \in Files
    BY <2>1, <2>2 DEF Batches
  <2>5. uploads' \subseteq Items
    BY <2>1, <2>3
  <2>6. running' \subseteq Batches /\ \A b \in running' : b.local \/ b.now \in Files
    <3>1. running' = running \cup {new}
      BY <2>1
    <3> HIDE DEF new
    <3> QED BY <2>4, <3>1 DEF TypeOK
  <2>7. starts' \in 0..MaxStarts
    BY <2>1, <2>2
  <2> QED BY <2>5, <2>6, <2>7
<1> QED BY <1>1, <1>2

LEMMA LocalPathsType ==
  ASSUME TypeOK, NEW files \in SUBSET Files, NEW pages \in SUBSET (1..MaxPages),
         UploadDroppedLocalPaths(files, pages)
  PROVE  /\ uploads' \subseteq Items /\ running' \subseteq Batches
         /\ \A b \in running' : b.local \/ b.now \in Files
         /\ starts' \in 0..MaxStarts
<1>1. starts + 1 \in 1..MaxStarts /\ starts' = starts + 1
  BY DEF UploadDroppedLocalPaths, TypeOK
<1>2. \A f \in files : Item(starts + 1, f, TRUE, "uploading") \in Items
  BY <1>1, ItemType DEF Statuses
<1>3. uploads' \subseteq Items
  <2>1. \/ uploads' = uploads
        \/ uploads' = {Item(starts + 1, f, TRUE, "uploading") : f \in files}
    BY DEF UploadDroppedLocalPaths, ShowOnly
  <2>2. uploads \subseteq Items
    BY DEF TypeOK
  <2>3. CASE uploads' = {Item(starts + 1, f, TRUE, "uploading") : f \in files}
    <3>1. ASSUME NEW u \in uploads' PROVE u \in Items
      <4>1. PICK f \in files : u = Item(starts + 1, f, TRUE, "uploading")
        BY <2>3, <3>1
      <4> QED BY <1>2, <4>1
    <3> QED BY <3>1
  <2> QED BY <2>1, <2>2, <2>3
<1>4. \A p \in pages :
        LET b == [n |-> starts + 1, page |-> p, local |-> TRUE, files |-> files,
                  now |-> NoFile, auth |-> joined, empty |-> {}]
        IN  b \in Batches /\ b.local
  BY <1>1 DEF Batches, TypeOK
<1>5. running' \subseteq Batches /\ \A b \in running' : b.local \/ b.now \in Files
  BY <1>4 DEF UploadDroppedLocalPaths, TypeOK
<1> QED BY <1>1, <1>3, <1>5 DEF TypeOK

LEMMA ProceedType ==
  ASSUME TypeOK, NEW b \in running, ~b.local, NEW status \in Statuses, Proceed(b, status)
  PROVE  /\ uploads' \subseteq Items /\ running' \subseteq Batches
         /\ \A c \in running' : c.local \/ c.now \in Files
<1> USE BatchFacts
<1>1. CASE b.files = {} /\ running' = running \ {b} /\ Show(b, Marked(b, b.now, status))
  <2>1. Marked(b, b.now, status) \subseteq Items
    BY MarkedItems DEF TypeOK
  <2> QED BY <1>1, <2>1 DEF TypeOK, Show
<1>2. ASSUME NEW f \in b.files, running' = (running \ {b}) \cup {Sending(b, f, joined)},
             Show(b, MarkedNext(b, f, status))
      PROVE  /\ uploads' \subseteq Items /\ running' \subseteq Batches
             /\ \A c \in running' : c.local \/ c.now \in Files
  <2>1. MarkedNext(b, f, status) \subseteq Items
    BY <1>2, MarkedNextItems DEF TypeOK
  <2>2. Sending(b, f, joined) \in Batches /\ Sending(b, f, joined).now \in Files
    BY <1>2, SendingType DEF TypeOK
  <2> QED BY <1>2, <2>1, <2>2 DEF TypeOK, Show
<1> QED BY <1>1, <1>2 DEF Proceed

LEMMA AnswerType ==
  ASSUME TypeOK, NEW b \in running, Answer(b)
  PROVE  TypeOK'
<1> USE BatchFacts
<1>1. {chosen, stored} \subseteq [Files -> Nat] /\ {"success", "error"} \subseteq Statuses
  BY DEF TypeOK, Statuses
<1>2. \A files : Count(stored, files) \in [Files -> Nat]
  BY <1>1, CountType
<1>3. CASE FileStored(b)
  <2>1. uploads' \subseteq Items /\ running' \subseteq Batches
        /\ \A c \in running' : c.local \/ c.now \in Files
    BY <1>1, <1>3, ProceedType DEF FileStored
  <2> QED BY <1>1, <1>2, <1>3, <2>1 DEF FileStored, TypeOK, desktop
<1>4. CASE FileFails(b)
  <2>1. uploads' \subseteq Items /\ running' \subseteq Batches
        /\ \A c \in running' : c.local \/ c.now \in Files
    BY <1>1, <1>4, ProceedType DEF FileFails
  <2>2. stored' \in [Files -> Nat] /\ unsure' \subseteq Files
    BY <1>1, <1>2, <1>4 DEF FileFails, TypeOK
  <2> QED BY <1>4, <2>1, <2>2 DEF FileFails, TypeOK, desktop
<1>5. CASE FileUnauthorized(b)
  <2>1. \A f \in b.files : Sending(b, f, FALSE) \in Batches /\ Sending(b, f, FALSE).now \in Files
    BY DEF Sending, Batches
  <2>2. running' \subseteq Batches /\ \A c \in running' : c.local \/ c.now \in Files
    BY <1>5, <2>1 DEF FileUnauthorized, TypeOK
  <2> QED BY <1>5, <2>2 DEF FileUnauthorized, Unmount, TypeOK, server
<1>6. CASE PathsCopied(b)
  <2>1. {[u EXCEPT !.status = "success"] : u \in uploads} \subseteq Items
    BY <1>1, StatusSet DEF TypeOK
  <2>2. uploads' \subseteq Items
    BY <1>6, <2>1 DEF PathsCopied, Show, TypeOK
  <2> QED BY <1>1, <1>2, <1>6, <2>2 DEF PathsCopied, TypeOK, desktop
<1>7. CASE PathsFail(b)
  <2>1. {[u EXCEPT !.status = "error"] : u \in uploads} \subseteq Items
    BY <1>1, StatusSet DEF TypeOK
  <2>2. uploads' \subseteq Items
    BY <1>7, <2>1 DEF PathsFail, Show, TypeOK
  <2>3. stored' \in [Files -> Nat] /\ unsure' \subseteq Files
    BY <1>1, <1>2, <1>7 DEF PathsFail, TypeOK
  <2> QED BY <1>7, <2>2, <2>3 DEF PathsFail, TypeOK, desktop
<1>8. CASE PathsUnauthorized(b)
  BY <1>8 DEF PathsUnauthorized, Unmount, TypeOK, server
<1> QED BY <1>3, <1>4, <1>5, <1>6, <1>7, <1>8 DEF Answer

LEMMA NativeType ==
  ASSUME TypeOK
  PROVE  /\ {IF s \in Retryable THEN [s EXCEPT !.status = "active"] ELSE s : s \in native}
              \subseteq [id : Shares, status : NativeStatuses]
         /\ NativeReport => native' \subseteq [id : Shares, status : NativeStatuses]
<1>1. \A s \in native, status \in NativeStatuses :
        [s EXCEPT !.status = status] \in [id : Shares, status : NativeStatuses]
  BY DEF TypeOK
<1>2. {"active", "fatal"} \subseteq NativeStatuses
  BY DEF NativeStatuses
<1> QED BY <1>1, <1>2 DEF NativeReport, NativeActive, TypeOK

\* Every reachable state of the queue is well typed, and a batch that is not one
\* of paths always has a file under way (uploadFiles).
THEOREM TypeCorrect == Spec => []TypeOK
<1>1. Init => TypeOK
  <2> SUFFICES ASSUME Init PROVE TypeOK
    OBVIOUS
  <2>1. {chosen, stored} \subseteq [Files -> Nat]
    BY DEF Init
  <2>2. runtime \in {"browser", "desktop", "android"}
    BY DEF Init
  <2>3. page \in 0..MaxPages /\ starts \in 0..MaxStarts
    BY DEF Init
  <2> QED BY <2>1, <2>2, <2>3 DEF Init, TypeOK
<1>2. TypeOK /\ [Next]_vars => TypeOK'
  <2> SUFFICES ASSUME TypeOK, [Next]_vars PROVE TypeOK'
    OBVIOUS
  <2>1. CASE Join
    BY <2>1 DEF Join, TypeOK, server
  <2>2. CASE Leave
    BY <2>2 DEF Leave, Unmount, TypeOK, server
  <2>3. CASE ForgetDrop
    BY <2>3 DEF ForgetDrop, TypeOK, server
  <2>4. CASE RetryFailed
    <3>1. FilesOf(RetriedItems) \subseteq Files /\ LocalOf(RetriedItems) \subseteq Files
      BY DEF FilesOf, LocalOf, RetriedItems, Failed, TypeOK, Items
    <3>2. joined /\ page \in 1..MaxPages
      BY <2>4 DEF RetryFailed, CanRetry, TypeOK
    <3>3. /\ uploads' \subseteq Items /\ running' \subseteq Batches
          /\ \A b \in running' : b.local \/ b.now \in Files
          /\ starts' \in 0..MaxStarts
      <4>1. CASE Failed = {}
        BY <2>4, <4>1 DEF RetryFailed, TypeOK
      <4>2. CASE Failed # {} /\ LocalOf(RetriedItems) = FilesOf(RetriedItems)
        BY <2>4, <3>1, <3>2, <4>2, LocalPathsType DEF RetryFailed
      <4>3. CASE Failed # {} /\ LocalOf(RetriedItems) # FilesOf(RetriedItems)
        BY <2>4, <3>1, <3>2, <4>3, UploadFilesType DEF RetryFailed
      <4> QED BY <4>1, <4>2, <4>3
    <3> QED BY <2>4, <3>3, NativeType DEF RetryFailed, TypeOK, desktop, server
  <2>5. CASE AutoClear
    BY <2>5 DEF AutoClear, TypeOK, desktop, server
  <2>6. CASE ClearCompleted
    BY <2>6 DEF ClearCompleted, TypeOK, desktop, server
  <2>7. CASE NativeAutoClear
    BY <2>7 DEF NativeAutoClear, TypeOK, desktop, server
  <2>8. CASE NativeReport
    BY <2>8, NativeType DEF NativeReport, TypeOK, desktop, server
  <2>9. ASSUME NEW p \in registering, ListenerReady(p) PROVE TypeOK'
    BY <2>9 DEF ListenerReady, TypeOK, server
  <2>10. ASSUME NEW files \in SUBSET Files, ChooseFiles(files) PROVE TypeOK'
    <3>1. /\ uploads' \subseteq Items /\ running' \subseteq Batches
          /\ \A b \in running' : b.local \/ b.now \in Files
          /\ starts' \in 0..MaxStarts
      BY <2>10, UploadFilesType DEF ChooseFiles, CanChoose
    <3>2. chosen' \in [Files -> Nat]
      BY <2>10, CountType DEF ChooseFiles, TypeOK
    <3> QED BY <2>10, <3>1, <3>2 DEF ChooseFiles, TypeOK, desktop
  <2>11. ASSUME NEW files \in SUBSET Files, DropPaths(files) PROVE TypeOK'
    <3> DEFINE called == {p \in listeners : [page |-> p, files |-> files] \notin lastDrop}
    <3>1. called \subseteq 1..MaxPages
      BY DEF TypeOK
    <3>2. UploadDroppedLocalPaths(files, called)
      BY <2>11 DEF DropPaths
    <3>3. /\ uploads' \subseteq Items /\ running' \subseteq Batches
          /\ \A b \in running' : b.local \/ b.now \in Files
          /\ starts' \in 0..MaxStarts
      BY <3>1, <3>2, LocalPathsType
    <3>4. chosen' \in [Files -> Nat]
      BY <2>11, CountType DEF DropPaths, TypeOK
    <3>5. crossed' \in BOOLEAN
      BY <2>11 DEF DropPaths
    <3>6. lastDrop' \subseteq [page : 1..MaxPages, files : SUBSET Files]
      BY <2>11 DEF DropPaths, TypeOK
    <3> QED BY <2>11, <3>3, <3>4, <3>5, <3>6 DEF DropPaths, TypeOK
  <2>12. ASSUME NEW b \in running, Answer(b) PROVE TypeOK'
    BY <2>12, AnswerType
  <2>13. CASE UNCHANGED vars
    BY <2>13 DEF vars, desktop, server, TypeOK
  <2> QED
    BY <2>1, <2>2, <2>3, <2>4, <2>5, <2>6, <2>7, <2>8, <2>9, <2>10, <2>11, <2>12, <2>13
       DEF Next
<1> QED BY <1>1, <1>2, PTL DEF Spec

(***************************************************************************)
(* A retry sends what the user gave                                        *)
(***************************************************************************)
\* The list never mixes paths and files of the browser.
Homogeneous == \A u, v \in uploads : u.local = v.local

LEMMA UploadFilesEffect ==
  ASSUME NEW files, NEW empty, UploadFiles(files, empty)
  PROVE  /\ uploads' = uploads \/ \A u \in uploads' : u.local = FALSE
         /\ \A b \in running' : b \in running \/ b.empty = empty
<1>1. CASE files \ TooLarge = {}
  BY <1>1 DEF UploadFiles
<1>2. CASE files \ TooLarge # {}
  BY <1>2 DEF UploadFiles, ShowOnly, Item
<1> QED BY <1>1, <1>2

LEMMA LocalPathsEffect ==
  ASSUME NEW files, NEW pages, UploadDroppedLocalPaths(files, pages)
  PROVE  /\ uploads' = uploads \/ \A u \in uploads' : u.local = TRUE
         /\ \A b \in running' : b \in running \/ b.empty = {}
BY DEF UploadDroppedLocalPaths, ShowOnly, Item

\* An answer changes statuses only, and leaves the contents of a batch alone.
LEMMA AnswerEffect ==
  ASSUME TypeOK, NEW b \in running, Answer(b)
  PROVE  /\ \A v \in uploads' : \E u \in uploads : u.local = v.local
         /\ \A c \in running' : \E d \in running : c.empty = d.empty
<1> USE BatchFacts
<1>1. uploads \subseteq Items /\ {"success", "error"} \subseteq Statuses
  BY DEF TypeOK, Statuses
<1>2. ASSUME ~b.local, NEW status \in Statuses, Proceed(b, status)
      PROVE  /\ \A v \in uploads' : \E u \in uploads : u.local = v.local
             /\ \A c \in running' : \E d \in running : c.empty = d.empty
  <2>1. CASE b.files = {} /\ running' = running \ {b} /\ Show(b, Marked(b, b.now, status))
    <3>1. \A v \in Marked(b, b.now, status) : \E u \in uploads : u.local = v.local
      BY <1>1, MarkedItems
    <3> QED BY <2>1, <3>1 DEF Show
  <2>2. ASSUME NEW f \in b.files, running' = (running \ {b}) \cup {Sending(b, f, joined)},
               Show(b, MarkedNext(b, f, status))
        PROVE  /\ \A v \in uploads' : \E u \in uploads : u.local = v.local
               /\ \A c \in running' : \E d \in running : c.empty = d.empty
    <3>1. \A v \in MarkedNext(b, f, status) : \E u \in uploads : u.local = v.local
      BY <1>1, <2>2, MarkedNextItems
    <3>2. Sending(b, f, joined).empty = b.empty
      BY <2>2, SendingType DEF TypeOK
    <3> QED BY <2>2, <3>1, <3>2 DEF Show
  <2> QED BY <1>2, <2>1, <2>2 DEF Proceed
<1>3. ASSUME NEW status \in Statuses,
             Show(b, {[u EXCEPT !.status = status] : u \in uploads})
      PROVE  \A v \in uploads' : \E u \in uploads : u.local = v.local
  <2>1. \A u \in uploads : [u EXCEPT !.status = status].local = u.local
    BY <1>1, StatusSet
  <2> QED BY <1>3, <2>1 DEF Show
<1>4. CASE FileStored(b)
  BY <1>1, <1>2, <1>4 DEF FileStored
<1>5. CASE FileFails(b)
  BY <1>1, <1>2, <1>5 DEF FileFails
<1>6. CASE FileUnauthorized(b)
  <2>1. \A f : Sending(b, f, FALSE).empty = b.empty
    BY DEF Sending, Batches
  <2> QED BY <1>6, <2>1 DEF FileUnauthorized, Unmount
<1>7. CASE PathsCopied(b)
  BY <1>1, <1>3, <1>7 DEF PathsCopied
<1>8. CASE PathsFail(b)
  BY <1>1, <1>3, <1>8 DEF PathsFail
<1>9. CASE PathsUnauthorized(b)
  BY <1>9 DEF PathsUnauthorized, Unmount
<1> QED BY <1>4, <1>5, <1>6, <1>7, <1>8, <1>9 DEF Answer

\* retryFailedUploads (FileUpload.tsx) sends the files of the browser or has the
\* paths copied again, whatever has failed and however batches, drops and sessions
\* have followed each other: no path goes up as the empty file made for it.
THEOREM RetriesKeepContent == Spec => []RetryKeepsContent
<1> DEFINE Inv == Homogeneous /\ RetryKeepsContent
<1>1. Init => Inv
  BY DEF Init, Homogeneous, RetryKeepsContent
<1>2. TypeOK /\ Inv /\ [Next]_vars => Inv'
  <2> SUFFICES ASSUME TypeOK, Homogeneous, RetryKeepsContent, [Next]_vars
               PROVE  Homogeneous' /\ RetryKeepsContent'
    OBVIOUS
  <2> USE DEF Homogeneous, RetryKeepsContent
  <2>1. CASE RetryFailed
    <3>1. CASE Failed = {}
      BY <2>1, <3>1 DEF RetryFailed
    <3>2. CASE Failed # {} /\ LocalOf(RetriedItems) = FilesOf(RetriedItems)
      BY <2>1, <3>2, LocalPathsEffect DEF RetryFailed
    <3>3. CASE Failed # {} /\ LocalOf(RetriedItems) # FilesOf(RetriedItems)
      <4>1. Failed \subseteq uploads /\ \A u \in uploads : u.local \in BOOLEAN
        BY DEF Failed, TypeOK, Items
      <4>2. LocalOf(RetriedItems) = {}
        BY <3>3, <4>1 DEF LocalOf, FilesOf, RetriedItems
      <4>3. UploadFiles(FilesOf(RetriedItems), {})
        BY <2>1, <3>3, <4>2 DEF RetryFailed
      <4> QED BY <4>3, UploadFilesEffect
    <3> QED BY <3>1, <3>2, <3>3
  <2>2. ASSUME NEW files \in SUBSET Files, ChooseFiles(files)
        PROVE  Homogeneous' /\ RetryKeepsContent'
    BY <2>2, UploadFilesEffect DEF ChooseFiles
  <2>3. ASSUME NEW files \in SUBSET Files, DropPaths(files)
        PROVE  Homogeneous' /\ RetryKeepsContent'
    BY <2>3, LocalPathsEffect DEF DropPaths
  <2>4. ASSUME NEW b \in running, Answer(b)
        PROVE  Homogeneous' /\ RetryKeepsContent'
    BY <2>4, AnswerEffect
  <2>5. CASE Join \/ Leave \/ ForgetDrop \/ AutoClear \/ ClearCompleted \/ NativeAutoClear
             \/ NativeReport \/ UNCHANGED vars \/ \E p \in registering : ListenerReady(p)
    BY <2>5 DEF Join, Leave, Unmount, ForgetDrop, AutoClear, ClearCompleted, NativeAutoClear,
                NativeReport, ListenerReady, vars
  <2> QED BY <2>1, <2>2, <2>3, <2>4, <2>5 DEF Next
<1> QED BY <1>1, <1>2, TypeCorrect, PTL DEF Spec

(***************************************************************************)
(* What is shown as uploaded is stored                                     *)
(***************************************************************************)
Mine(b) == joined /\ b.page = page

\* What b still has to hear of.
Waiting(b) == IF b.local THEN b.files ELSE b.files \cup {b.now}

\* Nothing belongs to a component that is still to come, and nothing is sent twice.
PagesOK ==
  /\ \A b \in running : b.page <= page /\ b.now \notin b.files
  /\ \A p \in registering \cup listeners : p <= page

\* The list shows all that a batch of the mounted component waits for, and, for a
\* call that copies paths, nothing else: marking every item marks its own.
ShownOK(b) ==
  /\ Waiting(b) # {}
  /\ \A f \in Waiting(b) : \E u \in uploads : u.n = b.n /\ u.file = f /\ u.status \in Active
  /\ b.local => FilesOf(uploads) \subseteq b.files

QueueOK ==
  /\ \A b \in running : Mine(b) => ShownOK(b)
  /\ \A b, c \in running : Mine(b) /\ Mine(c) => b = c

StoredInv == PagesOK /\ (~crossed => QueueOK) /\ SuccessWasStored

LEMMA NoneMine ==
  ASSUME TypeOK, QueueOK, ~IsUploading
  PROVE  \A b \in running : ~Mine(b)
BY DEF QueueOK, ShownOK, IsUploading

\* A batch of browser files that starts while nothing is active.
LEMMA UploadFilesQueue ==
  ASSUME TypeOK, PagesOK, joined, ~IsUploading, NEW files \in SUBSET Files, NEW empty,
         UploadFiles(files, empty), UNCHANGED <<joined, page, desktop>>
  PROVE  /\ PagesOK'
         /\ QueueOK => QueueOK'
         /\ \A u \in uploads' : u \in uploads \/ u.status # "success"
<1> DEFINE allowed == files \ TooLarge
<1>1. CASE allowed = {}
  BY <1>1 DEF UploadFiles, PagesOK, QueueOK, Mine, ShownOK, Waiting, FilesOf, desktop
<1>2. CASE allowed # {}
  <2>1. PICK f \in allowed :
          /\ starts < MaxStarts
          /\ uploads' = {Item(starts + 1, g, FALSE, IF g = f THEN "uploading" ELSE "queued") :
                           g \in allowed}
          /\ running' = running \cup
               {[n |-> starts + 1, page |-> page, local |-> FALSE, files |-> allowed \ {f},
                 now |-> f, auth |-> TRUE, empty |-> empty]}
    BY <1>2 DEF UploadFiles, ShowOnly
  <2> DEFINE new == [n |-> starts + 1, page |-> page, local |-> FALSE,
                     files |-> allowed \ {f}, now |-> f, auth |-> TRUE, empty |-> empty]
  <2>2. /\ new.page = page /\ ~new.local /\ new.now = f /\ new.files = allowed \ {f}
        /\ new.n = starts + 1
    OBVIOUS
  <2>3. running' = running \cup {new}
    BY <2>1
  <2>4. \A g \in allowed : \E u \in uploads' :
          u.n = starts + 1 /\ u.file = g /\ u.status \in Active
    <3> TAKE g \in allowed
    <3> DEFINE u == Item(starts + 1, g, FALSE, IF g = f THEN "uploading" ELSE "queued")
    <3>1. u \in uploads'
      BY <2>1
    <3>2. u.n = starts + 1 /\ u.file = g /\ u.status \in Active
      BY DEF Item, Active
    <3> QED BY <3>1, <3>2
  <2>5. \A u \in uploads' : u.status # "success"
    BY <2>1 DEF Item
  <2> HIDE DEF new
  <2>6. PagesOK'
    BY <2>2, <2>3 DEF PagesOK, TypeOK, desktop
  <2>7. ASSUME QueueOK PROVE QueueOK'
    <3>1. \A b \in running : ~Mine(b)
      BY <2>7, NoneMine
    <3>2. \A b \in running' : Mine(b)' => b = new
      BY <2>3, <3>1 DEF Mine
    <3>3. ASSUME NEW b \in running', b = new PROVE ShownOK(b)'
      <4>1. Waiting(b) = allowed /\ ~b.local /\ b.n = starts + 1
        BY <2>1, <2>2, <3>3 DEF Waiting
      <4> QED BY <1>2, <2>4, <4>1 DEF ShownOK, Waiting
    <3> QED BY <3>2, <3>3 DEF QueueOK
  <2> QED BY <2>5, <2>6, <2>7
<1> QED BY <1>1, <1>2

\* A call that copies paths, started in `pages` while none of them has a batch.
LEMMA LocalPathsQueue ==
  ASSUME TypeOK, PagesOK, NEW files \in SUBSET Files, files # {},
         NEW pages \in SUBSET (1..MaxPages), UploadDroppedLocalPaths(files, pages),
         \A p \in pages : p <= page, UNCHANGED <<joined, page, registering, listeners>>
  PROVE  /\ PagesOK'
         /\ QueueOK /\ (\A b \in running : Mine(b) => page \notin pages) => QueueOK'
         /\ \A u \in uploads' : u \in uploads \/ u.status # "success"
<1> DEFINE New(p) == [n |-> starts + 1, page |-> p, local |-> TRUE, files |-> files,
                      now |-> NoFile, auth |-> joined, empty |-> {}]
<1>1. \A p : New(p).page = p /\ New(p).local /\ New(p).files = files /\ New(p).now = NoFile
             /\ New(p).n = starts + 1
  OBVIOUS
<1>2. running' = running \cup {New(p) : p \in pages}
  BY DEF UploadDroppedLocalPaths
<1>3. CASE ~(joined /\ page \in pages)
  <2>1. uploads' = uploads
    BY <1>3 DEF UploadDroppedLocalPaths
  <2> HIDE DEF New
  <2>2. PagesOK'
    BY <1>1, <1>2 DEF PagesOK
  <2>3. \A b \in running' : Mine(b)' => b \in running /\ Mine(b)
    BY <1>1, <1>2, <1>3 DEF Mine
  <2>4. QueueOK => QueueOK'
    BY <2>1, <2>3 DEF QueueOK, ShownOK, Waiting, FilesOf
  <2> QED BY <2>1, <2>2, <2>4
<1>4. CASE joined /\ page \in pages
  <2>1. uploads' = {Item(starts + 1, f, TRUE, "uploading") : f \in files}
    BY <1>4 DEF UploadDroppedLocalPaths, ShowOnly
  <2>2. \A f \in files : \E u \in uploads' :
          u.n = starts + 1 /\ u.file = f /\ u.status \in Active
    <3> TAKE f \in files
    <3> DEFINE u == Item(starts + 1, f, TRUE, "uploading")
    <3>1. u \in uploads'
      BY <2>1
    <3>2. u.n = starts + 1 /\ u.file = f /\ u.status \in Active
      BY DEF Item, Active
    <3> QED BY <3>1, <3>2
  <2>3. \A u \in uploads' : u.status # "success" /\ u.file \in files
    BY <2>1 DEF Item
  <2> HIDE DEF New
  <2>4. PagesOK'
    BY <1>1, <1>2 DEF PagesOK
  <2>5. ASSUME QueueOK, \A b \in running : Mine(b) => page \notin pages
        PROVE  QueueOK'
    <3>1. \A b \in running' : Mine(b)' => b = New(page)
      BY <1>1, <1>2, <1>4, <2>5 DEF Mine
    <3>2. ASSUME NEW b \in running', b = New(page) PROVE ShownOK(b)'
      <4>1. Waiting(b) = files /\ b.local /\ b.files = files /\ b.n = starts + 1
        BY <1>1, <3>2 DEF Waiting
      <4> QED BY <2>2, <2>3, <4>1 DEF ShownOK, Waiting, FilesOf
    <3> QED BY <3>1, <3>2 DEF QueueOK
  <2> QED BY <2>3, <2>4, <2>5
<1> QED BY <1>3, <1>4

\* One file of a batch is done, and the next one, if any, is sent.
LEMMA ProceedQueue ==
  ASSUME TypeOK, PagesOK, NEW b \in running, ~b.local, NEW status \in Statuses,
         Proceed(b, status), UNCHANGED <<joined, page, desktop>>
  PROVE  /\ PagesOK'
         /\ QueueOK => QueueOK'
         /\ \A u \in uploads' : u.status = "success" =>
              u \in uploads \/ (u.file = b.now /\ status = "success")
<1> USE BatchFacts
<1>1. uploads \subseteq Items
  BY DEF TypeOK
<1>2. CASE b.files = {} /\ running' = running \ {b} /\ Show(b, Marked(b, b.now, status))
  <2>1. PagesOK'
    BY <1>2 DEF PagesOK, desktop
  <2>2. ASSUME QueueOK PROVE QueueOK'
    <3>1. CASE Mine(b)
      <4>1. \A c \in running' : ~Mine(c)'
        BY <1>2, <2>2, <3>1 DEF QueueOK, Mine
      <4> QED BY <4>1 DEF QueueOK
    <3>2. CASE ~Mine(b)
      <4>1. uploads' = uploads
        BY <1>2, <3>2 DEF Show, Mine
      <4> QED BY <1>2, <2>2, <4>1 DEF QueueOK, Mine, ShownOK, Waiting, FilesOf
    <3> QED BY <3>1, <3>2
  <2>3. \A v \in Marked(b, b.now, status) : v.status = "success" =>
          v \in uploads \/ (v.file = b.now /\ status = "success")
    BY <1>1, MarkedItems
  <2> QED BY <1>2, <2>1, <2>2, <2>3 DEF Show
<1>3. ASSUME NEW f \in b.files, running' = (running \ {b}) \cup {Sending(b, f, joined)},
             Show(b, MarkedNext(b, f, status))
      PROVE  /\ PagesOK'
             /\ QueueOK => QueueOK'
             /\ \A u \in uploads' : u.status = "success" =>
                  u \in uploads \/ (u.file = b.now /\ status = "success")
  <2>1. PICK next : next = Sending(b, f, joined)
    OBVIOUS
  <2>2. /\ next.now = f /\ next.files = b.files \ {f} /\ next.n = b.n
        /\ next.page = b.page /\ ~next.local
    BY <1>3, <2>1, SendingType DEF TypeOK
  <2>3. running' = (running \ {b}) \cup {next}
    BY <1>3, <2>1
  <2>4. PagesOK'
    BY <2>2, <2>3 DEF PagesOK, desktop
  <2>5. ASSUME QueueOK PROVE QueueOK'
    <3>1. CASE Mine(b)
      <4>1. \A c \in running' : Mine(c)' => c = next
        BY <2>3, <2>5, <3>1 DEF QueueOK, Mine
      <4>2. Waiting(next) = b.files /\ Waiting(next) # {}
        BY <1>3, <2>2 DEF Waiting
      <4>3. ASSUME NEW g \in b.files
            PROVE  \E v \in uploads' : v.n = b.n /\ v.file = g /\ v.status \in Active
        <5>1. PICK u \in uploads : u.n = b.n /\ u.file = g /\ u.status \in Active
          BY <2>5, <3>1, <4>3 DEF QueueOK, ShownOK, Waiting
        <5>2. u.file # b.now
          BY <4>3, <5>1 DEF PagesOK
        <5>3. uploads' = MarkedNext(b, f, status)
          BY <1>3, <3>1 DEF Show, Mine
        <5>4. IF u.file = f THEN \E v \in MarkedNext(b, f, status) :
                                   v.n = b.n /\ v.file = f /\ v.status = "uploading"
              ELSE u \in MarkedNext(b, f, status)
          BY <1>1, <1>3, <5>1, <5>2, MarkedNextItems
        <5> QED BY <5>1, <5>3, <5>4 DEF Active
      <4>4. ShownOK(next)'
        BY <2>2, <4>2, <4>3 DEF ShownOK, Waiting
      <4> QED BY <4>1, <4>4 DEF QueueOK
    <3>2. CASE ~Mine(b)
      <4>1. uploads' = uploads
        BY <1>3, <3>2 DEF Show, Mine
      <4>2. \A c \in running' : Mine(c)' => c \in running /\ Mine(c)
        BY <2>2, <2>3, <3>2 DEF Mine
      <4> QED BY <2>5, <4>1, <4>2 DEF QueueOK, ShownOK, Waiting, FilesOf
    <3> QED BY <3>1, <3>2
  <2>6. \A v \in MarkedNext(b, f, status) : v.status = "success" =>
          v \in uploads \/ (v.file = b.now /\ status = "success")
    BY <1>1, <1>3, MarkedNextItems
  <2> QED BY <1>3, <2>4, <2>5, <2>6 DEF Show
<1> QED BY <1>2, <1>3 DEF Proceed

\* A call for paths is over; if its component is the mounted one, every item is
\* marked, and they are its own.
LEMMA PathsQueue ==
  ASSUME TypeOK, PagesOK, NEW b \in running, b.local, NEW status \in Statuses,
         running' = running \ {b}, UNCHANGED <<joined, page, desktop>>,
         Show(b, {[u EXCEPT !.status = status] : u \in uploads})
  PROVE  /\ PagesOK'
         /\ QueueOK => QueueOK'
         /\ QueueOK => \A u \in uploads' : u.status = "success" =>
                         u \in uploads \/ (u.file \in b.files /\ status = "success")
<1>1. PagesOK'
  BY DEF PagesOK, desktop
<1>2. CASE Mine(b)
  <2>1. ASSUME QueueOK PROVE \A c \in running' : ~Mine(c)'
    BY <1>2, <2>1 DEF QueueOK, Mine
  <2>2. ASSUME QueueOK, NEW v \in uploads', v.status = "success"
        PROVE  v.file \in b.files /\ status = "success"
    <3>1. PICK u \in uploads : v = [u EXCEPT !.status = status]
      BY <1>2, <2>2 DEF Show, Mine
    <3>2. v.file = u.file /\ v.status = status
      BY <3>1, StatusSet DEF TypeOK
    <3>3. u.file \in b.files
      BY <1>2, <2>2 DEF QueueOK, ShownOK, FilesOf
    <3> QED BY <2>2, <3>2, <3>3
  <2> QED BY <1>1, <2>1, <2>2 DEF QueueOK
<1>3. CASE ~Mine(b)
  <2>1. uploads' = uploads
    BY <1>3 DEF Show, Mine
  <2> QED BY <1>1, <2>1 DEF QueueOK, Mine, ShownOK, Waiting, FilesOf
<1> QED BY <1>2, <1>3

LEMMA UnmountQueue ==
  ASSUME PagesOK, Unmount, UNCHANGED page,
         \A c \in running' : c.page <= page /\ c.now \notin c.files
  PROVE  PagesOK' /\ QueueOK' /\ uploads' = {}
BY DEF Unmount, PagesOK, QueueOK, Mine

\* What a step must do for the invariant: items that become successes are stored,
\* and nothing that is stored is lost.
LEMMA StillStored ==
  ASSUME TypeOK, SuccessWasStored, crossed => crossed',
         stored' \in [Files -> Nat], \A f \in Files : stored'[f] >= stored[f],
         ~crossed' => \A u \in uploads' : u.status = "success" =>
                        u \in uploads \/ stored'[u.file] > 0
  PROVE  SuccessWasStored'
<1> SUFFICES ASSUME ~crossed', NEW u \in uploads', u.status = "success"
             PROVE  stored'[u.file] > 0
  BY DEF SuccessWasStored, Completed
<1>1. CASE u \in uploads
  <2>1. u.file \in Files /\ stored[u.file] \in Nat
    BY <1>1 DEF TypeOK, Items
  <2>2. stored[u.file] > 0
    BY <1>1 DEF SuccessWasStored, Completed
  <2>3. stored'[u.file] \in Nat /\ stored'[u.file] >= stored[u.file]
    BY <2>1
  <2> QED BY <2>1, <2>2, <2>3
<1>2. CASE u \notin uploads
  BY <1>2
<1> QED BY <1>1, <1>2

LEMMA AnswerStored ==
  ASSUME TypeOK, StoredInv, NEW b \in running, Answer(b)
  PROVE  StoredInv'
<1> USE BatchFacts
<1>1. /\ PagesOK /\ SuccessWasStored /\ (~crossed => QueueOK)
      /\ {"success", "error"} \subseteq Statuses
      /\ stored \in [Files -> Nat] /\ \A f \in Files : stored[f] \in Nat
  BY DEF StoredInv, TypeOK, Statuses
<1>2. \A files : /\ Count(stored, files) \in [Files -> Nat]
                 /\ \A f \in Files : /\ Count(stored, files)[f] >= stored[f]
                                     /\ f \in files => Count(stored, files)[f] > 0
  BY <1>1, CountType
<1>3. CASE FileStored(b)
  <2>1. /\ PagesOK' /\ (QueueOK => QueueOK')
        /\ \A u \in uploads' : u.status = "success" => u \in uploads \/ u.file = b.now
    BY <1>1, <1>3, ProceedQueue DEF FileStored
  <2>2. stored' = Count(stored, {b.now}) /\ crossed' = crossed
    BY <1>3 DEF FileStored
  <2>3. b.now \in Files
    BY <1>3 DEF FileStored
  <2>4. SuccessWasStored'
    BY <1>1, <1>2, <2>1, <2>2, <2>3, StillStored
  <2> QED BY <1>1, <2>1, <2>2, <2>4 DEF StoredInv
<1>4. CASE FileFails(b)
  <2>1. /\ PagesOK' /\ (QueueOK => QueueOK')
        /\ \A u \in uploads' : u.status = "success" => u \in uploads
    BY <1>1, <1>4, ProceedQueue DEF FileFails
  <2>2. crossed' = crossed /\ (stored' = stored \/ stored' = Count(stored, {b.now}))
    BY <1>4 DEF FileFails
  <2>3. stored' \in [Files -> Nat] /\ \A f \in Files : stored'[f] >= stored[f]
    BY <1>1, <1>2, <2>2
  <2>4. SuccessWasStored'
    BY <1>1, <2>1, <2>2, <2>3, StillStored
  <2> QED BY <1>1, <2>1, <2>2, <2>4 DEF StoredInv
<1>5. CASE FileUnauthorized(b)
  <2>1. \A f \in b.files : /\ Sending(b, f, FALSE).page = b.page
                           /\ Sending(b, f, FALSE).now \notin Sending(b, f, FALSE).files
    BY DEF Sending, Batches
  <2>2. \A c \in running' : c.page <= page /\ c.now \notin c.files
    BY <1>1, <1>5, <2>1 DEF FileUnauthorized, PagesOK
  <2>3. PagesOK' /\ QueueOK' /\ uploads' = {}
    BY <1>1, <1>5, <2>2, UnmountQueue DEF FileUnauthorized
  <2> QED BY <2>3 DEF StoredInv, SuccessWasStored, Completed
<1>6. CASE PathsCopied(b)
  <2>1. /\ PagesOK' /\ (QueueOK => QueueOK')
        /\ QueueOK => \A u \in uploads' : u.status = "success" =>
                        u \in uploads \/ u.file \in b.files
    BY <1>1, <1>6, PathsQueue DEF PathsCopied
  <2>2. stored' = Count(stored, b.files) /\ crossed' = crossed
    BY <1>6 DEF PathsCopied
  <2>3. SuccessWasStored'
    BY <1>1, <1>2, <2>1, <2>2, StillStored
  <2> QED BY <1>1, <2>1, <2>2, <2>3 DEF StoredInv
<1>7. CASE PathsFail(b)
  <2>1. /\ PagesOK' /\ (QueueOK => QueueOK')
        /\ QueueOK => \A u \in uploads' : u.status = "success" => u \in uploads
    BY <1>1, <1>7, PathsQueue DEF PathsFail
  <2>2. crossed' = crossed /\ \E done : stored' = Count(stored, done)
    BY <1>7 DEF PathsFail
  <2>3. stored' \in [Files -> Nat] /\ \A f \in Files : stored'[f] >= stored[f]
    BY <1>2, <2>2
  <2>4. SuccessWasStored'
    BY <1>1, <2>1, <2>2, <2>3, StillStored
  <2> QED BY <1>1, <2>1, <2>2, <2>4 DEF StoredInv
<1>8. CASE PathsUnauthorized(b)
  <2>1. PagesOK' /\ QueueOK' /\ uploads' = {}
    BY <1>1, <1>8, UnmountQueue DEF PathsUnauthorized, PagesOK
  <2> QED BY <2>1 DEF StoredInv, SuccessWasStored, Completed
<1> QED BY <1>3, <1>4, <1>5, <1>6, <1>7, <1>8 DEF Answer

LEMMA StoredInvariance == Spec => []StoredInv
<1>1. Init => StoredInv
  BY DEF Init, StoredInv, PagesOK, QueueOK, SuccessWasStored, Completed
<1>2. TypeOK /\ StoredInv /\ [Next]_vars => StoredInv'
  <2> SUFFICES ASSUME TypeOK, StoredInv, [Next]_vars PROVE StoredInv'
    OBVIOUS
  <2>0. /\ PagesOK /\ SuccessWasStored /\ (~crossed => QueueOK)
        /\ stored \in [Files -> Nat] /\ \A f \in Files : stored[f] \in Nat
    BY DEF StoredInv, TypeOK
  <2>1. CASE Join
    <3>1. page \in Nat /\ page' = page + 1 /\ running' = running
      BY <2>1 DEF Join, TypeOK
    <3>2. \A b \in running : b.page \in Nat /\ b.page <= page
      BY <2>0, BatchFacts DEF PagesOK
    <3>3. QueueOK'
      BY <3>1, <3>2 DEF QueueOK, Mine
    <3>4. \A p \in registering \cup listeners : p \in Nat /\ p <= page
      BY <2>0 DEF PagesOK, TypeOK
    <3>5. registering' \subseteq registering \cup {page'} /\ listeners' = listeners
      BY <2>1 DEF Join
    <3>6. PagesOK'
      BY <2>0, <3>1, <3>2, <3>4, <3>5 DEF PagesOK
    <3> QED BY <2>0, <2>1, <3>3, <3>6 DEF Join, server, StoredInv, SuccessWasStored, Completed
  <2>2. CASE Leave
    <3>1. PagesOK' /\ QueueOK' /\ uploads' = {}
      BY <2>0, <2>2, UnmountQueue DEF Leave, PagesOK
    <3> QED BY <3>1 DEF StoredInv, SuccessWasStored, Completed
  <2>3. CASE RetryFailed
    <3>1. FilesOf(RetriedItems) \subseteq Files /\ LocalOf(RetriedItems) \subseteq Files
      BY DEF FilesOf, LocalOf, RetriedItems, Failed, TypeOK, Items
    <3>2. joined /\ ~IsUploading /\ page \in 1..MaxPages
          /\ UNCHANGED <<joined, page, desktop, stored, crossed>>
      BY <2>3 DEF RetryFailed, CanRetry, TypeOK, server
    <3>3. /\ PagesOK' /\ (QueueOK => QueueOK')
          /\ \A u \in uploads' : u \in uploads \/ u.status # "success"
      <4>1. CASE Failed = {}
        BY <2>0, <2>3, <4>1 DEF RetryFailed, PagesOK, QueueOK, Mine, ShownOK, Waiting, FilesOf,
                                desktop
      <4>2. CASE Failed # {} /\ LocalOf(RetriedItems) = FilesOf(RetriedItems)
        <5>1. FilesOf(RetriedItems) # {}
          BY <4>2 DEF FilesOf, RetriedItems
        <5>2. QueueOK => \A b \in running : ~Mine(b)
          BY <3>2, NoneMine
        <5>3. UploadDroppedLocalPaths(FilesOf(RetriedItems), {page})
          BY <2>3, <4>2 DEF RetryFailed
        <5> QED BY <2>0, <3>1, <3>2, <5>1, <5>2, <5>3, LocalPathsQueue DEF desktop
      <4>3. CASE Failed # {} /\ LocalOf(RetriedItems) # FilesOf(RetriedItems)
        BY <2>0, <2>3, <3>1, <3>2, <4>3, UploadFilesQueue DEF RetryFailed
      <4> QED BY <4>1, <4>2, <4>3
    <3>4. SuccessWasStored'
      BY <2>0, <3>2, <3>3, StillStored
    <3> QED BY <2>0, <3>2, <3>3, <3>4 DEF StoredInv
  <2>4. ASSUME NEW files \in SUBSET Files, ChooseFiles(files) PROVE StoredInv'
    <3>1. UNCHANGED <<joined, page, desktop, stored, crossed>>
      BY <2>4 DEF ChooseFiles
    <3>2. /\ PagesOK' /\ (QueueOK => QueueOK')
          /\ \A u \in uploads' : u \in uploads \/ u.status # "success"
      BY <2>0, <2>4, <3>1, UploadFilesQueue DEF ChooseFiles, CanChoose
    <3>3. SuccessWasStored'
      BY <2>0, <3>1, <3>2, StillStored
    <3> QED BY <2>0, <3>1, <3>2, <3>3 DEF StoredInv
  <2>5. ASSUME NEW files \in SUBSET Files, DropPaths(files) PROVE StoredInv'
    <3> DEFINE called == {p \in listeners : [page |-> p, files |-> files] \notin lastDrop}
    <3>1. /\ called \in SUBSET (1..MaxPages) /\ files # {}
          /\ \A p \in called : p <= page
          /\ UploadDroppedLocalPaths(files, called)
          /\ UNCHANGED <<joined, page, registering, listeners, stored>>
      BY <2>0, <2>5 DEF DropPaths, PagesOK, TypeOK
    <3>2. ~crossed' => ~crossed /\ \A b \in running : b.page \notin called
      BY <2>5 DEF DropPaths
    <3> HIDE DEF called
    <3>3. /\ PagesOK'
          /\ QueueOK /\ (\A b \in running : Mine(b) => page \notin called) => QueueOK'
          /\ \A u \in uploads' : u \in uploads \/ u.status # "success"
      BY <2>0, <3>1, LocalPathsQueue
    <3>4. ~crossed' => QueueOK'
      BY <2>0, <3>2, <3>3 DEF Mine
    <3>5. SuccessWasStored'
      BY <2>0, <3>1, <3>2, <3>3, StillStored
    <3> QED BY <3>3, <3>4, <3>5 DEF StoredInv
  <2>6. ASSUME NEW b \in running, Answer(b) PROVE StoredInv'
    BY <2>6, AnswerStored
  <2>7. CASE AutoClear \/ ClearCompleted
    <3>1. /\ uploads' = uploads \ Completed
          /\ UNCHANGED <<joined, page, running, registering, listeners, stored, crossed>>
      BY <2>7 DEF AutoClear, ClearCompleted, desktop, server
    <3>2. \A u \in uploads : u.status \in Active => u \in uploads'
      BY <3>1 DEF Completed, Active
    <3>3. QueueOK => QueueOK'
      BY <3>1, <3>2 DEF QueueOK, Mine, ShownOK, Waiting, FilesOf
    <3>4. PagesOK'
      BY <2>0, <3>1 DEF PagesOK
    <3>5. SuccessWasStored'
      BY <2>0, <3>1, StillStored
    <3> QED BY <2>0, <3>1, <3>3, <3>4, <3>5 DEF StoredInv
  <2>8. CASE ForgetDrop \/ NativeAutoClear \/ NativeReport \/ UNCHANGED vars
             \/ \E p \in registering : ListenerReady(p)
    <3>1. UNCHANGED <<joined, page, uploads, running, stored, crossed>>
      BY <2>8 DEF ForgetDrop, NativeAutoClear, NativeReport, ListenerReady, vars, server
    <3>2. registering' \cup listeners' \subseteq registering \cup listeners
      BY <2>8 DEF ForgetDrop, NativeAutoClear, NativeReport, ListenerReady, vars, desktop
    <3>3. PagesOK'
      BY <2>0, <3>1, <3>2 DEF PagesOK
    <3>4. QueueOK => QueueOK'
      BY <3>1 DEF QueueOK, Mine, ShownOK, Waiting, FilesOf
    <3> QED BY <2>0, <3>1, <3>3, <3>4 DEF StoredInv, SuccessWasStored, Completed
  <2> QED BY <2>1, <2>2, <2>3, <2>4, <2>5, <2>6, <2>7, <2>8 DEF Next
<1> QED BY <1>1, <1>2, TypeCorrect, PTL DEF Spec

\* What the list shows as uploaded, the hub has stored: uploadFiles marks the file
\* that was sent, and uploadDroppedLocalPaths, which marks whatever is listed,
\* lists nothing else, as long as drops do not overlap (FileUpload.tsx).
THEOREM SuccessesAreStored == Spec => []SuccessWasStored
<1>1. StoredInv => SuccessWasStored
  BY DEF StoredInv
<1> QED BY <1>1, StoredInvariance, PTL

(***************************************************************************)
(* Nothing is stored more often than it was given                          *)
(***************************************************************************)
Holds(b, f) == f = b.now \/ f \in b.files

\* The batches that may still store f.
Owed(f) == {b \in running : Holds(b, f)}

\* What a retry of f would start.
Retriable(f) == IF \E u \in Failed : u.file = f THEN 1 ELSE 0

\* Each time that f is stored, on its way or listed as failed answers to a time
\* that the user gave it.
AccountOK ==
  ~crossed =>
    /\ IsFiniteSet(running)
    /\ \A f \in Files \ unsure :
         stored[f] + Cardinality(Owed(f)) + Retriable(f) <= chosen[f]

LEMMA OwedType ==
  ASSUME IsFiniteSet(running), NEW f
  PROVE  IsFiniteSet(Owed(f)) /\ Cardinality(Owed(f)) \in Nat
<1>1. Owed(f) \subseteq running
  BY DEF Owed
<1> QED BY <1>1, FS_Subset, FS_CardinalityType

\* What a step does to a file's account: the numbers of its stores, batches,
\* failures and choices.
AccountKept(f) ==
  stored'[f] + Cardinality(Owed(f)') + Retriable(f)' + chosen[f]
    <= stored[f] + Cardinality(Owed(f)) + Retriable(f) + chosen'[f]

LEMMA AccountTypes ==
  ASSUME TypeOK, TypeOK', IsFiniteSet(running), NEW f \in Files
  PROVE  /\ stored[f] \in Nat /\ stored'[f] \in Nat /\ chosen[f] \in Nat /\ chosen'[f] \in Nat
         /\ Cardinality(Owed(f)) \in Nat
         /\ Retriable(f) \in {0, 1} /\ Retriable(f)' \in {0, 1}
BY OwedType DEF TypeOK, Retriable

\* A step that keeps the account of every file.
LEMMA Balance ==
  ASSUME TypeOK, TypeOK', AccountOK, ~crossed, IsFiniteSet(running'),
         unsure \subseteq unsure',
         \A f \in Files \ unsure' : AccountKept(f)
  PROVE  AccountOK'
<1>1. ASSUME NEW f \in Files \ unsure'
      PROVE  stored'[f] + Cardinality(Owed(f)') + Retriable(f)' <= chosen'[f]
  <2>1. /\ stored[f] \in Nat /\ stored'[f] \in Nat /\ chosen[f] \in Nat /\ chosen'[f] \in Nat
        /\ Cardinality(Owed(f)) \in Nat
        /\ Retriable(f) \in {0, 1} /\ Retriable(f)' \in {0, 1}
    BY AccountTypes DEF AccountOK
  <2>2. Cardinality(Owed(f)') \in Nat
    <3>1. Owed(f)' \subseteq running'
      BY DEF Owed
    <3> QED BY <3>1, FS_Subset, FS_CardinalityType
  <2>3. stored[f] + Cardinality(Owed(f)) + Retriable(f) <= chosen[f]
    BY <1>1 DEF AccountOK
  <2>4. stored'[f] + Cardinality(Owed(f)') + Retriable(f)' + chosen[f]
          <= stored[f] + Cardinality(Owed(f)) + Retriable(f) + chosen'[f]
    BY <1>1 DEF AccountKept
  <2> QED BY <2>1, <2>2, <2>3, <2>4
<1> QED BY <1>1 DEF AccountOK

\* A batch goes on without what it was sending, or is over.
LEMMA OwedLess ==
  ASSUME IsFiniteSet(running), NEW b \in running, NEW C, C = {} \/ \E c : C = {c},
         running' = (running \ {b}) \cup C, NEW f,
         \A c \in C : Holds(c, f) => Holds(b, f)
  PROVE  /\ IsFiniteSet(running') /\ Cardinality(Owed(f)') \in Nat
         /\ Cardinality(Owed(f)') <= Cardinality(Owed(f))
         /\ Holds(b, f) /\ (\A c \in C : ~Holds(c, f)) =>
              Cardinality(Owed(f)') + 1 <= Cardinality(Owed(f))
<1>1. IsFiniteSet(running')
  <2>1. IsFiniteSet(running \ {b})
    BY FS_RemoveElement
  <2>2. ASSUME NEW c, C = {c} PROVE IsFiniteSet(running')
    BY <2>1, <2>2, FS_AddElement
  <2>3. ASSUME C = {} PROVE IsFiniteSet(running')
    BY <2>1, <2>3
  <2> QED BY <2>2, <2>3
<1>2. PICK old, new : old = Owed(f) /\ new = Owed(f)'
  OBVIOUS
<1>3. /\ IsFiniteSet(old) /\ Cardinality(old) \in Nat
      /\ IsFiniteSet(new) /\ Cardinality(new) \in Nat
  <2>1. new \subseteq running'
    BY <1>2 DEF Owed
  <2> QED BY <1>1, <1>2, <2>1, OwedType, FS_Subset, FS_CardinalityType
<1>4. b \in old <=> Holds(b, f)
  BY <1>2 DEF Owed
<1>5. /\ IsFiniteSet(old \ {b})
      /\ Cardinality(old \ {b}) = IF Holds(b, f) THEN Cardinality(old) - 1 ELSE Cardinality(old)
  BY <1>3, <1>4, FS_RemoveElement
<1>6. ASSUME \A c \in C : ~Holds(c, f)
      PROVE  Cardinality(new) <= Cardinality(old \ {b})
  <2>1. new \subseteq old \ {b}
    BY <1>2, <1>6 DEF Owed, Holds
  <2> QED BY <1>5, <2>1, FS_Subset
<1>7. ASSUME NEW c \in C, Holds(c, f)
      PROVE  Cardinality(new) <= Cardinality(old)
  <2>1. new \subseteq (old \ {b}) \cup {c}
    BY <1>2, <1>7 DEF Owed, Holds
  <2>2. /\ IsFiniteSet((old \ {b}) \cup {c})
        /\ Cardinality((old \ {b}) \cup {c}) \in Nat
        /\ Cardinality((old \ {b}) \cup {c}) <= Cardinality(old \ {b}) + 1
    <3>1. PICK rest : rest = old \ {b}
      OBVIOUS
    <3>2. IsFiniteSet(rest) /\ Cardinality(rest) \in Nat
      BY <1>5, <3>1, FS_CardinalityType
    <3>3. /\ IsFiniteSet(rest \cup {c})
          /\ \/ Cardinality(rest \cup {c}) = Cardinality(rest)
             \/ Cardinality(rest \cup {c}) = Cardinality(rest) + 1
      BY <3>2, FS_AddElement
    <3> QED BY <3>1, <3>2, <3>3
  <2>3. Cardinality(new) <= Cardinality((old \ {b}) \cup {c})
    BY <2>1, <2>2, FS_Subset
  <2> QED BY <1>3, <1>5, <1>7, <2>2, <2>3
<1> QED BY <1>1, <1>2, <1>3, <1>5, <1>6, <1>7

\* A batch starts.
LEMMA OwedMore ==
  ASSUME IsFiniteSet(running), NEW c, running' = running \cup {c}, NEW f
  PROVE  /\ IsFiniteSet(running') /\ Cardinality(Owed(f)') \in Nat
         /\ Cardinality(Owed(f)') <= Cardinality(Owed(f)) + (IF Holds(c, f) THEN 1 ELSE 0)
<1>1. IsFiniteSet(running')
  BY FS_AddElement
<1>2. PICK old, new : old = Owed(f) /\ new = Owed(f)'
  OBVIOUS
<1>3. IsFiniteSet(old) /\ Cardinality(old) \in Nat
  BY <1>2, OwedType
<1>4. CASE Holds(c, f)
  <2>1. new = old \cup {c}
    BY <1>2, <1>4 DEF Owed, Holds
  <2>2. Cardinality(new) \in Nat /\ Cardinality(new) <= Cardinality(old) + 1
    <3>1. \/ Cardinality(new) = Cardinality(old)
          \/ Cardinality(new) = Cardinality(old) + 1
      BY <1>3, <2>1, FS_AddElement
    <3> QED BY <1>3, <3>1
  <2> QED BY <1>1, <1>2, <1>4, <2>2
<1>5. CASE ~Holds(c, f)
  <2>1. new = old
    BY <1>2, <1>5 DEF Owed, Holds
  <2> QED BY <1>1, <1>2, <1>3, <1>5, <2>1
<1> QED BY <1>4, <1>5

\* No item of f fails.
LEMMA NoNewFailure ==
  ASSUME NEW f, \A u \in uploads' : u.status = "error" /\ u.file = f => u \in uploads
  PROVE  Retriable(f)' <= Retriable(f) /\ Retriable(f)' \in {0, 1} /\ Retriable(f) \in {0, 1}
BY DEF Retriable, Failed

\* What a batch of browser files adds: one for each file that is not too large,
\* while nothing is listed as failed any more.
LEMMA FilesAccount ==
  ASSUME IsFiniteSet(running), NEW files, NEW empty, UploadFiles(files, empty),
         NEW f \in Files
  PROVE  /\ IsFiniteSet(running') /\ Cardinality(Owed(f)') \in Nat
         /\ \/ /\ files \ TooLarge = {} /\ Cardinality(Owed(f)') = Cardinality(Owed(f))
               /\ Retriable(f)' = Retriable(f)
            \/ /\ Cardinality(Owed(f)') <=
                    Cardinality(Owed(f)) + (IF f \in files \ TooLarge THEN 1 ELSE 0)
               /\ Retriable(f)' = 0
<1>1. CASE files \ TooLarge = {}
  <2>1. UNCHANGED <<uploads, running>>
    BY <1>1 DEF UploadFiles
  <2>2. Owed(f)' = Owed(f) /\ Retriable(f)' = Retriable(f)
    BY <2>1 DEF Owed, Retriable, Failed
  <2> QED BY <1>1, <2>1, <2>2, OwedType
<1>2. CASE files \ TooLarge # {}
  <2>1. PICK g \in files \ TooLarge :
          /\ uploads' = {Item(starts + 1, h, FALSE, IF h = g THEN "uploading" ELSE "queued") :
                           h \in files \ TooLarge}
          /\ running' = running \cup
               {[n |-> starts + 1, page |-> page, local |-> FALSE,
                 files |-> (files \ TooLarge) \ {g}, now |-> g, auth |-> TRUE, empty |-> empty]}
    BY <1>2 DEF UploadFiles, ShowOnly
  <2>2. PICK c : c = [n |-> starts + 1, page |-> page, local |-> FALSE,
                      files |-> (files \ TooLarge) \ {g}, now |-> g, auth |-> TRUE,
                      empty |-> empty]
    OBVIOUS
  <2>3. running' = running \cup {c} /\ (Holds(c, f) <=> f \in files \ TooLarge)
    BY <2>1, <2>2 DEF Holds
  <2>4. /\ IsFiniteSet(running') /\ Cardinality(Owed(f)') \in Nat
        /\ Cardinality(Owed(f)') <=
             Cardinality(Owed(f)) + (IF f \in files \ TooLarge THEN 1 ELSE 0)
    BY <2>3, OwedMore
  <2>5. \A u \in uploads' : u.status # "error"
    BY <2>1 DEF Item
  <2>6. Retriable(f)' = 0
    BY <2>5 DEF Retriable, Failed
  <2> QED BY <2>4, <2>6
<1> QED BY <1>1, <1>2

\* What a call for paths adds in one component.
LEMMA PathsAccount ==
  ASSUME IsFiniteSet(running), NEW files, NEW p, UploadDroppedLocalPaths(files, {p}),
         NEW f \in Files
  PROVE  /\ IsFiniteSet(running') /\ Cardinality(Owed(f)') \in Nat
         /\ Cardinality(Owed(f)') <= Cardinality(Owed(f)) + (IF f \in files THEN 1 ELSE 0)
         /\ Retriable(f)' <= Retriable(f) /\ Retriable(f)' \in {0, 1}
         /\ joined /\ page = p => Retriable(f)' = 0
<1>1. PICK c : c = [n |-> starts + 1, page |-> p, local |-> TRUE, files |-> files,
                    now |-> NoFile, auth |-> joined, empty |-> {}]
  OBVIOUS
<1>2. running' = running \cup {c}
  BY <1>1 DEF UploadDroppedLocalPaths
<1>3. Holds(c, f) <=> f \in files
  BY <1>1 DEF Holds
<1>4. \/ uploads' = uploads /\ ~(joined /\ page = p)
      \/ \A u \in uploads' : u.status # "error"
  BY DEF UploadDroppedLocalPaths, ShowOnly, Item
<1>5. /\ Retriable(f)' <= Retriable(f) /\ Retriable(f)' \in {0, 1}
      /\ joined /\ page = p => Retriable(f)' = 0
  BY <1>4 DEF Retriable, Failed
<1> QED BY <1>2, <1>3, <1>5, OwedMore

\* The loop of a batch leaves the file it was sending behind.
LEMMA ProceedAccount ==
  ASSUME TypeOK, PagesOK, IsFiniteSet(running), NEW b \in running, ~b.local,
         NEW status \in Statuses, Proceed(b, status), NEW f \in Files
  PROVE  /\ IsFiniteSet(running') /\ Cardinality(Owed(f)') \in Nat
         /\ Cardinality(Owed(f)') <= Cardinality(Owed(f))
         /\ f = b.now => Cardinality(Owed(f)') + 1 <= Cardinality(Owed(f))
         /\ f # b.now \/ status # "error" => Retriable(f)' <= Retriable(f)
         /\ Retriable(f)' \in {0, 1} /\ Retriable(f) \in {0, 1}
<1> USE BatchFacts
<1>1. uploads \subseteq Items /\ b.now \notin b.files
  BY DEF TypeOK, PagesOK
<1>2. Retriable(f)' \in {0, 1} /\ Retriable(f) \in {0, 1}
  BY DEF Retriable
<1>3. CASE b.files = {} /\ running' = running \ {b} /\ Show(b, Marked(b, b.now, status))
  <2>1. \A v \in Marked(b, b.now, status) : v \in uploads \/ (v.file = b.now /\ v.status = status)
    BY <1>1, MarkedItems
  <2>2. f # b.now \/ status # "error" => Retriable(f)' <= Retriable(f)
    BY <1>3, <2>1, NoNewFailure DEF Show
  <2>3. PICK C : C = {}
    OBVIOUS
  <2>4. running' = (running \ {b}) \cup C /\ \A c \in C : ~Holds(c, f)
    BY <1>3, <2>3
  <2> QED BY <1>2, <2>2, <2>3, <2>4, OwedLess DEF Holds
<1>4. ASSUME NEW g \in b.files, running' = (running \ {b}) \cup {Sending(b, g, joined)},
             Show(b, MarkedNext(b, g, status))
      PROVE  /\ IsFiniteSet(running') /\ Cardinality(Owed(f)') \in Nat
             /\ Cardinality(Owed(f)') <= Cardinality(Owed(f))
             /\ f = b.now => Cardinality(Owed(f)') + 1 <= Cardinality(Owed(f))
             /\ f # b.now \/ status # "error" => Retriable(f)' <= Retriable(f)
  <2>1. \A v \in MarkedNext(b, g, status) :
          \/ v \in uploads \/ v.status = "uploading"
          \/ v.file = b.now /\ v.status = status
    BY <1>1, <1>4, MarkedNextItems
  <2>2. f # b.now \/ status # "error" => Retriable(f)' <= Retriable(f)
    BY <1>4, <2>1, NoNewFailure DEF Show
  <2>3. PICK c, C : c = Sending(b, g, joined) /\ C = {c}
    OBVIOUS
  <2>4. c.now = g /\ c.files = b.files \ {g}
    BY <1>4, <2>3, SendingType DEF TypeOK
  <2>5. Holds(c, f) <=> f \in b.files
    BY <1>4, <2>4 DEF Holds
  <2>6. running' = (running \ {b}) \cup C /\ \A x \in C : Holds(x, f) => Holds(b, f) /\ f # b.now
    BY <1>1, <1>4, <2>3, <2>5 DEF Holds
  <2> QED BY <2>2, <2>3, <2>6, OwedLess DEF Holds
<1> QED BY <1>2, <1>3, <1>4 DEF Proceed

\* A batch that is over, with or without its list.
LEMMA OverAccount ==
  ASSUME IsFiniteSet(running), NEW b \in running, running' = running \ {b}, NEW f
  PROVE  /\ IsFiniteSet(running') /\ Cardinality(Owed(f)') \in Nat
         /\ Cardinality(Owed(f)') <= Cardinality(Owed(f))
         /\ Holds(b, f) => Cardinality(Owed(f)') + 1 <= Cardinality(Owed(f))
<1>1. PICK C : C = {}
  OBVIOUS
<1>2. running' = (running \ {b}) \cup C
  BY <1>1
<1> QED BY ZenonT(60), <1>1, <1>2, OwedLess

LEMMA CountOne ==
  ASSUME NEW counts \in [Files -> Nat], NEW files, NEW f \in Files
  PROVE  Count(counts, files)[f] = counts[f] + (IF f \in files THEN 1 ELSE 0)
BY DEF Count

\* A step that starts and ends no batch, and stores nothing.
LEMMA QuietAccount ==
  ASSUME TypeOK, TypeOK', AccountOK, ~crossed, UNCHANGED <<running, chosen, stored, unsure>>,
         \A u \in uploads' : u.status = "error" => u \in uploads
  PROVE  AccountOK'
<1>1. IsFiniteSet(running)
  BY DEF AccountOK
<1>2. ASSUME NEW f \in Files \ unsure' PROVE AccountKept(f)
  <2>1. Owed(f)' = Owed(f)
    BY DEF Owed
  <2>2. Retriable(f)' <= Retriable(f)
    BY NoNewFailure
  <2> QED BY <1>1, <2>1, <2>2, AccountTypes DEF AccountKept
<1> QED BY <1>1, <1>2, Balance

\* retryFailedUploads: what was listed as failed is on its way again.
LEMMA RetryAccount ==
  ASSUME TypeOK, TypeOK', AccountOK, ~crossed, RetryFailed
  PROVE  AccountOK'
<1>1. IsFiniteSet(running) /\ joined /\ UNCHANGED <<chosen, stored, unsure>>
  BY DEF AccountOK, RetryFailed, CanRetry, server
<1>2. \A f \in FilesOf(RetriedItems) : Retriable(f) = 1
  BY DEF FilesOf, RetriedItems, Retriable
<1>3. CASE Failed = {}
  BY <1>1, <1>3, QuietAccount DEF RetryFailed
<1>4. CASE UploadDroppedLocalPaths(FilesOf(RetriedItems), {page})
  <2>1. ASSUME NEW f \in Files
        PROVE  IsFiniteSet(running') /\ AccountKept(f)
    <3>1. /\ IsFiniteSet(running') /\ Cardinality(Owed(f)') \in Nat
          /\ Cardinality(Owed(f)') <=
               Cardinality(Owed(f)) + (IF f \in FilesOf(RetriedItems) THEN 1 ELSE 0)
          /\ Retriable(f)' = 0
      BY <1>1, <1>4, PathsAccount
    <3> QED BY <1>1, <1>2, <3>1, AccountTypes DEF AccountKept
  <2>2. IsFiniteSet(running')
    <3>1. CASE Files = {}
      <4>1. PICK c : running' = running \cup {c}
        BY ZenonT(60), <1>4 DEF UploadDroppedLocalPaths
      <4> QED BY <1>1, <4>1, FS_AddElement
    <3>2. CASE Files # {}
      BY <2>1, <3>2
    <3> QED BY <3>1, <3>2
  <2> QED BY <1>1, <2>1, <2>2, Balance
<1>5. CASE UploadFiles(FilesOf(RetriedItems), LocalOf(RetriedItems)) /\ Failed # {}
  <2>1. Files # {}
    BY <1>5 DEF Failed, TypeOK, Items
  <2>2. ASSUME NEW f \in Files
        PROVE  IsFiniteSet(running') /\ AccountKept(f)
    <3>1. /\ IsFiniteSet(running') /\ Cardinality(Owed(f)') \in Nat
          /\ \/ Cardinality(Owed(f)') = Cardinality(Owed(f)) /\ Retriable(f)' = Retriable(f)
             \/ /\ Cardinality(Owed(f)') <=
                     Cardinality(Owed(f)) + (IF f \in FilesOf(RetriedItems) THEN 1 ELSE 0)
                /\ Retriable(f)' = 0
      <4>1. (IF f \in FilesOf(RetriedItems) \ TooLarge THEN 1 ELSE 0)
              <= (IF f \in FilesOf(RetriedItems) THEN 1 ELSE 0)
        OBVIOUS
      <4>2. Cardinality(Owed(f)) \in Nat
        BY <1>1, OwedType
      <4> QED BY <1>1, <1>5, <4>1, <4>2, FilesAccount
    <3> QED BY <1>1, <1>2, <3>1, AccountTypes DEF AccountKept
  <2> QED BY <1>1, <2>1, <2>2, Balance
<1> QED BY <1>3, <1>4, <1>5 DEF RetryFailed

\* onFileChange: the files that go up are counted as given.
LEMMA ChooseAccount ==
  ASSUME TypeOK, TypeOK', AccountOK, ~crossed, NEW files \in SUBSET Files, ChooseFiles(files)
  PROVE  AccountOK'
<1>1. /\ IsFiniteSet(running) /\ files # {} /\ UploadFiles(files, {})
      /\ chosen' = Count(chosen, files \ TooLarge) /\ UNCHANGED <<stored, unsure>>
  BY DEF AccountOK, ChooseFiles
<1>2. ASSUME NEW f \in Files
      PROVE  IsFiniteSet(running') /\ AccountKept(f)
  <2>1. chosen'[f] = chosen[f] + (IF f \in files \ TooLarge THEN 1 ELSE 0)
    BY <1>1, CountOne DEF TypeOK
  <2>2. /\ IsFiniteSet(running') /\ Cardinality(Owed(f)') \in Nat
        /\ \/ /\ files \ TooLarge = {} /\ Cardinality(Owed(f)') = Cardinality(Owed(f))
              /\ Retriable(f)' = Retriable(f)
           \/ /\ Cardinality(Owed(f)') <=
                   Cardinality(Owed(f)) + (IF f \in files \ TooLarge THEN 1 ELSE 0)
              /\ Retriable(f)' = 0
    BY <1>1, FilesAccount
  <2> QED BY <1>1, <2>1, <2>2, AccountTypes DEF AccountKept
<1> QED BY <1>1, <1>2, Balance

\* onDragDropEvent: without an overlap, one component hears of the drop.
LEMMA DropAccount ==
  ASSUME TypeOK, TypeOK', AccountOK, ~crossed, ~crossed', NEW files \in SUBSET Files,
         DropPaths(files)
  PROVE  AccountOK'
<1>1. /\ IsFiniteSet(running) /\ files # {} /\ chosen' = Count(chosen, files)
      /\ UNCHANGED <<stored, unsure>>
  BY DEF AccountOK, DropPaths
<1>2. PICK called : called = {p \in listeners : [page |-> p, files |-> files] \notin lastDrop}
  OBVIOUS
<1>3. /\ called # {} /\ ~(Cardinality(called) > 1)
      /\ UploadDroppedLocalPaths(files, called)
  BY <1>2 DEF DropPaths
<1>4. PICK p : called = {p}
  <2>1. IsFiniteSet(1..MaxPages)
    BY FS_Interval
  <2>2. called \subseteq 1..MaxPages
    BY <1>2 DEF TypeOK
  <2>3. IsFiniteSet(called) /\ Cardinality(called) \in Nat
    BY <2>1, <2>2, FS_Subset, FS_CardinalityType
  <2>4. Cardinality(called) # 0
    BY <1>3, <2>3, FS_EmptySet
  <2>5. Cardinality(called) = 1
    BY <1>3, <2>3, <2>4
  <2> QED BY <2>3, <2>5, FS_Singleton
<1>5. ASSUME NEW f \in Files
      PROVE  IsFiniteSet(running') /\ AccountKept(f)
  <2>1. chosen'[f] = chosen[f] + (IF f \in files THEN 1 ELSE 0)
    BY <1>1, CountOne DEF TypeOK
  <2>2. /\ IsFiniteSet(running') /\ Cardinality(Owed(f)') \in Nat
        /\ Cardinality(Owed(f)') <= Cardinality(Owed(f)) + (IF f \in files THEN 1 ELSE 0)
        /\ Retriable(f)' <= Retriable(f)
    BY <1>1, <1>3, <1>4, PathsAccount
  <2> QED BY <1>1, <2>1, <2>2, AccountTypes DEF AccountKept
<1> QED BY <1>1, <1>5, Balance

\* The answer to a call, or none: a file is stored by the batch that owed it, is
\* listed as failed, or was stored by a call that is reported as failed.
LEMMA AnswerAccount ==
  ASSUME TypeOK, TypeOK', StoredInv, AccountOK, ~crossed, NEW b \in running, Answer(b)
  PROVE  AccountOK'
<1> USE BatchFacts
<1>1. /\ IsFiniteSet(running) /\ PagesOK /\ QueueOK
      /\ stored \in [Files -> Nat] /\ {"success", "error"} \subseteq Statuses
  BY DEF AccountOK, StoredInv, TypeOK, Statuses
<1>2. CASE FileStored(b)
  <2>1. /\ stored' = Count(stored, {b.now}) /\ UNCHANGED <<chosen, unsure>>
        /\ ~b.local /\ Proceed(b, "success") /\ b.now \in Files
    BY <1>2 DEF FileStored
  <2>2. ASSUME NEW f \in Files
        PROVE  IsFiniteSet(running') /\ AccountKept(f)
    <3>1. stored'[f] = stored[f] + (IF f = b.now THEN 1 ELSE 0)
      BY <1>1, <2>1, CountOne
    <3>2. /\ IsFiniteSet(running') /\ Cardinality(Owed(f)') \in Nat
          /\ Cardinality(Owed(f)') <= Cardinality(Owed(f))
          /\ f = b.now => Cardinality(Owed(f)') + 1 <= Cardinality(Owed(f))
          /\ Retriable(f)' <= Retriable(f)
      BY <1>1, <2>1, ProceedAccount
    <3> QED BY <1>1, <2>1, <3>1, <3>2, AccountTypes DEF AccountKept
  <2> QED BY <1>1, <2>1, <2>2, Balance
<1>3. CASE FileFails(b)
  <2>1. /\ ~b.local /\ Proceed(b, "error") /\ b.now \in Files /\ chosen' = chosen
        /\ \/ stored' = stored /\ unsure' = unsure
           \/ stored' = Count(stored, {b.now}) /\ unsure' = unsure \cup {b.now}
    BY <1>3 DEF FileFails
  <2>2. ASSUME NEW f \in Files
        PROVE  IsFiniteSet(running') /\ (f \notin unsure' => AccountKept(f))
    <3>1. f \notin unsure' => stored'[f] = stored[f]
      BY <1>1, <2>1, CountOne
    <3>2. /\ IsFiniteSet(running') /\ Cardinality(Owed(f)') \in Nat
          /\ Cardinality(Owed(f)') <= Cardinality(Owed(f))
          /\ f = b.now => Cardinality(Owed(f)') + 1 <= Cardinality(Owed(f))
          /\ f # b.now => Retriable(f)' <= Retriable(f)
      BY <1>1, <2>1, ProceedAccount
    <3> QED BY <1>1, <2>1, <3>1, <3>2, AccountTypes DEF AccountKept
  <2> QED BY <1>1, <2>1, <2>2, Balance
<1>4. CASE FileUnauthorized(b)
  <2>1. /\ uploads' = {} /\ UNCHANGED <<chosen, stored, unsure>>
        /\ \/ running' = running \ {b}
           \/ \E g \in b.files : running' = (running \ {b}) \cup {Sending(b, g, FALSE)}
    BY <1>4 DEF FileUnauthorized, Unmount, server
  <2>2. ASSUME NEW f
        PROVE  /\ IsFiniteSet(running') /\ Cardinality(Owed(f)') \in Nat
               /\ Cardinality(Owed(f)') <= Cardinality(Owed(f))
    <3>1. CASE running' = running \ {b}
      BY <1>1, <3>1, OverAccount
    <3>2. ASSUME NEW g \in b.files, running' = (running \ {b}) \cup {Sending(b, g, FALSE)}
          PROVE  /\ IsFiniteSet(running') /\ Cardinality(Owed(f)') \in Nat
                 /\ Cardinality(Owed(f)') <= Cardinality(Owed(f))
      <4>1. PICK c, C : c = Sending(b, g, FALSE) /\ C = {c}
        OBVIOUS
      <4>2. c.now = g /\ c.files = b.files \ {g}
        BY <4>1 DEF Sending, Batches
      <4>3. running' = (running \ {b}) \cup C /\ \A x \in C : Holds(x, f) => Holds(b, f)
        BY <3>2, <4>1, <4>2 DEF Holds
      <4> QED BY <1>1, <4>1, <4>3, OwedLess
    <3> QED BY <2>1, <3>1, <3>2
  <2>3. ASSUME NEW f \in Files PROVE AccountKept(f)
    <3>1. Retriable(f)' = 0
      BY <2>1 DEF Retriable, Failed
    <3> QED BY <1>1, <2>1, <2>2, <3>1, AccountTypes DEF AccountKept
  <2> QED BY <1>1, <2>1, <2>2, <2>3, Balance
<1>5. CASE PathsCopied(b)
  <2>1. /\ running' = running \ {b} /\ stored' = Count(stored, b.files)
        /\ UNCHANGED <<chosen, unsure>>
        /\ Show(b, {[u EXCEPT !.status = "success"] : u \in uploads})
    BY <1>5 DEF PathsCopied
  <2>2. \A u \in uploads' : u.status = "error" => u \in uploads
    <3>1. \A u \in uploads : [u EXCEPT !.status = "success"].status # "error"
      BY <1>1, StatusSet DEF TypeOK
    <3> QED BY <2>1, <3>1 DEF Show
  <2>3. ASSUME NEW f \in Files
        PROVE  IsFiniteSet(running') /\ AccountKept(f)
    <3>1. stored'[f] = stored[f] + (IF f \in b.files THEN 1 ELSE 0)
      BY <1>1, <2>1, CountOne
    <3>2. /\ IsFiniteSet(running') /\ Cardinality(Owed(f)') \in Nat
          /\ Cardinality(Owed(f)') <= Cardinality(Owed(f))
          /\ f \in b.files => Cardinality(Owed(f)') + 1 <= Cardinality(Owed(f))
      BY <1>1, <2>1, OverAccount DEF Holds
    <3>3. Retriable(f)' <= Retriable(f)
      BY <2>2, NoNewFailure
    <3> QED BY <1>1, <2>1, <3>1, <3>2, <3>3, AccountTypes DEF AccountKept
  <2>4. IsFiniteSet(running')
    BY <1>1, <2>1, OverAccount
  <2> QED BY <1>1, <2>1, <2>3, <2>4, Balance
<1>6. CASE PathsFail(b)
  <2>1. PICK done \in SUBSET b.files :
          stored' = Count(stored, done) /\ unsure' = unsure \cup done
    BY <1>6 DEF PathsFail
  <2>2. /\ b.local /\ running' = running \ {b} /\ chosen' = chosen
        /\ Show(b, {[u EXCEPT !.status = "error"] : u \in uploads})
    BY <1>6 DEF PathsFail
  <2>3. ASSUME NEW f \in Files, f \notin b.files
        PROVE  Retriable(f)' <= Retriable(f)
    <3>1. CASE Mine(b)
      <4>1. ASSUME NEW v \in uploads' PROVE v.file \in b.files
        <5>1. PICK u \in uploads : v = [u EXCEPT !.status = "error"]
          BY <2>2, <3>1, <4>1 DEF Show, Mine
        <5>2. v.file = u.file
          BY <1>1, <5>1, StatusSet DEF TypeOK
        <5> QED BY <1>1, <2>2, <3>1, <5>2 DEF QueueOK, ShownOK, FilesOf
      <4>2. Retriable(f)' = 0
        BY <2>3, <4>1 DEF Retriable, Failed
      <4> QED BY <4>2 DEF Retriable
    <3>2. CASE ~Mine(b)
      <4>1. uploads' = uploads
        BY <2>2, <3>2 DEF Show, Mine
      <4> QED BY <4>1, NoNewFailure
    <3> QED BY <3>1, <3>2
  <2>4. ASSUME NEW f \in Files, f \notin unsure'
        PROVE  AccountKept(f)
    <3>1. stored'[f] = stored[f]
      BY <1>1, <2>1, <2>4, CountOne
    <3>2. /\ Cardinality(Owed(f)') \in Nat
          /\ Cardinality(Owed(f)') <= Cardinality(Owed(f))
          /\ f \in b.files => Cardinality(Owed(f)') + 1 <= Cardinality(Owed(f))
      BY <1>1, <2>2, OverAccount DEF Holds
    <3> QED BY <1>1, <2>2, <2>3, <3>1, <3>2, AccountTypes DEF AccountKept
  <2>5. IsFiniteSet(running')
    BY <1>1, <2>2, OverAccount
  <2> QED BY <1>1, <2>1, <2>4, <2>5, Balance
<1>7. CASE PathsUnauthorized(b)
  <2>1. /\ running' = running \ {b} /\ uploads' = {} /\ UNCHANGED <<chosen, stored, unsure>>
    BY <1>7 DEF PathsUnauthorized, Unmount, server
  <2>2. ASSUME NEW f \in Files PROVE AccountKept(f)
    <3>1. Retriable(f)' = 0
      BY <2>1 DEF Retriable, Failed
    <3>2. Cardinality(Owed(f)') \in Nat /\ Cardinality(Owed(f)') <= Cardinality(Owed(f))
      BY <1>1, <2>1, OverAccount
    <3> QED BY <1>1, <2>1, <3>1, <3>2, AccountTypes DEF AccountKept
  <2>3. IsFiniteSet(running')
    BY <1>1, <2>1, OverAccount
  <2> QED BY <1>1, <2>1, <2>2, <2>3, Balance
<1> QED BY <1>2, <1>3, <1>4, <1>5, <1>6, <1>7 DEF Answer

LEMMA AccountStep ==
  ASSUME TypeOK, TypeOK', StoredInv, AccountOK, [Next]_vars
  PROVE  AccountOK'
<1>1. SUFFICES ASSUME ~crossed, ~crossed' PROVE AccountOK'
  <2>1. crossed => crossed'
    <3>1. ASSUME NEW b \in running, Answer(b) PROVE crossed' = crossed
      BY <3>1 DEF Answer, FileStored, FileFails, FileUnauthorized, PathsCopied, PathsFail,
                  PathsUnauthorized, server
    <3>2. ASSUME NEW files, ChooseFiles(files) \/ DropPaths(files) PROVE crossed => crossed'
      BY <3>2 DEF ChooseFiles, DropPaths
    <3>3. ASSUME NEW p, ListenerReady(p) PROVE crossed' = crossed
      BY <3>3 DEF ListenerReady, server
    <3>4. CASE Join \/ Leave \/ ForgetDrop \/ RetryFailed \/ AutoClear \/ ClearCompleted
               \/ NativeAutoClear \/ NativeReport \/ UNCHANGED vars
      BY <3>4 DEF Join, Leave, ForgetDrop, RetryFailed, AutoClear, ClearCompleted,
                  NativeAutoClear, NativeReport, vars, server
    <3> QED BY <3>1, <3>2, <3>3, <3>4 DEF Next
  <2> QED BY <2>1 DEF AccountOK
<1>2. CASE RetryFailed
  BY <1>1, <1>2, RetryAccount
<1>3. ASSUME NEW files \in SUBSET Files, ChooseFiles(files) PROVE AccountOK'
  BY <1>1, <1>3, ChooseAccount
<1>4. ASSUME NEW files \in SUBSET Files, DropPaths(files) PROVE AccountOK'
  BY <1>1, <1>4, DropAccount
<1>5. ASSUME NEW b \in running, Answer(b) PROVE AccountOK'
  BY <1>1, <1>5, AnswerAccount
<1>6. CASE Join \/ Leave \/ ForgetDrop \/ AutoClear \/ ClearCompleted \/ NativeAutoClear
           \/ NativeReport \/ UNCHANGED vars \/ \E p \in registering : ListenerReady(p)
  <2>1. UNCHANGED <<running, chosen, stored, unsure>> /\ uploads' \subseteq uploads
    BY <1>6 DEF Join, Leave, Unmount, ForgetDrop, AutoClear, ClearCompleted, NativeAutoClear,
                NativeReport, ListenerReady, vars, server
  <2> QED BY <1>1, <2>1, QuietAccount
<1> QED BY <1>2, <1>3, <1>4, <1>5, <1>6 DEF Next

\* A file is stored no more often than the user gave it, whatever fails, is retried, goes
\* on without its list or without a session: every store, running batch and listed
\* failure answers to one choice, and a retry turns failures into one batch
\* (uploadFiles, uploadDroppedLocalPaths and retryFailedUploads).
THEOREM NothingIsStoredTwice == Spec => []StoredOnce
<1>1. Init => AccountOK
  <2> SUFFICES ASSUME Init PROVE AccountOK
    OBVIOUS
  <2>1. \A f : Owed(f) = {} /\ Retriable(f) = 0
    BY DEF Init, Owed, Retriable, Failed
  <2>2. Cardinality({}) = 0 /\ IsFiniteSet({})
    BY FS_EmptySet
  <2>3. \A f \in Files : stored[f] = 0 /\ chosen[f] = 0
    BY DEF Init
  <2> QED BY <2>1, <2>2, <2>3 DEF Init, AccountOK
<1>2. TypeOK /\ TypeOK' /\ StoredInv /\ AccountOK /\ [Next]_vars => AccountOK'
  BY AccountStep
<1>3. TypeOK /\ AccountOK => StoredOnce
  <2> SUFFICES ASSUME TypeOK, AccountOK, ~crossed, NEW f \in Files \ unsure
               PROVE  stored[f] <= chosen[f]
    BY DEF StoredOnce
  <2>1. Cardinality(Owed(f)) \in Nat /\ Retriable(f) \in {0, 1}
    BY OwedType DEF AccountOK, Retriable
  <2> QED BY <2>1 DEF AccountOK, TypeOK
<1> QED BY <1>1, <1>2, <1>3, TypeCorrect, StoredInvariance, PTL DEF Spec
=============================================================================
