-------------------------- MODULE ShareQueue_proofs --------------------------
(***************************************************************************)
(* Proofs about ShareQueue for any item limit, any set of ids and any      *)
(* number of files, jobs and joins, where one activity runs at a time.     *)
(***************************************************************************)
EXTENDS ShareQueue, FiniteSetTheorems, TLAPS

USE QueueAssumption DEF QueueAssumption

\* Two activities have a store each, and the lock of one does not keep the
\* other out: a second executor may overwrite the list of the first.
OneActivity == \A a, b \in Activities : a = b

(***************************************************************************)
(* The inductive invariant                                                 *)
(***************************************************************************)
ItemStates == {"pending", "uploading", "failed"}

Lists == UNION {[S -> ItemStates] : S \in SUBSET Items}

Jobs ==
  [kind : {"idle", "verify", "stage", "batch"},
   pc : {"begin", "files", "copying", "copied", "persist", "delete", "send", "sent"},
   todo : SUBSET Items, left : Nat, item : Items \cup {NoItem}, list : Lists,
   mark : {"none", "uploading", "failed", "gone"}, token : Nat, flag : BOOLEAN]

NewJobs == {j \in Jobs : j.pc = "begin"}

Callbacks == [what : {"staged", "done", "connected"}, flag : BOOLEAN]

ActStates ==
  [life : {"unborn", "live", "destroyed"}, intent : Nat, origin : Nat,
   view : {"none", "loading", "joining", "loaded"}, awaiting : BOOLEAN, flow : BOOLEAN,
   staging : BOOLEAN, uploading : BOOLEAN,
   jobs : Seq(NewJobs), job : Jobs, posted : Seq(Callbacks)]

TypesOK ==
  /\ listed \in Lists
  /\ dirs \in [Items -> {"none", "partial", "whole"}]
  /\ {session, web, honoured, joins} \subseteq Nat
  /\ act \in [Activities -> ActStates]
  /\ staged \subseteq Items

\* The job that is about to save a list.
Saves(j) == j.kind = "stage" \/ (j.kind = "batch" /\ j.pc = "persist")

\* What the executor's job holds while nobody else may touch the store: the
\* list it saves has every staged item, the file it deletes is none of theirs,
\* and it removes an item only after the hub has published it.
JobOK(j) ==
  /\ Saves(j) => staged \ published \subseteq DOMAIN j.list
  /\ j.kind = "stage" /\ j.pc \in {"copying", "copied"} => j.item \in Items \ staged
  /\ j.kind = "stage" /\ j.pc = "copied" => dirs[j.item] = "whole"
  /\ j.kind = "batch" /\ j.pc = "sent" => j.item \in published
  /\ j.kind = "batch" /\ j.pc = "persist" =>
       j.mark # "none" /\ (j.mark = "gone" => j.item \in published)
  /\ j.kind = "batch" /\ j.pc = "delete" => j.item \notin staged
  /\ j.kind = "batch" /\ j.pc # "begin" => j.item \in Items

Occupied == {i \in Items : dirs[i] # "none"}

\* The room a share has been given and has not used yet.
Reserved(j) == IF j.kind = "stage" THEN j.left ELSE 0

StorageOK ==
  /\ IsFiniteSet(Occupied)
  /\ Cardinality(Occupied) <= MaxItems
  /\ \A a \in Activities : Cardinality(Occupied) + Reserved(act[a].job) <= MaxItems

QueueInv ==
  /\ TypesOK
  /\ StagedIsKept
  /\ \A a \in Activities : JobOK(act[a].job)
  /\ StorageOK

(***************************************************************************)
(* Types                                                                   *)
(***************************************************************************)
LEMMA EmptyList == <<>> \in Lists /\ DOMAIN <<>> = {}
<1>1. <<>> = [x \in {} |-> x]
  OBVIOUS
<1>2. <<>> \in [{} -> ItemStates]
  BY <1>1
<1> QED BY <1>2 DEF Lists

LEMMA ListType ==
  ASSUME NEW l \in Lists
  PROVE  DOMAIN l \subseteq Items /\ \A i \in DOMAIN l : l[i] \in ItemStates
BY DEF Lists

LEMMA ListMade ==
  ASSUME NEW S \in SUBSET Items, NEW l \in [S -> ItemStates]
  PROVE  l \in Lists
BY DEF Lists

LEMMA JobType ==
  ASSUME NEW kind \in {"idle", "verify", "stage", "batch"}, NEW todo \in SUBSET Items,
         NEW left \in Nat, NEW token \in Nat
  PROVE  /\ Job(kind, todo, left, token) \in NewJobs
         /\ Job(kind, todo, left, token) \in Jobs
BY EmptyList DEF Job, Jobs, NewJobs

LEMMA UnbornType == Unborn \in ActStates /\ Idle \in Jobs /\ Unborn.job = Idle
<1>1. Idle \in Jobs
  BY JobType DEF Idle
<1> QED BY <1>1 DEF Unborn, ActStates

LEMMA RecoveredType ==
  ASSUME TypesOK
  PROVE  /\ Recovered \in Lists /\ DOMAIN Recovered \subseteq Items
         /\ DOMAIN Recovered = {x \in DOMAIN listed : dirs[x] = "whole"}
<1>1. PICK S : S = {x \in DOMAIN listed : dirs[x] = "whole"}
  OBVIOUS
<1>2. listed \in Lists /\ S \in SUBSET Items
  BY <1>1, ListType DEF TypesOK
<1>3. \A i \in S : (IF listed[i] = "uploading" THEN "pending" ELSE listed[i]) \in ItemStates
  <2>1. \A i \in S : listed[i] \in ItemStates
    BY <1>1, <1>2, ListType
  <2> QED BY <2>1 DEF ItemStates
<1>4. Recovered \in [S -> ItemStates]
  BY <1>1, <1>3 DEF Recovered
<1> QED BY <1>1, <1>2, <1>4, ListMade

(***************************************************************************)
(* What the main thread makes of an activity                               *)
(***************************************************************************)
\* r2 is r with the main thread's changes: the job under way stays.
MadeOf(r2, r) == r2 \in ActStates /\ r2.job = r.job

LEMMA OpenHostType ==
  ASSUME NEW r \in ActStates, NEW wait \in BOOLEAN
  PROVE  MadeOf(OpenHost(r, wait), r)
BY DEF OpenHost, MadeOf, ActStates

LEMMA EnqueueType ==
  ASSUME NEW r \in ActStates, NEW j \in NewJobs
  PROVE  MadeOf(Enqueue(r, j), r)
<1>1. PICK js : js = Append(r.jobs, j)
  OBVIOUS
<1>2. js \in Seq(NewJobs)
  BY <1>1 DEF ActStates
<1>3. Enqueue(r, j) = [r EXCEPT !.jobs = js]
  BY <1>1 DEF Enqueue
<1> QED BY <1>2, <1>3 DEF MadeOf, ActStates

LEMMA AwaitType ==
  ASSUME NEW r \in ActStates
  PROVE  MadeOf(AwaitRegistration(r), r)
<1>1. MadeOf(OpenHost(r, TRUE), r)
  BY OpenHostType
<1>2. MadeOf([r EXCEPT !.awaiting = TRUE], r)
  BY DEF MadeOf, ActStates
<1> QED BY <1>1, <1>2 DEF AwaitRegistration

LEMMA UploadType ==
  ASSUME TypesOK, NEW r \in ActStates, NEW token \in Nat
  PROVE  MadeOf(UploadPendingItems(r, token), r)
<1>1. MadeOf(r, r) /\ MadeOf(AwaitRegistration(r), r)
  BY AwaitType DEF MadeOf
<1>2. MadeOf([r EXCEPT !.flow = FALSE], r)
  BY DEF MadeOf, ActStates
<1>3. PICK r2 : r2 = [r EXCEPT !.uploading = TRUE]
  OBVIOUS
<1>4. r2 \in ActStates /\ r2.job = r.job
  BY <1>3 DEF ActStates
<1>5. Job("batch", DOMAIN Recovered, 0, token) \in NewJobs
  BY RecoveredType, JobType
<1>6. MadeOf(Enqueue(r2, Job("batch", DOMAIN Recovered, 0, token)), r)
  BY <1>4, <1>5, EnqueueType DEF MadeOf
<1> QED BY <1>1, <1>2, <1>3, <1>6 DEF UploadPendingItems

LEMMA EnsureType ==
  ASSUME TypesOK, NEW r \in ActStates, NEW token \in Nat
  PROVE  MadeOf(EnsureRegisteredDevice(r, token), r)
<1>1. MadeOf(AwaitRegistration(r), r) /\ MadeOf(UploadPendingItems(r, token), r)
  BY AwaitType, UploadType
<1>2. PICK r2 : r2 = OpenHost(r, FALSE)
  OBVIOUS
<1>3. r2 \in ActStates /\ r2.job = r.job
  BY <1>2, OpenHostType DEF MadeOf
<1>4. MadeOf(UploadPendingItems(r2, token), r)
  BY <1>3, UploadType DEF MadeOf
<1> QED BY <1>1, <1>2, <1>4 DEF EnsureRegisteredDevice

LEMMA OpenAndUploadType ==
  ASSUME TypesOK, NEW r \in ActStates
  PROVE  MadeOf(OpenAndUpload(r), r)
<1>1. MadeOf(OpenHost(r, TRUE), r)
  BY OpenHostType
<1>2. PICK r2 : r2 = OpenHost(r, FALSE)
  OBVIOUS
<1>3. r2 \in ActStates /\ r2.job = r.job /\ session \in Nat
  BY <1>2, OpenHostType DEF MadeOf, TypesOK
<1>4. MadeOf(UploadPendingItems(r2, session), r)
  BY <1>3, UploadType DEF MadeOf
<1> QED BY <1>1, <1>2, <1>4 DEF OpenAndUpload

LEMMA ShareType ==
  ASSUME TypesOK, NEW r \in ActStates, NEW n \in Nat
  PROVE  MadeOf(HandleShareIntent(r, n), r)
<1>1. PICK shown : shown = [r EXCEPT !.intent = n, !.flow = TRUE, !.staging = TRUE,
                                     !.awaiting = FALSE]
  OBVIOUS
<1>2. shown \in ActStates /\ shown.job = r.job
  BY <1>1 DEF ActStates
<1>3. PICK noSession \in BOOLEAN : noSession = (session = 0)
  OBVIOUS
<1>4. PICK open : open = IF r.view = "none" THEN OpenHost(shown, noSession)
                         ELSE [shown EXCEPT !.awaiting = noSession]
  OBVIOUS
<1>5. MadeOf(OpenHost(shown, noSession), shown)
  BY <1>2, <1>3, OpenHostType
<1>6. MadeOf([shown EXCEPT !.awaiting = noSession], shown)
  BY <1>2, <1>3 DEF MadeOf, ActStates
<1>7. open \in ActStates /\ open.job = r.job
  BY <1>2, <1>4, <1>5, <1>6 DEF MadeOf
<1>8. Job("stage", {}, n, 0) \in NewJobs
  BY JobType
<1>9. MadeOf(Enqueue(open, Job("stage", {}, n, 0)), r)
  BY <1>7, <1>8, EnqueueType DEF MadeOf
<1>10. HandleShareIntent(r, n) = Enqueue(open, Job("stage", {}, n, 0))
  BY <1>1, <1>3, <1>4 DEF HandleShareIntent
<1> QED BY <1>9, <1>10

LEMMA CreatedType ==
  ASSUME TypesOK, NEW n \in Nat
  PROVE  Created(n) \in ActStates /\ Created(n).job = Idle
<1>1. PICK r : r = [Unborn EXCEPT !.life = "live", !.origin = n]
  OBVIOUS
<1>2. r \in ActStates /\ r.job = Idle
  BY <1>1, UnbornType DEF ActStates
<1>3. PICK r2 : r2 = [r EXCEPT !.flow = TRUE]
  OBVIOUS
<1>4. r2 \in ActStates /\ r2.job = Idle
  BY <1>2, <1>3 DEF ActStates
<1>5. MadeOf(HandleShareIntent(r, n), r) /\ MadeOf(OpenAndUpload(r2), r2)
  BY <1>2, <1>4, ShareType, OpenAndUploadType
<1>6. Job("verify", {}, 0, 0) \in NewJobs
  BY JobType
<1>7. MadeOf(Enqueue(r, Job("verify", {}, 0, 0)), r)
  BY <1>2, <1>6, EnqueueType
<1> QED BY <1>1, <1>2, <1>3, <1>4, <1>5, <1>7 DEF Created, MadeOf

(***************************************************************************)
(* The store                                                               *)
(***************************************************************************)
\* Loading the list keeps every staged item and its file, and leaves nothing
\* else in the storage.
LEMMA LoadStep ==
  ASSUME TypesOK, StagedIsKept, StorageOK, LoadItems, UNCHANGED <<staged, published>>
  PROVE  /\ listed' \in Lists /\ dirs' \in [Items -> {"none", "partial", "whole"}]
         /\ StagedIsKept'
         /\ Occupied' \subseteq DOMAIN Recovered /\ DOMAIN Recovered \subseteq Occupied
         /\ IsFiniteSet(Occupied') /\ IsFiniteSet(DOMAIN Recovered)
         /\ Cardinality(Occupied') <= Cardinality(DOMAIN Recovered)
         /\ Cardinality(DOMAIN Recovered) <= Cardinality(Occupied)
<1>1. /\ listed' = Recovered /\ Recovered \in Lists /\ DOMAIN Recovered \subseteq Items
      /\ DOMAIN Recovered = {x \in DOMAIN listed : dirs[x] = "whole"}
  BY RecoveredType DEF LoadItems
<1>2. dirs' = [i \in Items |-> IF i \in DOMAIN Recovered THEN dirs[i] ELSE "none"]
  BY DEF LoadItems, Keeping
<1>3. dirs' \in [Items -> {"none", "partial", "whole"}]
  BY <1>2 DEF TypesOK
<1>4. ASSUME NEW i \in staged, i \notin published
      PROVE  i \in DOMAIN listed' /\ dirs'[i] = "whole"
  <2>1. i \in DOMAIN listed /\ dirs[i] = "whole" /\ i \in Items
    BY <1>4 DEF StagedIsKept, TypesOK
  <2> QED BY <1>1, <1>2, <2>1
<1>5. StagedIsKept'
  BY <1>4 DEF StagedIsKept
<1>6. Occupied' \subseteq DOMAIN Recovered /\ DOMAIN Recovered \subseteq Occupied
  BY <1>1, <1>2 DEF Occupied
<1>7. IsFiniteSet(DOMAIN Recovered) /\ Cardinality(DOMAIN Recovered) <= Cardinality(Occupied)
  BY <1>6, FS_Subset DEF StorageOK
<1>8. IsFiniteSet(Occupied') /\ Cardinality(Occupied') <= Cardinality(DOMAIN Recovered)
  BY <1>6, <1>7, FS_Subset
<1> QED BY <1>1, <1>3, <1>5, <1>6, <1>7, <1>8

\* A step of the only activity, after which its job is j.
LEMMA ActivityStep ==
  ASSUME QueueInv, OneActivity, NEW a \in Activities, NEW j,
         TypesOK', StagedIsKept', act'[a].job = j, JobOK(j)',
         IsFiniteSet(Occupied'), Cardinality(Occupied') <= MaxItems,
         Cardinality(Occupied') + Reserved(j) <= MaxItems
  PROVE  QueueInv'
<1>1. \A b \in Activities : b = a
  BY DEF OneActivity
<1>2. \A b \in Activities : JobOK(act[b].job)'
  BY <1>1 DEF JobOK, Saves
<1>3. StorageOK'
  BY <1>1 DEF StorageOK, Reserved
<1> QED BY <1>2, <1>3 DEF QueueInv

\* The main thread touches the list only while the executor has not locked
\* the store, and leaves the job under way to the executor or, where the
\* process ends, drops it.
LEMMA MainStep ==
  ASSUME QueueInv, OneActivity, NEW a \in Activities,
         act' \in [Activities -> ActStates], act'[a].job \in {act[a].job, Idle},
         UNCHANGED <<listed, dirs>> \/ (~Locked(a) /\ LoadItems),
         UNCHANGED <<staged, published>>, {session, web, honoured, joins}' \subseteq Nat
  PROVE  QueueInv'
<1>1. /\ TypesOK /\ StagedIsKept /\ StorageOK /\ JobOK(act[a].job)
      /\ act[a] \in ActStates /\ act[a].job \in Jobs
  BY DEF QueueInv, TypesOK, ActStates
<1>2. PICK j : j = act'[a].job
  OBVIOUS
<1>3. PICK old : old = act[a].job
  OBVIOUS
<1>4. j \in Jobs /\ old \in Jobs /\ (j = old \/ j = Idle)
  BY <1>1, <1>2, <1>3, UnbornType
<1>5. Idle.kind = "idle"
  BY DEF Idle, Job
<1>6. Cardinality(Occupied) + Reserved(old) <= MaxItems /\ IsFiniteSet(Occupied)
      /\ Cardinality(Occupied) <= MaxItems /\ Cardinality(Occupied) \in Nat
  BY <1>1, <1>3, FS_CardinalityType DEF StorageOK
<1>7. Reserved(j) \in Nat /\ Reserved(old) \in Nat /\ Reserved(j) <= Reserved(old)
  BY <1>4, <1>5 DEF Reserved, Jobs
<1>8. /\ listed' \in Lists /\ dirs' \in [Items -> {"none", "partial", "whole"}]
      /\ StagedIsKept' /\ IsFiniteSet(Occupied')
      /\ Cardinality(Occupied') <= Cardinality(Occupied)
  <2>1. CASE UNCHANGED <<listed, dirs>>
    <3>1. Occupied' = Occupied
      BY <2>1 DEF Occupied
    <3> QED BY <1>1, <1>6, <2>1, <3>1 DEF TypesOK, StagedIsKept
  <2>2. CASE LoadItems
    <3>1. IsFiniteSet(DOMAIN Recovered) /\ IsFiniteSet(Occupied')
      BY <1>1, <2>2, LoadStep
    <3>2. Cardinality(DOMAIN Recovered) \in Nat /\ Cardinality(Occupied') \in Nat
      BY <3>1, FS_CardinalityType
    <3> QED BY <1>1, <1>6, <2>2, <3>1, <3>2, LoadStep
  <2> QED BY <2>1, <2>2
<1>9. TypesOK'
  BY <1>1, <1>8 DEF TypesOK
<1>10. JobOK(j)'
  <2>1. CASE j = Idle
    BY <1>5, <2>1 DEF JobOK, Saves
  <2>2. CASE j = old /\ UNCHANGED <<listed, dirs>>
    BY <1>1, <1>3, <2>2 DEF JobOK, Saves
  <2>3. CASE j = old /\ ~Locked(a)
    BY <1>1, <1>3, <2>3 DEF JobOK, Saves, Locked
  <2> QED BY <1>4, <2>1, <2>2, <2>3
<1>11. /\ Cardinality(Occupied') <= MaxItems
       /\ Cardinality(Occupied') + Reserved(j) <= MaxItems
  <2>1. Cardinality(Occupied') \in Nat
    BY <1>8, FS_CardinalityType
  <2> QED BY <1>6, <1>7, <1>8, <2>1
<1> QED BY <1>2, <1>8, <1>9, <1>10, <1>11, ActivityStep

(***************************************************************************)
(* The steps of the user, the system and the main thread                   *)
(***************************************************************************)
\* What a step of the main thread makes of the activities.
MainMoves(a) ==
  act' \in [Activities -> ActStates] /\ act'[a].job \in {act[a].job, Idle}

LEMMA Replaced ==
  ASSUME TypesOK, NEW a \in Activities, NEW r \in ActStates,
         r.job \in {act[a].job, Idle}, act' = [act EXCEPT ![a] = r]
  PROVE  MainMoves(a)
BY DEF TypesOK, MainMoves

LEMMA ProcessEnds ==
  ASSUME TypesOK, NEW a \in Activities, act' = Gone
  PROVE  MainMoves(a) /\ act'[a].job = Idle
<1>1. ASSUME NEW b \in Activities
      PROVE  GoneActivity(b) \in ActStates /\ GoneActivity(b).job = Idle
  <2>1. act[b] \in ActStates
    BY DEF TypesOK
  <2>2. act[b].origin \in Nat
    BY <2>1 DEF ActStates
  <2> QED BY <2>2, UnbornType DEF GoneActivity, ActStates
<1> QED BY <1>1 DEF Gone, MainMoves

\* A process that is killed keeps the files of the items it could recover.
LEMMA KilledStep ==
  ASSUME QueueInv, OneActivity, Die, NEW a \in Activities
  PROVE  QueueInv'
<1>1. TypesOK /\ StagedIsKept /\ StorageOK
  BY DEF QueueInv
<1>2. MainMoves(a) /\ act'[a].job = Idle
  BY <1>1, ProcessEnds DEF Die
<1>3. PICK kept \in SUBSET Items : DOMAIN Recovered \subseteq kept /\ dirs' = Keeping(kept)
  BY DEF Die
<1>4. dirs' \in [Items -> {"none", "partial", "whole"}] /\ Occupied' \subseteq Occupied
  BY <1>1, <1>3 DEF TypesOK, Keeping, Occupied
<1>5. ASSUME NEW i \in staged, i \notin published
      PROVE  i \in DOMAIN listed' /\ dirs'[i] = "whole"
  <2>1. i \in DOMAIN listed /\ dirs[i] = "whole" /\ i \in Items
    BY <1>1, <1>5 DEF StagedIsKept, TypesOK
  <2>2. i \in kept
    BY <1>1, <1>3, <2>1, RecoveredType
  <2> QED BY <1>3, <2>1, <2>2 DEF Die, Keeping
<1>6. StagedIsKept'
  BY <1>5 DEF StagedIsKept, Die
<1>7. TypesOK'
  BY <1>1, <1>2, <1>4 DEF TypesOK, MainMoves, Die, den
<1>8. Idle.kind = "idle"
  BY DEF Idle, Job
<1>9. JobOK(Idle)' /\ Reserved(Idle) = 0
  BY <1>8 DEF JobOK, Saves, Reserved
<1>10. IsFiniteSet(Occupied') /\ Cardinality(Occupied') <= Cardinality(Occupied)
  BY <1>1, <1>4, FS_Subset DEF StorageOK
<1>11. Cardinality(Occupied) \in Nat /\ Cardinality(Occupied') \in Nat
       /\ Cardinality(Occupied) <= MaxItems
  BY <1>1, <1>10, FS_CardinalityType DEF StorageOK
<1>12. Cardinality(Occupied') <= MaxItems /\ Cardinality(Occupied') + Reserved(Idle) <= MaxItems
  BY <1>9, <1>10, <1>11
<1> QED BY <1>2, <1>6, <1>7, <1>9, <1>10, <1>12, ActivityStep

LEMMA Returned ==
  ASSUME TypesOK, NEW a \in Activities, NEW r \in ActStates, r.job = act[a].job,
         Return(a, r)
  PROVE  MainMoves(a)
BY Replaced, ProcessEnds DEF Return

LEMMA LoadIfStep ==
  ASSUME NEW a \in Activities, NEW c, LoadIf(a, c)
  PROVE  UNCHANGED <<listed, dirs>> \/ (~Locked(a) /\ LoadItems)
BY DEF LoadIf

LEMMA ActType ==
  ASSUME TypesOK, NEW a \in Activities
  PROVE  /\ act \in [Activities -> ActStates]
         /\ act[a] \in ActStates /\ act[a].job \in Jobs /\ act[a].jobs \in Seq(NewJobs)
         /\ act[a].posted \in Seq(Callbacks) /\ act[a].intent \in Nat /\ act[a].origin \in Nat
         /\ act[a].flow \in BOOLEAN /\ act[a].awaiting \in BOOLEAN
         /\ session \in Nat /\ web \in Nat /\ honoured \in Nat /\ joins \in Nat
BY DEF TypesOK, ActStates

LEMMA DestroyedType ==
  ASSUME TypesOK, NEW a \in Activities
  PROVE  MadeOf(Destroyed(a), act[a])
<1>1. <<>> \in Seq(NewJobs)
  OBVIOUS
<1> QED BY <1>1, ActType DEF Destroyed, MadeOf, ActStates

LEMMA UserSteps ==
  ASSUME QueueInv, OneActivity, NEW a \in Activities,
         UseApp(a) \/ (\E n \in Shares : Share(a, n))
  PROVE  QueueInv'
<1>1. TypesOK
  BY DEF QueueInv
<1>2. /\ act \in [Activities -> ActStates] /\ act[a] \in ActStates
      /\ session \in Nat /\ web \in Nat /\ honoured \in Nat /\ joins \in Nat
  BY <1>1, ActType
<1>3. ASSUME UNCHANGED <<session, den>>
      PROVE  {session, web, honoured, joins}' \subseteq Nat
  BY <1>2, <1>3 DEF den
<1>4. ASSUME Launch(a)
      PROVE  QueueInv'
  <2>1. PICK r : r = Created(0)
    OBVIOUS
  <2>2. r \in ActStates /\ r.job = Idle
    BY <1>1, <2>1, CreatedType
  <2>3. act' = [act EXCEPT ![a] = r] /\ act[a].job = Idle /\ LoadItems
        /\ UNCHANGED <<session, den, staged, published>>
    BY <1>4, <2>1 DEF Launch, IsFree
  <2>4. ~Locked(a)
    BY <2>3 DEF Locked, Idle, Job
  <2>5. MainMoves(a)
    BY <1>1, <2>2, <2>3, Replaced
  <2> QED BY <1>3, <2>3, <2>4, <2>5, MainStep DEF MainMoves
<1>5. ASSUME NEW n \in Shares, Share(a, n)
      PROVE  QueueInv'
  <2>1. n \in Nat
    BY <1>5 DEF Shares
  <2>2. PICK r, s : r = Created(n) /\ s = HandleShareIntent(act[a], n)
    OBVIOUS
  <2>3. r \in ActStates /\ r.job = Idle /\ s \in ActStates /\ s.job = act[a].job
    BY <1>1, <1>2, <2>1, <2>2, CreatedType, ShareType DEF MadeOf
  <2>4. act' = [act EXCEPT ![a] = r] \/ act' = [act EXCEPT ![a] = s]
    BY <1>2, <1>5, <2>2 DEF Share
  <2>5. MainMoves(a)
    BY <1>1, <2>3, <2>4, Replaced
  <2>6. UNCHANGED <<listed, dirs, session, den, staged, published>>
    BY <1>5 DEF Share
  <2> QED BY <1>3, <2>5, <2>6, MainStep DEF MainMoves
<1>6. ASSUME Relaunch(a)
      PROVE  QueueInv'
  <2>1. PICK b \in Activities, n \in {act[a].intent, act[a].origin} :
          act' = [act EXCEPT ![a].intent = 0, ![a].origin = 0,
                             ![a] = [Created(n) EXCEPT !.origin = act[a].origin]]
    <3>1. \A b \in Activities : b = a
      BY DEF OneActivity
    <3> QED BY <1>6, <3>1 DEF Relaunch
  <2>2. n \in Nat /\ act[a].origin \in Nat
    BY <1>1, <2>1, ActType
  <2>3. PICK r : r = [Created(n) EXCEPT !.origin = act[a].origin]
    OBVIOUS
  <2>4. r \in ActStates /\ r.job = Idle
    BY <1>1, <2>2, <2>3, CreatedType DEF ActStates
  <2>5. act' = [act EXCEPT ![a] = r]
    BY <1>2, <2>1, <2>3
  <2>6. MainMoves(a)
    BY <1>1, <2>4, <2>5, Replaced
  <2>7. UNCHANGED <<listed, dirs, session, den, staged, published>>
    BY <1>6 DEF Relaunch
  <2> QED BY <1>3, <2>6, <2>7, MainStep DEF MainMoves
<1>7. ASSUME Destroy(a) \/ Finish(a)
      PROVE  QueueInv'
  <2>1. PICK r, s : r = Destroyed(a) /\ s = [Destroyed(a) EXCEPT !.intent = 0, !.origin = 0]
    OBVIOUS
  <2>2. r \in ActStates /\ r.job = act[a].job
    BY <1>1, <2>1, DestroyedType DEF MadeOf
  <2>3. s \in ActStates /\ s.job = act[a].job
    BY <2>1, <2>2 DEF ActStates
  <2>4. act' = [act EXCEPT ![a] = r] \/ act' = [act EXCEPT ![a] = s]
    BY <1>7, <2>1 DEF Destroy, Finish
  <2>5. MainMoves(a)
    BY <1>1, <2>2, <2>3, <2>4, Replaced
  <2>6. UNCHANGED <<listed, dirs, session, den, staged, published>>
    BY <1>7 DEF Destroy, Finish
  <2> QED BY <1>3, <2>5, <2>6, MainStep DEF MainMoves
<1>8. ASSUME Retry(a)
      PROVE  QueueInv'
  <2>1. PICK r : r = IF session # 0 THEN UploadPendingItems(act[a], session)
                     ELSE OpenHost(act[a], TRUE)
    OBVIOUS
  <2>2. r \in ActStates /\ r.job = act[a].job
    BY <1>1, <1>2, <2>1, UploadType, OpenHostType DEF MadeOf
  <2>3. Return(a, r) /\ UNCHANGED <<session, den, staged, published>>
    BY <1>8, <2>1 DEF Retry
  <2>4. MainMoves(a)
    BY <1>1, <2>2, <2>3, Returned
  <2>5. UNCHANGED <<listed, dirs>> \/ (~Locked(a) /\ LoadItems)
    BY <1>8, LoadIfStep DEF Retry
  <2> QED BY <1>3, <2>3, <2>4, <2>5, MainStep DEF MainMoves
<1>9. ASSUME ChangeHost(a) \/ Back(a)
      PROVE  QueueInv'
  <2>1. PICK r : r = [act[a] EXCEPT !.view = "none", !.awaiting = FALSE]
    OBVIOUS
  <2>2. r \in ActStates /\ r.job = act[a].job
    BY <1>2, <2>1 DEF ActStates
  <2>3. act' = [act EXCEPT ![a] = r] /\ UNCHANGED <<session, den, staged, published>>
    BY <1>2, <1>9, <2>1 DEF ChangeHost, Back
  <2>4. MainMoves(a)
    BY <1>1, <2>2, <2>3, Replaced
  <2>5. UNCHANGED <<listed, dirs>> \/ (~Locked(a) /\ LoadItems)
    BY <1>9, LoadIfStep DEF ChangeHost, Back
  <2> QED BY <1>3, <2>3, <2>4, <2>5, MainStep DEF MainMoves
<1>10. ASSUME Connect(a)
       PROVE  QueueInv'
  <2>1. PICK r : r = Enqueue(act[a], Job("verify", {}, 0, 0))
    OBVIOUS
  <2>2. Job("verify", {}, 0, 0) \in NewJobs
    BY JobType
  <2>3. r \in ActStates /\ r.job = act[a].job
    BY <1>2, <2>1, <2>2, EnqueueType DEF MadeOf
  <2>4. act' = [act EXCEPT ![a] = r] /\ UNCHANGED <<listed, dirs, session, den, staged, published>>
    BY <1>2, <1>10, <2>1 DEF Connect
  <2>5. MainMoves(a)
    BY <1>1, <2>3, <2>4, Replaced
  <2> QED BY <1>3, <2>4, <2>5, MainStep DEF MainMoves
<1> QED BY <1>4, <1>5, <1>6, <1>7, <1>8, <1>9, <1>10 DEF UseApp

LEMMA TakenType ==
  ASSUME TypesOK, NEW a \in Activities, act[a].posted # <<>>
  PROVE  Taken(a) \in ActStates /\ Taken(a).job = act[a].job
<1>1. Tail(act[a].posted) \in Seq(Callbacks)
  BY ActType
<1> QED BY <1>1, ActType DEF Taken, ActStates

LEMMA MainThreadSteps ==
  ASSUME QueueInv, OneActivity, NEW a \in Activities,
         RunPage(a) \/ CaptureWebIdentity(a) \/ RunCallback(a)
  PROVE  QueueInv'
<1>1. TypesOK
  BY DEF QueueInv
<1>2. /\ act \in [Activities -> ActStates] /\ act[a] \in ActStates
      /\ session \in Nat /\ web \in Nat /\ honoured \in Nat /\ joins \in Nat
  BY <1>1, ActType
<1>3. ASSUME UNCHANGED den, session' \in {session, web, 0}
      PROVE  {session, web, honoured, joins}' \subseteq Nat
  BY <1>2, <1>3 DEF den
<1>4. ASSUME PageFinished(a)
      PROVE  QueueInv'
  <2>1. PICK r : r = [act[a] EXCEPT !.view = "loaded",
                                    !.awaiting = @ \/ act[a].view = "joining"]
    OBVIOUS
  <2>2. r \in ActStates /\ r.job = act[a].job
    BY <1>2, <2>1 DEF ActStates
  <2>3. act' = [act EXCEPT ![a] = r] /\ UNCHANGED <<listed, dirs, den, staged, published>>
        /\ session' \in {session, web, 0}
    BY <1>2, <1>4, <2>1 DEF PageFinished
  <2>4. MainMoves(a)
    BY <1>1, <2>2, <2>3, Replaced
  <2> QED BY <1>3, <2>3, <2>4, MainStep DEF MainMoves
<1>5. ASSUME PageFails(a)
      PROVE  QueueInv'
  <2>1. PICK r : r = [act[a] EXCEPT !.view = "none", !.awaiting = FALSE]
    OBVIOUS
  <2>2. r \in ActStates /\ r.job = act[a].job
    BY <1>2, <2>1 DEF ActStates
  <2>3. act' = [act EXCEPT ![a] = r] /\ UNCHANGED <<session, den, staged, published>>
    BY <1>2, <1>5, <2>1 DEF PageFails
  <2>4. MainMoves(a)
    BY <1>1, <2>2, <2>3, Replaced
  <2>5. UNCHANGED <<listed, dirs>> \/ (~Locked(a) /\ LoadItems)
    BY <1>5, LoadIfStep DEF PageFails
  <2> QED BY <1>3, <2>3, <2>4, <2>5, MainStep DEF MainMoves
<1>6. ASSUME CaptureWebIdentity(a)
      PROVE  QueueInv'
  <2>1. PICK waits : waits = [act[a] EXCEPT !.awaiting = FALSE]
    OBVIOUS
  <2>2. waits \in ActStates /\ waits.job = act[a].job
    BY <1>2, <2>1 DEF ActStates
  <2>3. PICK r : r = UploadPendingItems(waits, web)
    OBVIOUS
  <2>4. r \in ActStates /\ r.job = act[a].job
    BY <1>1, <1>2, <2>2, <2>3, UploadType DEF MadeOf
  <2>5. MainMoves(a)
    <3>1. CASE UNCHANGED act
      BY <1>2, <3>1 DEF MainMoves
    <3>2. CASE Return(a, r)
      BY <1>1, <2>4, <3>2, Returned
    <3> QED BY <1>6, <2>1, <2>3, <3>1, <3>2 DEF CaptureWebIdentity
  <2>6. UNCHANGED <<listed, dirs>> \/ (~Locked(a) /\ LoadItems)
    BY <1>6, LoadIfStep DEF CaptureWebIdentity
  <2>7. session' = web /\ UNCHANGED <<den, staged, published>>
    BY <1>6 DEF CaptureWebIdentity
  <2> QED BY <1>3, <2>5, <2>6, <2>7, MainStep DEF MainMoves
<1>7. ASSUME OnStaged(a)
      PROVE  QueueInv'
  <2>1. PICK r : r = [Taken(a) EXCEPT !.staging = FALSE]
    OBVIOUS
  <2>2. r \in ActStates /\ r.job = act[a].job
    BY <1>1, <1>7, <2>1, TakenType DEF OnStaged, Posted, ActStates
  <2>3. PICK s : s = IF ~Flag(a) /\ Recovered = <<>> THEN [r EXCEPT !.flow = FALSE]
                     ELSE EnsureRegisteredDevice(r, session)
    OBVIOUS
  <2>4. [r EXCEPT !.flow = FALSE] \in ActStates /\ [r EXCEPT !.flow = FALSE].job = r.job
    BY <2>2 DEF ActStates
  <2>5. s \in ActStates /\ s.job = act[a].job
    BY <1>1, <1>2, <2>2, <2>3, <2>4, EnsureType DEF MadeOf
  <2>6. Return(a, s) /\ UNCHANGED <<session, den, staged, published>>
    BY <1>7, <2>1, <2>3 DEF OnStaged
  <2>7. MainMoves(a)
    BY <1>1, <2>5, <2>6, Returned
  <2>8. UNCHANGED <<listed, dirs>> \/ (~Locked(a) /\ LoadItems)
    BY <1>7, LoadIfStep DEF OnStaged
  <2> QED BY <1>3, <2>6, <2>7, <2>8, MainStep DEF MainMoves
<1>8. ASSUME OnBatchDone(a)
      PROVE  QueueInv'
  <2>1. PICK flow \in BOOLEAN : flow = (Recovered # <<>>)
    OBVIOUS
  <2>2. PICK r : r = [Taken(a) EXCEPT !.uploading = FALSE, !.flow = flow]
    OBVIOUS
  <2>3. r \in ActStates /\ r.job = act[a].job
    BY <1>1, <1>8, <2>2, TakenType DEF OnBatchDone, Posted, ActStates
  <2>4. PICK s : s = IF ~Flag(a) /\ (\E i \in DOMAIN Recovered : Recovered[i] # "failed")
                       THEN UploadPendingItems(r, session) ELSE r
    OBVIOUS
  <2>5. s \in ActStates /\ s.job = act[a].job
    BY <1>1, <1>2, <2>3, <2>4, UploadType DEF MadeOf
  <2>6. Return(a, s) /\ UNCHANGED <<den, staged, published>> /\ session' \in {session, web, 0}
    BY <1>8, <2>1, <2>2, <2>4 DEF OnBatchDone
  <2>7. MainMoves(a)
    BY <1>1, <2>5, <2>6, Returned
  <2>8. UNCHANGED <<listed, dirs>> \/ (~Locked(a) /\ LoadItems)
    BY <1>8, LoadIfStep DEF OnBatchDone
  <2> QED BY <1>3, <2>6, <2>7, <2>8, MainStep DEF MainMoves
<1>9. ASSUME OnConnected(a)
      PROVE  QueueInv'
  <2>1. PICK r : r = Taken(a)
    OBVIOUS
  <2>2. r \in ActStates /\ r.job = act[a].job
    BY <1>1, <1>9, <2>1, TakenType DEF OnConnected, Posted
  <2>3. PICK s : s = IF r.flow /\ Recovered # <<>> THEN OpenAndUpload(r) ELSE OpenHost(r, FALSE)
    OBVIOUS
  <2>4. s \in ActStates /\ s.job = act[a].job
    BY <1>1, <2>2, <2>3, OpenAndUploadType, OpenHostType DEF MadeOf
  <2>5. Return(a, s) /\ UNCHANGED <<session, den, staged, published>>
    BY <1>9, <2>1, <2>3 DEF OnConnected
  <2>6. MainMoves(a)
    BY <1>1, <2>4, <2>5, Returned
  <2>7. UNCHANGED <<listed, dirs>> \/ (~Locked(a) /\ LoadItems)
    BY <1>9, LoadIfStep DEF OnConnected
  <2> QED BY <1>3, <2>5, <2>6, <2>7, MainStep DEF MainMoves
<1> QED BY <1>4, <1>5, <1>6, <1>7, <1>8, <1>9 DEF RunPage, RunCallback

(***************************************************************************)
(* The steps of the executor                                               *)
(***************************************************************************)
LEMMA ListChanged ==
  ASSUME NEW l \in Lists, NEW i, NEW m \in ItemStates
  PROVE  /\ [l EXCEPT ![i] = m] \in Lists /\ DOMAIN [l EXCEPT ![i] = m] = DOMAIN l
         /\ [x \in DOMAIN l \ {i} |-> l[x]] \in Lists
<1>1. PICK S \in SUBSET Items : l \in [S -> ItemStates]
  BY DEF Lists
<1>2. [l EXCEPT ![i] = m] \in [S -> ItemStates]
  BY <1>1
<1>3. [x \in DOMAIN l \ {i} |-> l[x]] \in [S \ {i} -> ItemStates]
  BY <1>1
<1> QED BY <1>1, <1>2, <1>3, ListMade

LEMMA WithItemType ==
  ASSUME TypesOK, NEW a \in Activities, act[a].job.item \in Items
  PROVE  /\ WithItem(a) \in Lists
         /\ DOMAIN WithItem(a) = DOMAIN act[a].job.list \cup {act[a].job.item}
<1>1. PICK l, i : l = act[a].job.list /\ i = act[a].job.item
  OBVIOUS
<1>2. l \in Lists /\ i \in Items
  BY <1>1, ActType DEF Jobs
<1>3. PICK S \in SUBSET Items : S = DOMAIN l \cup {i}
  BY <1>2, ListType
<1>4. \A x \in S : (IF x = i THEN "pending" ELSE l[x]) \in ItemStates
  <2>1. \A x \in DOMAIN l : l[x] \in ItemStates
    BY <1>2, ListType
  <2> QED BY <1>3, <2>1 DEF ItemStates
<1>5. WithItem(a) = [x \in S |-> IF x = i THEN "pending" ELSE l[x]]
  BY <1>1, <1>3 DEF WithItem
<1>6. WithItem(a) \in [S -> ItemStates]
  BY <1>4, <1>5
<1> QED BY <1>1, <1>3, <1>6, ListMade

\* A step of the executor, after which its job is j.
LEMMA ExecStep ==
  ASSUME QueueInv, OneActivity, NEW a \in Activities, NEW r \in ActStates,
         act' = [act EXCEPT ![a] = r], UNCHANGED <<session, den>>,
         listed' \in Lists, dirs' \in [Items -> {"none", "partial", "whole"}],
         staged' \subseteq Items, StagedIsKept', JobOK(r.job)', IsFiniteSet(Occupied'),
         Cardinality(Occupied') + Reserved(r.job) <= MaxItems
  PROVE  QueueInv'
<1>1. TypesOK' /\ act'[a] = r
  BY ActType DEF QueueInv, TypesOK, den
<1>2. PICK j : j = r.job
  OBVIOUS
<1>3. act'[a].job = j /\ JobOK(j)'
  BY <1>1, <1>2
<1>4. Reserved(j) \in Nat /\ Cardinality(Occupied') \in Nat
  BY <1>2, FS_CardinalityType DEF Reserved, ActStates, Jobs
<1>5. /\ Cardinality(Occupied') + Reserved(j) <= MaxItems
      /\ Cardinality(Occupied') <= MaxItems
  BY <1>2, <1>4
<1> QED BY <1>1, <1>3, <1>5, ActivityStep

\* A step that leaves the store alone.
LEMMA ExecAlone ==
  ASSUME QueueInv, OneActivity, NEW a \in Activities, NEW r \in ActStates,
         act' = [act EXCEPT ![a] = r], JobOK(r.job)',
         UNCHANGED <<listed, dirs, staged, session, den>>, published \subseteq published',
         Reserved(r.job) = 0 \/ Reserved(r.job) = Reserved(act[a].job)
  PROVE  QueueInv'
<1>1. StagedIsKept'
  BY DEF QueueInv, StagedIsKept
<1>2. Occupied' = Occupied
  BY DEF Occupied
<1>3. Cardinality(Occupied) + Reserved(r.job) <= MaxItems /\ IsFiniteSet(Occupied)
  <2>1. IsFiniteSet(Occupied) /\ Cardinality(Occupied) \in Nat
    BY FS_CardinalityType DEF QueueInv, StorageOK
  <2> QED BY <2>1 DEF QueueInv, StorageOK
<1> QED BY <1>1, <1>2, <1>3, ExecStep DEF QueueInv, TypesOK

\* A step that loads the list and reserves no room.
LEMMA ExecLoads ==
  ASSUME QueueInv, OneActivity, NEW a \in Activities, NEW r \in ActStates,
         act' = [act EXCEPT ![a] = r], LoadItems,
         staged \ published \subseteq DOMAIN Recovered => JobOK(r.job)',
         UNCHANGED <<staged, published, session, den>>, Reserved(r.job) = 0
  PROVE  QueueInv'
<1>1. TypesOK /\ StagedIsKept /\ StorageOK
  BY DEF QueueInv
<1>2. /\ listed' \in Lists /\ dirs' \in [Items -> {"none", "partial", "whole"}]
      /\ StagedIsKept' /\ IsFiniteSet(Occupied') /\ IsFiniteSet(DOMAIN Recovered)
      /\ Cardinality(Occupied') <= Cardinality(DOMAIN Recovered)
      /\ Cardinality(DOMAIN Recovered) <= Cardinality(Occupied)
  BY <1>1, LoadStep
<1>3. /\ Cardinality(Occupied') \in Nat /\ Cardinality(DOMAIN Recovered) \in Nat
      /\ Cardinality(Occupied) \in Nat /\ Cardinality(Occupied) <= MaxItems
  BY <1>1, <1>2, FS_CardinalityType DEF StorageOK
<1>4. Cardinality(Occupied') + Reserved(r.job) <= MaxItems
  BY <1>2, <1>3
<1>5. staged \ published \subseteq DOMAIN Recovered
  BY <1>1, RecoveredType DEF StagedIsKept
<1>6. staged' \subseteq Items
  BY <1>1 DEF TypesOK
<1> QED BY <1>2, <1>4, <1>5, <1>6, ExecStep

\* The head of the queue becomes the job under way.
LEMMA HeadType ==
  ASSUME TypesOK, NEW a \in Activities, act[a].jobs # <<>>
  PROVE  Head(act[a].jobs) \in NewJobs /\ Tail(act[a].jobs) \in Seq(NewJobs)
BY ActType

LEMMA PostType ==
  ASSUME NEW r \in ActStates, NEW what \in {"staged", "done", "connected"}, NEW flag \in BOOLEAN
  PROVE  MadeOf(Post(r, what, flag), r)
<1>1. PICK ps : ps = Append(r.posted, [what |-> what, flag |-> flag])
  OBVIOUS
<1>2. ps \in Seq(Callbacks)
  <2>1. [what |-> what, flag |-> flag] \in Callbacks
    BY DEF Callbacks
  <2>2. r.posted \in Seq(Callbacks)
    BY DEF ActStates
  <2> QED BY <1>1, <2>1, <2>2
<1>3. Post(r, what, flag) = [r EXCEPT !.posted = ps]
  BY <1>1 DEF Post
<1> QED BY <1>2, <1>3 DEF MadeOf, ActStates

LEMMA VerifyStep ==
  ASSUME QueueInv, OneActivity, NEW a \in Activities, VerifyHost(a)
  PROVE  QueueInv'
<1>1. TypesOK /\ act[a] \in ActStates /\ {session, web, honoured, joins} \subseteq Nat
  BY ActType DEF QueueInv
<1>2. PICK done : done = [act[a] EXCEPT !.jobs = Tail(@)]
  OBVIOUS
<1>3. done \in ActStates /\ done.job = act[a].job
  BY <1>1, <1>2, HeadType DEF VerifyHost, NextJob, ActStates
<1>4. PICK r : r = Post(done, "connected", FALSE)
  OBVIOUS
<1>5. r \in ActStates /\ r.job = act[a].job
  BY <1>3, <1>4, PostType DEF MadeOf
<1>6. act' = [act EXCEPT ![a] = done] \/ act' = [act EXCEPT ![a] = r]
  BY <1>2, <1>4 DEF VerifyHost
<1>7. MainMoves(a)
  BY <1>1, <1>3, <1>5, <1>6, Replaced
<1> QED BY <1>1, <1>7, MainStep DEF MainMoves, VerifyHost, den

LEMMA EndJobStep ==
  ASSUME QueueInv, OneActivity, NEW a \in Activities, NEW what \in {"staged", "done"},
         EndJob(a, what), UNCHANGED <<listed, dirs, session, den, staged, published>>
  PROVE  QueueInv'
<1>1. TypesOK /\ act[a] \in ActStates /\ act[a].job.flag \in BOOLEAN
  BY ActType DEF QueueInv, Jobs
<1>2. PICK s : s = [act[a] EXCEPT !.job = Idle]
  OBVIOUS
<1>3. s \in ActStates /\ s.job = Idle
  BY <1>1, <1>2, UnbornType DEF ActStates
<1>4. PICK r : r = Post(s, what, act[a].job.flag)
  OBVIOUS
<1>5. r \in ActStates /\ r.job = Idle
  BY <1>1, <1>3, <1>4, PostType DEF MadeOf
<1>6. act' = [act EXCEPT ![a] = r]
  BY <1>1, <1>2, <1>4, ActType DEF EndJob
<1>7. MainMoves(a)
  BY <1>1, <1>5, <1>6, Replaced
<1>8. {session, web, honoured, joins}' \subseteq Nat
  BY <1>1, ActType DEF den
<1> QED BY <1>7, <1>8, MainStep DEF MainMoves

\* What is known of the activity whose executor takes a step.
LEMMA ExecState ==
  ASSUME QueueInv, NEW a \in Activities
  PROVE  /\ TypesOK /\ StagedIsKept /\ act \in [Activities -> ActStates]
         /\ act[a] \in ActStates /\ act[a].job \in Jobs /\ JobOK(act[a].job)
         /\ staged \subseteq Items /\ listed \in Lists
         /\ dirs \in [Items -> {"none", "partial", "whole"}]
         /\ IsFiniteSet(Occupied) /\ Cardinality(Occupied) \in Nat
         /\ Cardinality(Occupied) + Reserved(act[a].job) <= MaxItems
         /\ Cardinality(Occupied) <= MaxItems
BY ActType, FS_CardinalityType DEF QueueInv, TypesOK, StorageOK

\* Whatever an item's directory becomes, the staged items keep theirs.
LEMMA DirChanged ==
  ASSUME TypesOK, NEW i \in Items \ staged, NEW d \in {"none", "partial", "whole"},
         dirs' = [dirs EXCEPT ![i] = d]
  PROVE  /\ dirs' \in [Items -> {"none", "partial", "whole"}] /\ dirs'[i] = d
         /\ \A x \in Items \ {i} : dirs'[x] = dirs[x]
         /\ \A x \in staged : dirs'[x] = dirs[x]
BY DEF TypesOK

LEMMA StageSteps ==
  ASSUME QueueInv, OneActivity, NEW a \in Activities, Stage(a)
  PROVE  QueueInv'
<1>1. PICK job : job = act[a].job
  OBVIOUS
<1>2. /\ TypesOK /\ StagedIsKept /\ act \in [Activities -> ActStates]
      /\ act[a] \in ActStates /\ job \in Jobs /\ JobOK(job)
      /\ staged \subseteq Items /\ listed \in Lists
      /\ dirs \in [Items -> {"none", "partial", "whole"}]
      /\ IsFiniteSet(Occupied) /\ Cardinality(Occupied) \in Nat
      /\ Cardinality(Occupied) + Reserved(job) <= MaxItems
      /\ Cardinality(Occupied) <= MaxItems
  BY <1>1, ExecState
<1>3. ASSUME NEW i \in Items, dirs' = [dirs EXCEPT ![i] = "none"]
      PROVE  /\ Occupied' \subseteq Occupied /\ IsFiniteSet(Occupied')
             /\ Cardinality(Occupied') \in Nat
             /\ Cardinality(Occupied') <= Cardinality(Occupied)
  <2>1. Occupied' \subseteq Occupied
    BY <1>2, <1>3 DEF Occupied
  <2> QED BY <1>2, <2>1, FS_Subset, FS_CardinalityType
<1>4. ASSUME BeginStaging(a)
      PROVE  QueueInv'
  <2>1. PICK new, rest : new = Head(act[a].jobs) /\ rest = Tail(act[a].jobs)
    OBVIOUS
  <2>2. new \in NewJobs /\ new.kind = "stage" /\ rest \in Seq(NewJobs)
    BY <1>2, <1>4, <2>1, HeadType DEF BeginStaging, NextJob
  <2>3. PICK left : left = IF Cardinality(DOMAIN Recovered) + new.left <= MaxItems
                             THEN new.left ELSE 0
    OBVIOUS
  <2>4. PICK j : j = [new EXCEPT !.pc = "files", !.list = Recovered, !.left = left]
    OBVIOUS
  <2>5. left \in Nat /\ Recovered \in Lists
    BY <1>2, <2>2, <2>3, RecoveredType DEF NewJobs, Jobs
  <2>6. /\ j \in Jobs /\ j.kind = "stage" /\ j.pc = "files" /\ j.list = Recovered
        /\ j.left = left
    BY <2>2, <2>4, <2>5 DEF NewJobs, Jobs
  <2>7. PICK r : r = [act[a] EXCEPT !.jobs = rest, !.job = j]
    OBVIOUS
  <2>8. r \in ActStates /\ r.job = j
    BY <1>2, <2>2, <2>6, <2>7 DEF ActStates
  <2>9. /\ act' = [act EXCEPT ![a] = r] /\ LoadItems
        /\ UNCHANGED <<session, den, staged, published>>
    BY <1>2, <1>4, <2>1, <2>3, <2>4, <2>7 DEF BeginStaging
  <2>10. /\ listed' \in Lists /\ dirs' \in [Items -> {"none", "partial", "whole"}]
         /\ StagedIsKept' /\ IsFiniteSet(Occupied') /\ IsFiniteSet(DOMAIN Recovered)
         /\ Cardinality(Occupied') <= Cardinality(DOMAIN Recovered)
         /\ Cardinality(DOMAIN Recovered) <= Cardinality(Occupied)
    BY <2>9, LoadStep DEF QueueInv
  <2>11. Cardinality(Occupied') \in Nat /\ Cardinality(DOMAIN Recovered) \in Nat
    BY <2>10, FS_CardinalityType
  <2>12. Cardinality(Occupied') + left <= MaxItems
    BY <1>2, <2>2, <2>3, <2>10, <2>11 DEF NewJobs, Jobs
  <2>13. staged \ published \subseteq DOMAIN Recovered
    BY <1>2, RecoveredType DEF StagedIsKept
  <2>14. JobOK(j)'
    BY <2>6, <2>9, <2>13 DEF JobOK, Saves
  <2>15. Reserved(j) = left /\ staged' \subseteq Items
    BY <1>2, <2>6, <2>9 DEF Reserved
  <2> QED BY <2>8, <2>9, <2>10, <2>12, <2>14, <2>15, ExecStep
<1>5. ASSUME CopyUri(a)
      PROVE  QueueInv'
  <2>1. PICK i : i = CHOOSE x \in Fresh : TRUE
    OBVIOUS
  <2>2. i \in Fresh /\ job.kind = "stage" /\ job.pc = "files" /\ job.left > 0
    BY <1>1, <1>5, <2>1 DEF CopyUri, Running
  <2>3. i \in Items \ staged /\ dirs[i] = "none"
    BY <2>2 DEF Fresh
  <2>4. PICK j, left : left = job.left - 1
          /\ j = [job EXCEPT !.pc = "copying", !.item = i, !.left = left]
    OBVIOUS
  <2>5. left \in Nat /\ job.left = left + 1
    BY <1>2, <2>2, <2>4 DEF Jobs
  <2>6. /\ j \in Jobs /\ j.kind = "stage" /\ j.pc = "copying" /\ j.item = i
        /\ j.list = job.list /\ j.left = left
    BY <1>2, <2>2, <2>3, <2>4, <2>5 DEF Jobs
  <2>7. PICK r : r = [act[a] EXCEPT !.job = j]
    OBVIOUS
  <2>8. r \in ActStates /\ r.job = j
    BY <1>2, <2>6, <2>7 DEF ActStates
  <2>9. act' = [act EXCEPT ![a] = r] /\ dirs' = [dirs EXCEPT ![i] = "partial"]
        /\ UNCHANGED <<listed, session, den, staged, published>>
    <3>1. /\ act' = [act EXCEPT ![a].job.pc = "copying", ![a].job.item = i,
                                ![a].job.left = left]
          /\ dirs' = [dirs EXCEPT ![i] = "partial"]
          /\ UNCHANGED <<listed, session, den, staged, published>>
      BY <1>1, <1>5, <2>1, <2>4 DEF CopyUri
    <3>2. [act EXCEPT ![a].job.pc = "copying", ![a].job.item = i, ![a].job.left = left]
            = [act EXCEPT ![a] = r]
      BY <1>1, <1>2, <2>4, <2>7
    <3> QED BY <3>1, <3>2
  <2>10. /\ dirs' \in [Items -> {"none", "partial", "whole"}] /\ dirs'[i] = "partial"
         /\ \A x \in Items \ {i} : dirs'[x] = dirs[x]
         /\ \A x \in staged : dirs'[x] = dirs[x]
    BY <1>2, <2>3, <2>9, DirChanged
  <2>11. StagedIsKept'
    BY <1>2, <2>9, <2>10 DEF StagedIsKept
  <2>12. Occupied' = Occupied \cup {i} /\ i \notin Occupied
    BY <2>3, <2>10 DEF Occupied
  <2>13. IsFiniteSet(Occupied') /\ Cardinality(Occupied') = Cardinality(Occupied) + 1
    BY <1>2, <2>12, FS_AddElement
  <2>14. Cardinality(Occupied') + Reserved(j) <= MaxItems
    BY <1>2, <2>2, <2>5, <2>6, <2>13 DEF Reserved
  <2>15. JobOK(j)'
    BY <1>2, <2>2, <2>3, <2>6, <2>9 DEF JobOK, Saves
  <2>16. listed' \in Lists /\ staged' \subseteq Items
    BY <1>2, <2>9
  <2> QED BY <2>8, <2>9, <2>10, <2>11, <2>13, <2>14, <2>15, <2>16, ExecStep
<1>6. ASSUME CommitFile(a) \/ RejectFile(a) \/ ListItem(a) \/ ListFails(a)
      PROVE  job.item \in Items \ staged /\ staged \ published \subseteq DOMAIN job.list
             /\ job.kind = "stage" /\ job.pc \in {"copying", "copied"}
             /\ (job.pc = "copied" => dirs[job.item] = "whole")
  BY <1>1, <1>2, <1>6 DEF CommitFile, RejectFile, ListItem, ListFails, Running, JobOK, Saves
<1>7. ASSUME CommitFile(a)
      PROVE  QueueInv'
  <2>1. PICK j : j = [job EXCEPT !.pc = "copied"]
    OBVIOUS
  <2>2. /\ j \in Jobs /\ j.kind = "stage" /\ j.pc = "copied" /\ j.item = job.item
        /\ j.list = job.list /\ j.left = job.left
    BY <1>2, <1>6, <1>7, <2>1 DEF Jobs
  <2>3. PICK r : r = [act[a] EXCEPT !.job = j]
    OBVIOUS
  <2>4. r \in ActStates /\ r.job = j
    BY <1>2, <2>2, <2>3 DEF ActStates
  <2>5. /\ act' = [act EXCEPT ![a] = r] /\ dirs' = [dirs EXCEPT ![job.item] = "whole"]
        /\ dirs[job.item] = "partial" /\ UNCHANGED <<listed, session, den, staged, published>>
    BY <1>1, <1>2, <1>7, <2>1, <2>3 DEF CommitFile
  <2>6. /\ dirs' \in [Items -> {"none", "partial", "whole"}] /\ dirs'[job.item] = "whole"
        /\ \A x \in Items \ {job.item} : dirs'[x] = dirs[x]
        /\ \A x \in staged : dirs'[x] = dirs[x]
    BY <1>2, <1>6, <1>7, <2>5, DirChanged
  <2>7. StagedIsKept'
    BY <1>2, <2>5, <2>6 DEF StagedIsKept
  <2>8. Occupied' = Occupied
    BY <1>6, <1>7, <2>5, <2>6 DEF Occupied
  <2>9. Reserved(j) = Reserved(job)
    BY <2>2, <1>6, <1>7 DEF Reserved
  <2>10. JobOK(j)'
    BY <1>6, <1>7, <2>2, <2>5, <2>6 DEF JobOK, Saves
  <2>11. listed' \in Lists /\ staged' \subseteq Items
    BY <1>2, <2>5
  <2> QED BY <1>2, <2>4, <2>5, <2>6, <2>7, <2>8, <2>9, <2>10, <2>11, ExecStep
<1>8. PICK back : back = [job EXCEPT !.pc = "files", !.item = NoItem]
  OBVIOUS
<1>9. ASSUME RejectFile(a) \/ ListFails(a)
      PROVE  QueueInv'
  <2>1. /\ back \in Jobs /\ back.kind = "stage" /\ back.pc = "files"
        /\ back.list = job.list /\ back.left = job.left
    BY <1>2, <1>6, <1>8, <1>9 DEF Jobs
  <2>2. PICK r : r = [act[a] EXCEPT !.job = back]
    OBVIOUS
  <2>3. r \in ActStates /\ r.job = back
    BY <1>2, <2>1, <2>2 DEF ActStates
  <2>4. /\ act' = [act EXCEPT ![a] = r] /\ dirs' = [dirs EXCEPT ![job.item] = "none"]
        /\ (listed' = listed \/ listed' = WithItem(a))
        /\ UNCHANGED <<session, den, staged, published>>
    <3>1. act' = [act EXCEPT ![a].job.pc = "files", ![a].job.item = NoItem]
      BY <1>9 DEF RejectFile, ListFails
    <3>2. act' = [act EXCEPT ![a] = r]
      BY <1>1, <1>2, <1>8, <2>2, <3>1
    <3> QED BY <1>1, <1>9, <3>2 DEF RejectFile, ListFails
  <2>5. /\ dirs' \in [Items -> {"none", "partial", "whole"}]
        /\ \A x \in staged : dirs'[x] = dirs[x]
    BY <1>2, <1>6, <1>9, <2>4, DirChanged
  <2>6. WithItem(a) \in Lists /\ staged \ published \subseteq DOMAIN WithItem(a)
    BY <1>1, <1>2, <1>6, <1>9, WithItemType
  <2>7. StagedIsKept' /\ listed' \in Lists
    BY <1>2, <2>4, <2>5, <2>6 DEF StagedIsKept
  <2>8. /\ IsFiniteSet(Occupied') /\ Cardinality(Occupied') \in Nat
        /\ Cardinality(Occupied') <= Cardinality(Occupied)
    BY <1>3, <1>6, <1>9, <2>4
  <2>9. Reserved(back) = Reserved(job) /\ Reserved(job) \in Nat
    BY <1>2, <1>6, <1>9, <2>1 DEF Reserved, Jobs
  <2>10. Cardinality(Occupied') + Reserved(back) <= MaxItems
    BY <1>2, <2>8, <2>9
  <2>11. JobOK(back)'
    BY <1>6, <1>9, <2>1, <2>4 DEF JobOK, Saves
  <2>12. staged' \subseteq Items
    BY <1>2, <2>4
  <2> QED BY <2>3, <2>4, <2>5, <2>7, <2>8, <2>10, <2>11, <2>12, ExecStep
<1>10. ASSUME ListItem(a)
       PROVE  QueueInv'
  <2>1. WithItem(a) \in Lists /\ DOMAIN WithItem(a) = DOMAIN job.list \cup {job.item}
    BY <1>1, <1>2, <1>6, <1>10, WithItemType
  <2>2. PICK j : j = [job EXCEPT !.list = WithItem(a), !.item = NoItem, !.pc = "files",
                                 !.flag = TRUE]
    OBVIOUS
  <2>3. /\ j \in Jobs /\ j.kind = "stage" /\ j.pc = "files" /\ j.list = WithItem(a)
        /\ j.left = job.left
    BY <1>2, <1>6, <1>10, <2>1, <2>2 DEF Jobs
  <2>4. PICK r : r = [act[a] EXCEPT !.job = j]
    OBVIOUS
  <2>5. r \in ActStates /\ r.job = j
    BY <1>2, <2>3, <2>4 DEF ActStates
  <2>6. /\ act' = [act EXCEPT ![a] = r] /\ listed' = WithItem(a)
        /\ staged' = staged \cup {job.item} /\ UNCHANGED <<dirs, session, den, published>>
        /\ job.pc = "copied"
    BY <1>1, <1>2, <1>10, <2>2, <2>4 DEF ListItem, Running
  <2>7. StagedIsKept'
    BY <1>2, <1>6, <1>10, <2>1, <2>6 DEF StagedIsKept
  <2>8. Occupied' = Occupied
    BY <2>6 DEF Occupied
  <2>9. Reserved(j) = Reserved(job)
    BY <1>6, <1>10, <2>3 DEF Reserved
  <2>10. JobOK(j)'
    BY <1>6, <1>10, <2>1, <2>3, <2>6 DEF JobOK, Saves
  <2>11. /\ listed' \in Lists /\ staged' \subseteq Items
         /\ dirs' \in [Items -> {"none", "partial", "whole"}]
    BY <1>2, <1>6, <1>10, <2>1, <2>6
  <2> QED BY <1>2, <2>5, <2>6, <2>7, <2>8, <2>9, <2>10, <2>11, ExecStep
<1>11. ASSUME EndStaging(a)
       PROVE  QueueInv'
  BY <1>11, EndJobStep DEF EndStaging
<1> QED BY <1>4, <1>5, <1>7, <1>9, <1>10, <1>11 DEF Stage

\* updateItem and removeItem have loaded the list and are about to save it.
LEMMA MarkStep ==
  ASSUME QueueInv, OneActivity, NEW a \in Activities,
         NEW mark \in {"uploading", "failed", "gone"}, NEW flag \in BOOLEAN,
         act[a].job.kind = "batch", act[a].job.item \in Items,
         mark = "gone" => act[a].job.item \in published,
         Mark(a, mark, flag)
  PROVE  QueueInv'
<1>1. PICK job : job = act[a].job
  OBVIOUS
<1>2. TypesOK /\ act \in [Activities -> ActStates] /\ act[a] \in ActStates /\ job \in Jobs
  BY <1>1, ExecState
<1>3. Recovered \in Lists
  BY <1>2, RecoveredType
<1>4. PICK j : j = [job EXCEPT !.pc = "persist", !.mark = mark, !.list = Recovered,
                               !.flag = @ \/ flag]
  OBVIOUS
<1>5. /\ j \in Jobs /\ j.kind = "batch" /\ j.pc = "persist" /\ j.mark = mark
      /\ j.list = Recovered /\ j.item = job.item
  BY <1>1, <1>2, <1>3, <1>4 DEF Jobs
<1>6. PICK r : r = [act[a] EXCEPT !.job = j]
  OBVIOUS
<1>7. r \in ActStates /\ r.job = j
  BY <1>2, <1>5, <1>6 DEF ActStates
<1>8. /\ act' = [act EXCEPT ![a] = r] /\ LoadItems
      /\ UNCHANGED <<session, den, staged, published>>
  BY ZenonT(60), <1>1, <1>2, <1>4, <1>6 DEF Mark
<1>9. ASSUME staged \ published \subseteq DOMAIN Recovered
      PROVE  JobOK(j)'
  BY <1>1, <1>5, <1>8, <1>9 DEF JobOK, Saves
<1>10. Reserved(j) = 0
  BY <1>5 DEF Reserved
<1> QED BY <1>7, <1>8, <1>9, <1>10, ExecLoads

LEMMA PersistStep ==
  ASSUME QueueInv, OneActivity, NEW a \in Activities, PersistUpdate(a)
  PROVE  QueueInv'
<1>1. PICK job : job = act[a].job
  OBVIOUS
<1>2. /\ TypesOK /\ StagedIsKept /\ act \in [Activities -> ActStates]
      /\ act[a] \in ActStates /\ job \in Jobs /\ JobOK(job)
      /\ staged \subseteq Items /\ listed \in Lists
      /\ dirs \in [Items -> {"none", "partial", "whole"}]
      /\ IsFiniteSet(Occupied) /\ Cardinality(Occupied) \in Nat
      /\ Cardinality(Occupied) <= MaxItems
  BY <1>1, ExecState
<1>3. /\ job.kind = "batch" /\ job.pc = "persist"
      /\ job.mark \in {"gone", "uploading", "failed"}
      /\ staged \ published \subseteq DOMAIN job.list
      /\ (job.mark = "gone" => job.item \in published) /\ job.item \in Items
      /\ job.list \in Lists
  BY <1>1, <1>2 DEF PersistUpdate, Running, JobOK, Saves, Jobs
<1>4. PICK item, pc :
        /\ item = IF job.mark = "failed" THEN NoItem ELSE job.item
        /\ pc = CASE job.mark = "gone" -> "delete"
                  [] job.mark = "uploading" -> "send"
                  [] job.mark = "failed" -> "begin"
  OBVIOUS
<1>5. PICK j : j = [job EXCEPT !.list = <<>>, !.mark = "none", !.item = item, !.pc = pc]
  OBVIOUS
<1>6. /\ pc \in {"delete", "send", "begin"} /\ (pc = "delete" <=> job.mark = "gone")
      /\ item \in Items \cup {NoItem} /\ (job.mark # "failed" => item = job.item)
      /\ (pc # "begin" => item \in Items)
  BY <1>2, <1>3, <1>4 DEF Jobs
<1>7. /\ j \in Jobs /\ j.kind = "batch" /\ j.pc = pc /\ j.item = item
  BY <1>2, <1>3, <1>5, <1>6, EmptyList DEF Jobs
<1>8. PICK r : r = [act[a] EXCEPT !.job = j]
  OBVIOUS
<1>9. r \in ActStates /\ r.job = j
  BY <1>2, <1>7, <1>8 DEF ActStates
<1>10. act' = [act EXCEPT ![a] = r] /\ UNCHANGED <<dirs, session, den>>
  <2>1. act' = [act EXCEPT ![a].job.list = <<>>, ![a].job.mark = "none",
                           ![a].job.item = IF job.mark = "failed" THEN NoItem ELSE @,
                           ![a].job.pc = pc]
    BY <1>1, <1>4 DEF PersistUpdate
  <2>2. act' = [act EXCEPT ![a].job.list = <<>>, ![a].job.mark = "none",
                           ![a].job.item = item, ![a].job.pc = pc]
    BY <1>1, <1>2, <1>4, <2>1 DEF ActStates, Jobs
  <2>3. act' = [act EXCEPT ![a] = r]
    BY <1>1, <1>2, <1>5, <1>8, <2>2
  <2> QED BY <2>3 DEF PersistUpdate
<1>11. PICK done : done = IF job.mark = "gone" THEN published \cap {job.item} ELSE {}
  OBVIOUS
<1>12. staged' = staged \ done /\ published' = published \ done
  BY <1>1, <1>11 DEF PersistUpdate
<1>13. listed' \in Lists /\ (staged' \ published') \subseteq DOMAIN listed'
  <2>1. CASE job.mark = "gone"
    <3>1. listed' = [i \in DOMAIN job.list \ {job.item} |-> job.list[i]]
      BY <1>1, <2>1 DEF PersistUpdate
    <3>2. listed' \in Lists
      BY <1>3, <3>1, ListChanged DEF ItemStates
    <3>3. job.item \notin staged'
      BY <1>3, <1>11, <1>12, <2>1
    <3>4. DOMAIN listed' = DOMAIN job.list \ {job.item}
      BY <3>1
    <3> QED BY <1>3, <1>11, <1>12, <2>1, <3>2, <3>3, <3>4
  <2>2. CASE job.mark # "gone" /\ job.item \in DOMAIN job.list
    <3>1. listed' = [job.list EXCEPT ![job.item] = job.mark] /\ job.mark \in ItemStates
      BY <1>1, <1>3, <2>2 DEF PersistUpdate, ItemStates
    <3>2. listed' \in Lists /\ DOMAIN listed' = DOMAIN job.list
      BY <1>3, <3>1, ListChanged
    <3> QED BY <1>3, <1>11, <1>12, <2>2, <3>2
  <2>3. CASE job.mark # "gone" /\ job.item \notin DOMAIN job.list
    <3>1. listed' = listed
      BY <1>1, <2>3 DEF PersistUpdate
    <3> QED BY <1>2, <1>11, <1>12, <2>3, <3>1 DEF StagedIsKept
  <2> QED BY <2>1, <2>2, <2>3
<1>14. StagedIsKept'
  BY <1>2, <1>10, <1>11, <1>12, <1>13 DEF StagedIsKept
<1>15. JobOK(j)'
  <2>1. j.pc = "delete" => j.item \in Items \ staged'
    <3>1. SUFFICES ASSUME j.pc = "delete" PROVE j.item \in Items \ staged'
      OBVIOUS
    <3>2. job.mark = "gone" /\ j.item = job.item /\ job.item \in published
      BY <1>3, <1>6, <1>7, <3>1
    <3> QED BY <1>3, <1>11, <1>12, <3>2
  <2> QED BY <1>6, <1>7, <2>1 DEF JobOK, Saves
<1>16. Occupied' = Occupied /\ Reserved(j) = 0
  BY <1>7, <1>10 DEF Occupied, Reserved
<1>17. staged' \subseteq Items
  BY <1>2, <1>12
<1>18. Cardinality(Occupied') + Reserved(r.job) <= MaxItems /\ JobOK(r.job)'
  BY <1>2, <1>9, <1>15, <1>16
<1> QED BY <1>2, <1>9, <1>10, <1>13, <1>14, <1>16, <1>17, <1>18, ExecStep

LEMMA UploadSteps ==
  ASSUME QueueInv, OneActivity, NEW a \in Activities, Upload(a)
  PROVE  QueueInv'
<1>1. PICK job : job = act[a].job
  OBVIOUS
<1>2. /\ TypesOK /\ StagedIsKept /\ act \in [Activities -> ActStates]
      /\ act[a] \in ActStates /\ job \in Jobs /\ JobOK(job)
      /\ staged \subseteq Items /\ listed \in Lists
      /\ dirs \in [Items -> {"none", "partial", "whole"}]
      /\ IsFiniteSet(Occupied) /\ Cardinality(Occupied) \in Nat
      /\ Cardinality(Occupied) <= MaxItems
  BY <1>1, ExecState
<1>3. ASSUME BeginBatch(a)
      PROVE  QueueInv'
  <2>1. PICK j, rest : j = Head(act[a].jobs) /\ rest = Tail(act[a].jobs)
    OBVIOUS
  <2>2. j \in Jobs /\ j.kind = "batch" /\ j.pc = "begin" /\ rest \in Seq(NewJobs)
    BY <1>2, <1>3, <2>1, HeadType DEF BeginBatch, NextJob, NewJobs
  <2>3. PICK r : r = [act[a] EXCEPT !.job = j, !.jobs = rest]
    OBVIOUS
  <2>4. r \in ActStates /\ r.job = j
    BY <1>2, <2>2, <2>3 DEF ActStates
  <2>5. /\ act' = [act EXCEPT ![a] = r]
        /\ UNCHANGED <<listed, dirs, session, den, staged, published>>
    BY <1>2, <1>3, <2>1, <2>3 DEF BeginBatch
  <2>6. JobOK(j)' /\ Reserved(j) = 0
    BY <2>2 DEF JobOK, Saves, Reserved
  <2> QED BY <2>4, <2>5, <2>6, ExecAlone
<1>4. ASSUME DeleteFile(a)
      PROVE  QueueInv'
  <2>1. job.kind = "batch" /\ job.item \in Items \ staged
    BY <1>1, <1>2, <1>4 DEF DeleteFile, Running, JobOK
  <2>2. PICK j : j = [job EXCEPT !.pc = "begin", !.item = NoItem]
    OBVIOUS
  <2>3. j \in Jobs /\ j.kind = "batch" /\ j.pc = "begin"
    BY <1>2, <2>1, <2>2 DEF Jobs
  <2>4. PICK r : r = [act[a] EXCEPT !.job = j]
    OBVIOUS
  <2>5. r \in ActStates /\ r.job = j
    BY <1>2, <2>3, <2>4 DEF ActStates
  <2>6. /\ act' = [act EXCEPT ![a] = r] /\ dirs' = [dirs EXCEPT ![job.item] = "none"]
        /\ UNCHANGED <<listed, session, den, staged, published>>
    BY ZenonT(60), <1>1, <1>2, <1>4, <2>2, <2>4 DEF DeleteFile
  <2>7. /\ dirs' \in [Items -> {"none", "partial", "whole"}]
        /\ \A x \in staged : dirs'[x] = dirs[x]
    BY <1>2, <2>1, <2>6, DirChanged
  <2>8. StagedIsKept'
    BY <1>2, <2>6, <2>7 DEF StagedIsKept
  <2>9. Occupied' \subseteq Occupied
    BY <1>2, <2>6 DEF Occupied
  <2>10. IsFiniteSet(Occupied') /\ Cardinality(Occupied') <= Cardinality(Occupied)
    BY <1>2, <2>9, FS_Subset
  <2>11. Reserved(j) = 0 /\ JobOK(j)'
    BY <2>3 DEF Reserved, JobOK, Saves
  <2>12. Cardinality(Occupied') + Reserved(j) <= MaxItems
    BY <1>2, <2>10, <2>11, FS_CardinalityType
  <2>13. listed' \in Lists /\ staged' \subseteq Items
    BY <1>2, <2>6
  <2> QED BY <2>5, <2>6, <2>7, <2>8, <2>10, <2>11, <2>12, <2>13, ExecStep
<1>5. ASSUME NextItem(a)
      PROVE  QueueInv'
  <2>1. PICK i \in job.todo, mark \in {"uploading", "failed"} :
          act' = [act EXCEPT ![a].job.item = i, ![a].job.todo = @ \ {i},
                             ![a].job.pc = "persist", ![a].job.mark = mark,
                             ![a].job.list = Recovered]
    BY <1>1, <1>5 DEF NextItem
  <2>2. job.kind = "batch" /\ i \in Items /\ Recovered \in Lists
    BY <1>1, <1>2, <1>5, <2>1, RecoveredType DEF NextItem, Running, Jobs
  <2>3. PICK j, todo : todo = job.todo \ {i}
          /\ j = [job EXCEPT !.item = i, !.todo = todo, !.pc = "persist",
                             !.mark = mark, !.list = Recovered]
    OBVIOUS
  <2>4. /\ j \in Jobs /\ j.kind = "batch" /\ j.pc = "persist" /\ j.mark = mark
        /\ j.list = Recovered /\ j.item \in Items
    BY <1>2, <2>1, <2>2, <2>3 DEF Jobs
  <2>5. PICK r : r = [act[a] EXCEPT !.job = j]
    OBVIOUS
  <2>6. r \in ActStates /\ r.job = j
    BY <1>2, <2>4, <2>5 DEF ActStates
  <2>7. /\ act' = [act EXCEPT ![a] = r] /\ LoadItems
        /\ UNCHANGED <<session, den, staged, published>>
    <3>1. act' = [act EXCEPT ![a].job.item = i, ![a].job.todo = todo,
                             ![a].job.pc = "persist", ![a].job.mark = mark,
                             ![a].job.list = Recovered]
      BY <1>1, <1>2, <2>1, <2>3 DEF ActStates, Jobs
    <3>2. PICK rec, pc, f, g : rec = Recovered /\ pc = "persist" /\ f = act /\ g = act'
      OBVIOUS
    <3>3. /\ f \in [Activities -> ActStates]
          /\ g = [f EXCEPT ![a].job.item = i, ![a].job.todo = todo, ![a].job.pc = pc,
                           ![a].job.mark = mark, ![a].job.list = rec]
          /\ j = [f[a].job EXCEPT !.item = i, !.todo = todo, !.pc = pc, !.mark = mark,
                                  !.list = rec]
      BY <1>1, <1>2, <2>3, <3>1, <3>2
    <3>4. g = [f EXCEPT ![a] = [f[a] EXCEPT !.job = j]]
      BY ZenonT(60), <3>3
    <3>5. act' = [act EXCEPT ![a] = [act[a] EXCEPT !.job = j]]
      BY <3>2, <3>4
    <3>6. act' = [act EXCEPT ![a] = r]
      BY <2>5, <3>5
    <3> QED BY <1>5, <3>6 DEF NextItem
  <2>8. ASSUME staged \ published \subseteq DOMAIN Recovered
        PROVE  JobOK(j)'
    BY <2>1, <2>4, <2>7, <2>8 DEF JobOK, Saves
  <2>9. Reserved(j) = 0
    BY <2>4 DEF Reserved
  <2> QED BY <2>6, <2>7, <2>8, <2>9, ExecLoads
<1>6. ASSUME Publish(a)
      PROVE  QueueInv'
  <2>1. PICK j : j = [job EXCEPT !.pc = "sent"]
    OBVIOUS
  <2>2. /\ j \in Jobs /\ j.kind = "batch" /\ j.pc = "sent" /\ j.item = job.item
        /\ job.item \in Items
    BY <1>1, <1>2, <1>6, <2>1 DEF Jobs, JobOK, Publish, Running
  <2>3. PICK r : r = [act[a] EXCEPT !.job = j]
    OBVIOUS
  <2>4. r \in ActStates /\ r.job = j
    BY <1>2, <2>2, <2>3 DEF ActStates
  <2>5. /\ act' = [act EXCEPT ![a] = r] /\ published' = published \cup {job.item}
        /\ UNCHANGED <<listed, dirs, session, den, staged>>
    BY <1>1, <1>2, <1>6, <2>1, <2>3 DEF Publish
  <2>6. JobOK(j)' /\ Reserved(j) = 0
    BY <2>2, <2>5 DEF JobOK, Saves, Reserved
  <2> QED BY <2>4, <2>5, <2>6, ExecAlone
<1>7. ASSUME Uploaded(a)
      PROVE  QueueInv'
  <2>1. job.kind = "batch" /\ job.item \in published /\ job.item \in Items
    BY <1>1, <1>2, <1>7 DEF Uploaded, Running, JobOK
  <2> QED BY <1>1, <1>7, <2>1, MarkStep DEF Uploaded
<1>8. ASSUME Interrupted(a) \/ Unauthorized(a)
      PROVE  QueueInv'
  <2>1. PICK flag \in BOOLEAN : Mark(a, "failed", flag)
    BY <1>8 DEF Interrupted, Unauthorized
  <2>2. job.kind = "batch" /\ job.item \in Items
    BY <1>1, <1>2, <1>8 DEF JobOK, Interrupted, Unauthorized, Sending, Running
  <2> QED BY <1>1, <2>1, <2>2, MarkStep
<1>9. ASSUME EndBatch(a)
      PROVE  QueueInv'
  BY <1>9, EndJobStep DEF EndBatch
<1> QED BY <1>3, <1>4, <1>5, <1>6, <1>7, <1>8, <1>9, PersistStep DEF Upload

(***************************************************************************)
(* The invariant holds                                                     *)
(***************************************************************************)
LEMMA QueueInit == Init => QueueInv
<1> SUFFICES ASSUME Init PROVE QueueInv
  OBVIOUS
<1>1. TypesOK
  BY EmptyList, UnbornType DEF Init, TypesOK
<1>2. StagedIsKept
  BY DEF Init, StagedIsKept
<1>3. ASSUME NEW a \in Activities
      PROVE  JobOK(act[a].job) /\ Reserved(act[a].job) = 0
  <2>1. PICK j : j = act[a].job
    OBVIOUS
  <2>2. j.kind = "idle"
    BY <2>1 DEF Init, Unborn, Idle, Job
  <2> QED BY <2>1, <2>2 DEF JobOK, Saves, Reserved
<1>4. Occupied = {}
  BY DEF Init, Occupied
<1>5. StorageOK
  BY <1>3, <1>4, FS_EmptySet DEF StorageOK
<1> QED BY <1>1, <1>2, <1>3, <1>5 DEF QueueInv

LEMMA QueueStep == OneActivity /\ QueueInv /\ [Next]_vars => QueueInv'
<1> SUFFICES ASSUME OneActivity, QueueInv, [Next]_vars PROVE QueueInv'
  OBVIOUS
<1>1. TypesOK
  BY DEF QueueInv
<1>2. ASSUME UNCHANGED <<listed, dirs, act, staged, published>>,
             {session, web, honoured, joins}' \subseteq Nat
      PROVE  QueueInv'
  <2>1. TypesOK' /\ StagedIsKept'
    BY <1>2 DEF QueueInv, TypesOK, StagedIsKept
  <2>2. Occupied' = Occupied
    BY <1>2 DEF Occupied
  <2>3. StorageOK'
    BY <1>2, <2>2 DEF QueueInv, StorageOK, Reserved
  <2>4. \A a \in Activities : JobOK(act[a].job)'
    BY <1>2 DEF QueueInv, JobOK, Saves
  <2> QED BY <2>1, <2>3, <2>4 DEF QueueInv
<1>3. CASE Join \/ HubRemovesDevice \/ WebForgets \/ UNCHANGED vars
  <2>1. {session, web, honoured, joins}' \subseteq Nat
    BY <1>1, <1>3 DEF TypesOK, Join, HubRemovesDevice, WebForgets, vars, den
  <2> QED BY <1>2, <1>3, <2>1 DEF Join, HubRemovesDevice, WebForgets, vars
<1>4. CASE Die
  <2>1. PICK a \in Activities : TRUE
    BY <1>4 DEF Die
  <2> QED BY <1>4, <2>1, KilledStep
<1>5. ASSUME NEW a \in Activities,
             UseApp(a) \/ RunPage(a) \/ CaptureWebIdentity(a) \/ RunCallback(a) \/ RunExecutor(a)
      PROVE  QueueInv'
  BY <1>5, UserSteps, MainThreadSteps, VerifyStep, StageSteps, UploadSteps DEF RunExecutor
<1>6. ASSUME NEW a \in Activities, NEW n \in Shares, Share(a, n)
      PROVE  QueueInv'
  BY <1>6, UserSteps
<1> QED BY <1>3, <1>4, <1>5, <1>6 DEF Next, Proceed

LEMMA QueueInvariance == ASSUME OneActivity PROVE Spec => []QueueInv
BY QueueInit, QueueStep, PTL DEF Spec

(***************************************************************************)
(* What follows                                                            *)
(***************************************************************************)
\* Nothing shared is lost, whatever is shared, whenever the process ends and
\* however commits of the preferences and answers of the hub fail
\* (ShareStagingStore.java, MainActivity.java): an item reported as staged is
\* listed with its whole file until the hub has published it.
THEOREM NothingSharedIsLost == ASSUME OneActivity PROVE Spec => []StagedIsKept
<1>1. QueueInv => StagedIsKept
  BY DEF QueueInv
<1> QED BY <1>1, QueueInvariance, PTL

\* The private storage never holds more files than the limit, whatever
\* crashes and failed commits leave behind: staging counts what the load
\* before it has kept, and takes no more files than it has counted room for.
THEOREM StorageStaysBounded == ASSUME OneActivity PROVE Spec => []StorageIsBounded
<1>1. QueueInv => StorageIsBounded
  BY DEF QueueInv, StorageOK, Occupied, StorageIsBounded
<1> QED BY <1>1, QueueInvariance, PTL
=============================================================================
