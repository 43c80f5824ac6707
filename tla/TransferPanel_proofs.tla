------------------------ MODULE TransferPanel_proofs ------------------------
(***************************************************************************)
(* Proofs about TransferPanel for any number of transfers, joins and       *)
(* starts of the hub.                                                      *)
(***************************************************************************)
EXTENDS TransferPanel, FiniteSetTheorems, TLAPS

USE PanelAssumption DEF PanelAssumption

(***************************************************************************)
(* The invariant behind PreviewsWork                                       *)
(***************************************************************************)
Joined == 1..joins

\* Devices are those admitted so far, and calls are of theirs.
DevicesOK ==
  /\ joins \in Nat /\ joins <= MaxJoins /\ boot \in Nat
  /\ {me, member} \subseteq Joined \cup {NoDevice}
  /\ \A c \in calls : c.dev \in Joined /\ c.id \in Transfers

\* A cached URL is that of a ticket for its transfer.
URLsOK ==
  \A t \in DOMAIN urls :
    /\ t \in Transfers /\ urls[t].id = t
    /\ urls[t].dev \in Joined
    /\ urls[t].boot \in Nat /\ urls[t].boot <= boot
    /\ urls[t].age \in Nat

\* The hub has the tickets of those URLs that it has issued to the device it
\* still knows since it was started.
TicketsOK ==
  \A t \in DOMAIN urls : urls[t].dev = member /\ urls[t].boot = boot => urls[t] \in tickets

PanelInv == DevicesOK /\ URLsOK /\ TicketsOK

\* remove_device drops the device's tickets with it, so no URL is honoured any more
\* and none is expected to be.
LEMMA RemovalStep ==
  ASSUME PanelInv, member # NoDevice, RemoveMember, me' \in {me, NoDevice},
         UNCHANGED <<joins, urls, calls>>
  PROVE  PanelInv'
<1>1. member' = NoDevice /\ boot' = boot
  BY DEF RemoveMember
<1>2. DevicesOK'
  BY <1>1 DEF PanelInv, DevicesOK, Joined
<1>3. URLsOK'
  BY <1>1 DEF PanelInv, URLsOK, Joined
<1>4. NoDevice \notin Joined
  BY DEF PanelInv, DevicesOK, Joined
<1>5. TicketsOK'
  BY <1>1, <1>4 DEF PanelInv, URLsOK, TicketsOK
<1> QED BY <1>2, <1>3, <1>5 DEF PanelInv

\* A ticket grows older in the hub and, with its URL, on the page.
LEMMA AgeStep ==
  ASSUME PanelInv, NEW t \in Transfers, NEW age \in 0..1, Age(t, age)
  PROVE  PanelInv'
<1> DEFINE Older(ticket) ==
      IF ticket.id = t /\ ticket.age \in age..1 THEN [ticket EXCEPT !.age = @ + 1] ELSE ticket
<1>1. /\ t \in DOMAIN urls
      /\ tickets' = {Older(ticket) : ticket \in tickets}
      /\ urls' = [urls EXCEPT ![t] = Older(urls[t])]
      /\ UNCHANGED <<member, boot, me, joins, calls>>
  BY DEF Age
<1>2. DOMAIN urls' = DOMAIN urls
  BY <1>1
<1>3. ASSUME NEW s \in DOMAIN urls
      PROVE  urls'[s] = Older(urls[s])
  <2>1. CASE s = t
    BY <1>1, <2>1, Zenon
  <2>2. CASE s # t
    <3>1. urls'[s] = urls[s]
      BY <1>1, <2>2, Zenon
    <3>2. urls[s].id # t
      BY <2>2 DEF PanelInv, URLsOK
    <3> QED BY <3>1, <3>2
  <2> QED BY <2>1, <2>2
<1>4. ASSUME NEW s \in DOMAIN urls
      PROVE  LET old == urls[s]
                 new == Older(urls[s])
             IN  /\ new.id = old.id /\ new.dev = old.dev /\ new.boot = old.boot
                 /\ old.age \in Nat => new.age \in Nat
  OBVIOUS
<1> HIDE DEF Older
<1>5. URLsOK'
  <2> SUFFICES ASSUME NEW s \in DOMAIN urls
               PROVE  /\ s \in Transfers /\ urls'[s].id = s /\ urls'[s].dev \in Joined
                      /\ urls'[s].boot \in Nat /\ urls'[s].boot <= boot
                      /\ urls'[s].age \in Nat
    BY <1>1, <1>2 DEF URLsOK, Joined
  <2>1. /\ s \in Transfers /\ urls[s].id = s /\ urls[s].dev \in Joined
        /\ urls[s].boot \in Nat /\ urls[s].boot <= boot /\ urls[s].age \in Nat
    BY DEF PanelInv, URLsOK
  <2>2. /\ Older(urls[s]).id = urls[s].id /\ Older(urls[s]).dev = urls[s].dev
        /\ Older(urls[s]).boot = urls[s].boot
        /\ urls[s].age \in Nat => Older(urls[s]).age \in Nat
    BY <1>4
  <2> QED BY <1>3, <2>1, <2>2
<1>6. TicketsOK'
  <2> SUFFICES ASSUME NEW s \in DOMAIN urls, urls'[s].dev = member, urls'[s].boot = boot
               PROVE  urls'[s] \in tickets'
    BY <1>1, <1>2 DEF TicketsOK
  <2>0. Older(urls[s]).dev = urls[s].dev /\ Older(urls[s]).boot = urls[s].boot
    BY <1>4
  <2>1. urls[s] \in tickets
    BY <1>3, <2>0 DEF PanelInv, TicketsOK
  <2> QED BY <1>1, <1>3, <2>1
<1>7. DevicesOK'
  BY <1>1 DEF PanelInv, DevicesOK, Joined
<1> QED BY <1>5, <1>6, <1>7 DEF PanelInv

LEMMA IssueStep ==
  ASSUME PanelInv, NEW c \in calls, IssueTicket(c)
  PROVE  PanelInv'
<1>1. UNCHANGED <<member, boot, me, joins>> /\ calls' \subseteq calls
  BY DEF IssueTicket
<1>2. DevicesOK'
  BY <1>1 DEF PanelInv, DevicesOK, Joined
<1>3. CASE UNCHANGED <<tickets, urls>>
  BY <1>1, <1>2, <1>3 DEF PanelInv, URLsOK, TicketsOK, Joined
<1>4. CASE ~UNCHANGED <<tickets, urls>>
  <2> DEFINE new == Ticket(c.id, c.dev)
  <2>1. /\ tickets' = tickets \cup {new}
        /\ urls' = [t \in DOMAIN urls \cup {c.id} |-> IF t = c.id THEN new ELSE urls[t]]
    BY <1>4 DEF IssueTicket
  <2>2. new.id = c.id /\ new.dev \in Joined /\ new.boot = boot /\ boot \in Nat
        /\ new.age \in Nat /\ c.id \in Transfers
    BY DEF Ticket, PanelInv, DevicesOK
  <2> HIDE DEF new
  <2>3. \A t \in DOMAIN urls' : \/ t = c.id /\ urls'[t] = new
                                \/ t \in DOMAIN urls /\ urls'[t] = urls[t]
    BY <2>1
  <2>4. URLsOK'
    BY <1>1, <2>2, <2>3 DEF PanelInv, URLsOK, Joined
  <2>5. TicketsOK'
    BY <1>1, <2>1, <2>3 DEF PanelInv, TicketsOK
  <2> QED BY <1>2, <2>4, <2>5 DEF PanelInv
<1> QED BY <1>3, <1>4

LEMMA PanelInvariance == Spec => []PanelInv
<1>1. Init => PanelInv
  BY DEF Init, PanelInv, DevicesOK, URLsOK, TicketsOK, Joined
<1>2. PanelInv /\ [Next]_vars => PanelInv'
  <2> SUFFICES ASSUME PanelInv, [Next]_vars PROVE PanelInv'
    OBVIOUS
  <2>1. ASSUME UNCHANGED <<member, tickets, boot, joins, urls>>,
               me' \in {me, NoDevice},
               \A c \in calls' : c \in calls \/ (me # NoDevice /\ c.dev = me /\ c.id \in Transfers)
        PROVE  PanelInv'
    BY <2>1 DEF PanelInv, DevicesOK, URLsOK, TicketsOK, Joined
  <2>2. CASE Join
    <3>1. /\ joins' = joins + 1 /\ me' = joins' /\ member' = joins' /\ joins < MaxJoins
          /\ UNCHANGED <<tickets, boot, urls, calls>>
      BY <2>2 DEF Join
    <3>2. joins' \in Nat /\ joins' <= MaxJoins /\ \A d \in Joined : d \in Joined' /\ d # joins'
      BY <3>1 DEF PanelInv, DevicesOK, Joined
    <3>3. DevicesOK'
      BY <3>1, <3>2 DEF PanelInv, DevicesOK, Joined
    <3>4. URLsOK'
      BY <3>1, <3>2 DEF PanelInv, URLsOK
    <3>5. TicketsOK'
      BY <3>1, <3>2 DEF PanelInv, URLsOK, TicketsOK
    <3> QED BY <3>3, <3>4, <3>5 DEF PanelInv
  <2>3. CASE Leave
    BY <2>3, RemovalStep DEF Leave
  <2>4. CASE Removed
    BY <2>4, RemovalStep DEF Removed, page
  <2>5. CASE Restart
    <3>1. boot' = boot + 1 /\ UNCHANGED <<member, me, joins, urls, calls>>
      BY <2>5 DEF Restart, page
    <3>2. DevicesOK'
      BY <3>1 DEF PanelInv, DevicesOK, Joined
    <3>3. URLsOK'
      BY <3>1 DEF PanelInv, DevicesOK, URLsOK, Joined
    <3>4. TicketsOK'
      BY <3>1 DEF PanelInv, DevicesOK, URLsOK, TicketsOK
    <3> QED BY <3>2, <3>3, <3>4 DEF PanelInv
  <2>6. CASE Arrive \/ Fetch \/ FetchConfig \/ SessionEnds
    <3>1. /\ UNCHANGED <<member, tickets, boot, joins, urls>>
          /\ me' \in {me, NoDevice} /\ calls' = calls
      BY <2>6 DEF Arrive, Fetch, FetchConfig, SessionEnds, hub, page
    <3> QED BY <2>1, <3>1
  <2>7. ASSUME NEW t \in Transfers, OtherReviews(t) \/ Expire(t) \/ Vanish(t)
        PROVE  PanelInv'
    <3>1. UNCHANGED <<member, tickets, boot, page>>
      BY <2>7 DEF OtherReviews, Expire, Vanish
    <3> QED BY <2>1, <3>1 DEF page
  <2>8. ASSUME NEW t \in Transfers, Click(t) \/ QueryTicket(t)
        PROVE  PanelInv'
    <3>1. me # NoDevice /\ \E op : \E s \in Transfers : Call(op, s)
      BY <2>8 DEF Click, QueryTicket, NeedsTicket, Transfers
    <3>2. \A c \in calls' : c \in calls \/ (c.dev = me /\ c.id \in Transfers)
      BY <3>1 DEF Call
    <3> QED BY <2>1, <3>1, <3>2 DEF Call, hub
  <2>9. ASSUME NEW t \in Transfers, NEW age \in 0..1, Age(t, age) PROVE PanelInv'
    BY <2>9, AgeStep
  <2>10. ASSUME NEW c \in calls, Unauthorized(c) \/ Change(c) PROVE PanelInv'
    <3>1. /\ UNCHANGED <<member, tickets, boot, joins, urls>>
          /\ me' \in {me, NoDevice} /\ calls' \subseteq calls
      BY <2>10 DEF Unauthorized, Change, hub
    <3> QED BY <2>1, <3>1
  <2>11. ASSUME NEW c \in calls, IssueTicket(c) PROVE PanelInv'
    BY <2>11, IssueStep
  <2>12. CASE UNCHANGED vars
    <3>1. UNCHANGED <<member, tickets, boot, joins, urls, me, calls>>
      BY <2>12 DEF vars, hub, page
    <3> QED BY <2>1, <3>1
  <2> QED
    BY <2>2, <2>3, <2>4, <2>5, <2>6, <2>7, <2>8, <2>9, <2>10, <2>11, <2>12 DEF Next
<1> QED BY <1>1, <1>2, PTL DEF Spec

\* The download URL that a preview or an audio player (TransferList.tsx) uses without
\* asking for a new ticket is answered with the file, unless the page has joined
\* again or the hub has started again since it got the ticket.
THEOREM PreviewsAreHonoured == Spec => []PreviewsWork
<1>1. PanelInv => PreviewsWork
  <2> SUFFICES ASSUME PanelInv, NEW t \in DOMAIN urls,
                      IsCurrent(t), IsTransferDownloadable(t), ~NeedsTicket(t),
                      list[t].kind # "file", urls[t].dev = me, urls[t].boot = boot
               PROVE  Honours(urls[t])
    BY DEF PreviewsWork
  <2>1. urls[t] \in tickets /\ urls[t].id = t /\ urls[t].dev = member
        /\ urls[t].age \in Nat /\ t \in Transfers
    BY DEF IsCurrent, PanelInv, URLsOK, TicketsOK
  <2>2. rows[t].status \in {Available, Accepted} /\ t \notin expired /\ CanView(rows[t], me, host)
    BY DEF IsCurrent, IsTransferDownloadable
  <2>3. ~(urls[t].age > 0)
    BY DEF IsCurrent, NeedsTicket
  <2>4. t \in InHub /\ CanDownload(rows[t], me, host, t \in expired)
    BY <2>1, <2>2 DEF IsCurrent, InHub, CanDownload, Statuses
  <2>5. me = member /\ urls[t].age < 2
    BY <2>1, <2>3 DEF IsCurrent
  <2> QED BY <2>1, <2>4, <2>5 DEF Honours
<1> QED BY <1>1, PanelInvariance, PTL

(***************************************************************************)
(* What a row offers                                                       *)
(***************************************************************************)
\* The page and the hub decide alike (canCurrentDeviceReviewTransfer and the other
\* checks of TransferList.tsx, transfer_policy.rs), whatever the row, the devices
\* and the time: a row that is up to date offers exactly what the hub would do.
THEOREM RowsOfferWhatTheHubDoes == Spec => []OffersMatchPolicy
<1>1. OffersMatchPolicy
  BY DEF OffersMatchPolicy, IsCurrent, CanReviewTransfer, CanReview, IsTransferDownloadable,
         CanDownload, CanDeleteTransfer, CanDelete
<1> QED BY <1>1, PTL

(***************************************************************************)
(* The pages of the list                                                   *)
(***************************************************************************)
\* A transfer is as far down the list as there are transfers before it, and no two
\* are equally far down: of n transfers, as many are displayed as the limit says.
LEMMA DisplayedSize ==
  ASSUME NEW matching \in SUBSET Nat, IsFiniteSet(matching), NEW mode, NEW limit \in Nat
  PROVE  LET shown == Displayed(matching, mode, limit) IN
         IsFiniteSet(shown) /\ Cardinality(shown) = Smaller(limit, Cardinality(matching))
<1> DEFINE Ahead(t) == {s \in matching : Before(s, t, mode)}
<1>1. PICK n \in Nat : n = Cardinality(matching)
  BY FS_CardinalityType
<1>2. PICK rank : rank = [t \in matching |-> Cardinality(Ahead(t))]
  OBVIOUS
<1>3. ASSUME NEW t \in matching
      PROVE  IsFiniteSet(Ahead(t)) /\ rank[t] \in 0..n - 1
  <2>1. Ahead(t) \subseteq matching \ {t}
    BY DEF Before
  <2>2. IsFiniteSet(matching \ {t}) /\ Cardinality(matching \ {t}) = n - 1
    BY <1>1, FS_RemoveElement
  <2>3. /\ IsFiniteSet(Ahead(t)) /\ Cardinality(Ahead(t)) \in Nat
        /\ Cardinality(Ahead(t)) <= n - 1
    <3> HIDE DEF Ahead
    <3> QED BY <2>1, <2>2, FS_Subset, FS_CardinalityType
  <2>4. rank[t] = Cardinality(Ahead(t))
    BY <1>2
  <2> QED BY <1>1, <2>3, <2>4
<1>4. ASSUME NEW s \in matching, NEW t \in matching, Before(s, t, mode)
      PROVE  rank[s] < rank[t]
  <2>1. Ahead(s) \cup {s} \subseteq Ahead(t) /\ s \notin Ahead(s)
    <3>1. \A r \in matching : Before(r, s, mode) => Before(r, t, mode)
      BY <1>4 DEF Before
    <3>2. ~Before(s, s, mode)
      BY DEF Before
    <3> QED BY <1>4, <3>1, <3>2
  <2>2. /\ IsFiniteSet(Ahead(s)) /\ IsFiniteSet(Ahead(t))
        /\ rank[s] \in Nat /\ rank[t] \in Nat
    BY <1>3
  <2>3. rank[s] = Cardinality(Ahead(s)) /\ rank[t] = Cardinality(Ahead(t))
    BY <1>2
  <2> HIDE DEF Ahead
  <2>4. Cardinality(Ahead(s) \cup {s}) = Cardinality(Ahead(s)) + 1
    BY <2>1, <2>2, FS_AddElement
  <2>5. Cardinality(Ahead(s) \cup {s}) <= Cardinality(Ahead(t))
    BY <2>1, <2>2, FS_Subset
  <2> QED BY <2>2, <2>3, <2>4, <2>5
<1> HIDE DEF Ahead
<1>5. ASSUME NEW s \in matching, NEW t \in matching, s # t
      PROVE  rank[s] # rank[t]
  <2>1. Before(s, t, mode) \/ Before(t, s, mode)
    BY <1>5 DEF Before
  <2>2. rank[s] \in Nat /\ rank[t] \in Nat
    BY <1>3
  <2> QED BY <1>4, <2>1, <2>2
<1>6. \A k \in 0..n - 1 : \E t \in matching : rank[t] = k
  <2>1. rank \in Injection(matching, 0..n - 1)
    BY <1>2, <1>3, <1>5 DEF Injection, IsInjective
  <2>2. IsFiniteSet(0..n - 1) /\ Cardinality(0..n - 1) = n
    BY FS_Interval
  <2>3. rank \in Surjection(matching, 0..n - 1)
    BY <1>1, <2>1, <2>2, FS_Injection
  <2> QED BY <2>3 DEF Surjection
<1>7. PICK shown : shown = Displayed(matching, mode, limit)
  OBVIOUS
<1>8. shown = {t \in matching : rank[t] < limit}
  BY <1>2, <1>7 DEF Displayed, Ahead
<1>9. IsFiniteSet(shown)
  BY <1>8, FS_Subset
<1>10. PICK k \in Nat : k = Smaller(limit, n)
  BY DEF Smaller
<1>11. [t \in shown |-> rank[t]] \in Bijection(shown, 0..k - 1)
  <2>1. \A t \in shown : rank[t] \in 0..k - 1
    BY <1>3, <1>8, <1>10 DEF Smaller
  <2>2. \A j \in 0..k - 1 : \E t \in shown : rank[t] = j
    BY <1>6, <1>8, <1>10 DEF Smaller
  <2>3. \A s, t \in shown : s # t => rank[s] # rank[t]
    BY <1>5, <1>8
  <2> QED BY <2>1, <2>2, <2>3 DEF Bijection, Injection, IsInjective, Surjection
<1>12. Cardinality(shown) = k
  <2>1. IsFiniteSet(0..k - 1) /\ Cardinality(0..k - 1) = k
    BY FS_Interval
  <2>2. ExistsBijection(shown, 0..k - 1)
    BY <1>11 DEF ExistsBijection
  <2> QED BY <1>9, <2>1, <2>2, FS_Bijection
<1> QED BY <1>1, <1>7, <1>9, <1>10, <1>12

\* "Show more" adds as many rows as it says, and says at least one.
LEMMA ShowMore == ShowMoreKeepsPromise
<1> SUFFICES ASSUME NEW matching \in SUBSET (1..MaxListed), NEW mode \in SortModes,
                    NEW limit \in PageSize..MaxListed, Remaining(matching, mode, limit) > 0
             PROVE  LET now == Displayed(matching, mode, limit)
                        next == Displayed(matching, mode, NextLimit(matching, limit))
                    IN  /\ now \subseteq next
                        /\ Cardinality(next \ now) = NextTransferCount(matching, mode, limit)
                        /\ NextTransferCount(matching, mode, limit) > 0
  BY DEF ShowMoreKeepsPromise
<1>1. matching \in SUBSET Nat /\ IsFiniteSet(matching)
  <2>1. IsFiniteSet(1..MaxListed)
    BY FS_Interval
  <2>2. matching \in SUBSET Nat
    OBVIOUS
  <2>3. IsFiniteSet(matching)
    BY <2>1, FS_Subset
  <2> QED BY <2>2, <2>3
<1>2. PICK n \in Nat : n = Cardinality(matching)
  BY <1>1, FS_CardinalityType
<1>3. PICK more \in Nat : more = NextLimit(matching, limit)
  BY <1>2 DEF NextLimit, Smaller
<1>4. PICK now, next : /\ now = Displayed(matching, mode, limit)
                       /\ next = Displayed(matching, mode, more)
  OBVIOUS
<1>5. /\ IsFiniteSet(now) /\ Cardinality(now) = Smaller(limit, n)
      /\ IsFiniteSet(next) /\ Cardinality(next) = Smaller(more, n)
  BY <1>1, <1>2, <1>4, DisplayedSize
<1>6. Remaining(matching, mode, limit) = n - Smaller(limit, n)
  BY <1>2, <1>4, <1>5 DEF Remaining
<1>7. limit < n /\ limit < more /\ more <= n /\ more = Smaller(limit + PageSize, n)
  BY <1>2, <1>3, <1>6 DEF NextLimit, Smaller
<1>8. now \subseteq next
  <2>1. ASSUME NEW t \in now PROVE t \in next
    <3>1. PICK ahead : ahead = {s \in matching : Before(s, t, mode)}
      OBVIOUS
    <3>2. IsFiniteSet(ahead) /\ Cardinality(ahead) \in Nat
      BY <1>1, <3>1, FS_Subset, FS_CardinalityType
    <3>3. t \in matching /\ Cardinality(ahead) < limit
      BY <1>4, <3>1 DEF Displayed
    <3>4. Cardinality(ahead) < more
      BY <1>7, <3>2, <3>3
    <3> QED BY <1>4, <3>1, <3>3, <3>4 DEF Displayed
  <2> QED BY <2>1
<1>9. Cardinality(next \ now) = more - limit
  <2>1. now \cap (next \ now) = {} /\ now \cup (next \ now) = next
    BY <1>8
  <2>2. IsFiniteSet(next \ now) /\ Cardinality(next \ now) \in Nat
    BY <1>5, FS_Subset, FS_CardinalityType
  <2>3. Cardinality(next) = Cardinality(now) + Cardinality(next \ now) - 0
    BY <1>5, <2>1, <2>2, FS_Union, FS_EmptySet
  <2>4. Cardinality(now) = limit /\ Cardinality(next) = more
    BY <1>5, <1>7 DEF Smaller
  <2> QED BY <2>2, <2>3, <2>4
<1>10. NextTransferCount(matching, mode, limit) = more - limit
  BY <1>6, <1>7 DEF NextTransferCount, Smaller
<1> QED BY <1>3, <1>4, <1>7, <1>8, <1>9, <1>10

(***************************************************************************)
(* The statuses and types of the list                                      *)
(***************************************************************************)
IsRow(r) ==
  /\ r = [sender |-> r.sender, target |-> r.target, status |-> r.status, kind |-> r.kind]
  /\ r.kind \in PreviewTypes

RowsOK(table) == DOMAIN table = Transfers /\ \A t \in Transfers : IsRow(table[t])

\* What is listed was a transfer of the hub when it was fetched.
ListOK == \A t \in DOMAIN list : list[t].status \in Statuses /\ list[t].kind \in PreviewTypes

ListInv == RowsOK(rows) /\ ListOK

\* A status that is set, and a sender that is gone, leave a row a row.
LEMMA RowChanged ==
  ASSUME NEW r, IsRow(r), NEW status
  PROVE  IsRow([r EXCEPT !.status = status]) /\ IsRow([r EXCEPT !.sender = status])
<1>1. PICK u, v : u = [r EXCEPT !.status = status] /\ v = [r EXCEPT !.sender = status]
  OBVIOUS
<1>2. IsRow(u)
  BY <1>1 DEF IsRow
<1>3. IsRow(v)
  BY <1>1 DEF IsRow
<1> QED BY <1>1, <1>2, <1>3

LEMMA RowSet ==
  ASSUME RowsOK(rows), NEW t \in Transfers, NEW status
  PROVE  RowsOK([rows EXCEPT ![t].status = status])
<1>1. PICK r, table : /\ r = [rows[t] EXCEPT !.status = status]
                      /\ table = [rows EXCEPT ![t] = r]
  OBVIOUS
<1>2. IsRow(r)
  BY <1>1, RowChanged DEF RowsOK
<1>3. table = [rows EXCEPT ![t].status = status]
  BY <1>1
<1>4. RowsOK(table)
  BY <1>1, <1>2 DEF RowsOK
<1> QED BY <1>3, <1>4

LEMMA RowsWithout ==
  ASSUME RowsOK(rows), NEW gone
  PROVE  RowsOK(Without(gone))
BY RowChanged DEF RowsOK, Without

LEMMA RemovalRows ==
  ASSUME RowsOK(rows), RemoveMember
  PROVE  RowsOK(rows')
<1>1. rows' = [t \in Transfers |->
                 IF t \in InHub /\ rows[t].target = member THEN [rows[t] EXCEPT !.status = "gone"]
                 ELSE IF rows[t].sender = member THEN [rows[t] EXCEPT !.sender = NoDevice]
                 ELSE rows[t]]
  BY DEF RemoveMember
<1> QED BY <1>1, RowChanged DEF RowsOK

LEMMA ArriveRows ==
  ASSUME RowsOK(rows), Arrive
  PROVE  RowsOK(rows')
<1>1. PICK t \in Transfers :
        \E e \in [sender : {Other, member} \ {NoDevice}, target : {NoDevice, Other, member},
                  status : {Available, Pending}, kind : Kinds] : rows' = [rows EXCEPT ![t] = e]
  BY DEF Arrive
<1>2. PICK e \in [sender : {Other, member} \ {NoDevice}, target : {NoDevice, Other, member},
                  status : {Available, Pending}, kind : Kinds] : rows' = [rows EXCEPT ![t] = e]
  BY <1>1
<1>3. IsRow(e)
  BY DEF IsRow
<1> QED BY <1>2, <1>3 DEF RowsOK

LEMMA ListInvNext == PanelInv /\ ListInv /\ [Next]_vars => ListInv'
<1> SUFFICES ASSUME PanelInv, ListInv, [Next]_vars PROVE ListInv'
  OBVIOUS
<1>1. RowsOK(rows) /\ ListOK
  BY DEF ListInv
<1>2. ASSUME RowsOK(rows'), UNCHANGED list PROVE ListInv'
  BY <1>1, <1>2 DEF ListInv, ListOK
<1>3. CASE Arrive
  BY <1>1, <1>2, <1>3, ArriveRows DEF Arrive, page
<1>4. CASE Removed
  BY <1>1, <1>2, <1>4, RemovalRows DEF Removed, page
<1>5. CASE Leave
  <2>1. RowsOK(rows') /\ list' = <<>>
    BY <1>1, <1>5, RemovalRows DEF Leave
  <2> QED BY <2>1 DEF ListInv, ListOK
<1>6. CASE Fetch
  <2>1. rows' = rows
    BY <1>6 DEF Fetch, hub
  <2>2. \A t \in DOMAIN list' : t \in InHub /\ list'[t] = rows[t]
    BY <1>6 DEF Fetch
  <2>3. ListOK'
    BY <1>1, <2>2 DEF ListOK, InHub, RowsOK, IsRow
  <2> QED BY <1>1, <2>1, <2>3 DEF ListInv
<1>7. ASSUME NEW t \in Transfers, OtherReviews(t) PROVE ListInv'
  <2>1. PICK status : rows' = [rows EXCEPT ![t].status = status]
    BY <1>7 DEF OtherReviews
  <2>2. RowsOK(rows')
    BY <1>1, <2>1, RowSet
  <2> QED BY <1>2, <1>7, <2>2 DEF OtherReviews, page
<1>8. ASSUME NEW t \in Transfers, Vanish(t) PROVE ListInv'
  BY <1>1, <1>2, <1>8, RowsWithout DEF Vanish, page
<1>9. ASSUME NEW c \in calls, Change(c) PROVE ListInv'
  <2>1. c.id \in Transfers
    BY DEF PanelInv, DevicesOK
  <2>2. \/ rows' = rows \/ (\E gone : rows' = Without(gone))
        \/ \E status : rows' = [rows EXCEPT ![c.id].status = status]
    BY <1>9 DEF Change
  <2>3. RowsOK(rows')
    <3>1. ASSUME NEW gone, rows' = Without(gone) PROVE RowsOK(rows')
      BY <1>1, <3>1, RowsWithout
    <3>2. ASSUME NEW status, rows' = [rows EXCEPT ![c.id].status = status]
          PROVE  RowsOK(rows')
      <4>1. PICK t \in Transfers : t = c.id
        BY <2>1
      <4> QED BY <1>1, <3>2, <4>1, RowSet
    <3> QED BY <1>1, <2>2, <3>1, <3>2
  <2> QED BY <1>2, <1>9, <2>3 DEF Change
<1>10. CASE UNCHANGED <<rows, list>>
  BY <1>1, <1>2, <1>10
<1>11. CASE \/ Restart \/ Join \/ SessionEnds \/ FetchConfig \/ UNCHANGED vars
            \/ \E t \in Transfers : \/ Expire(t) \/ Click(t) \/ QueryTicket(t)
                                    \/ \E age \in 0..1 : Age(t, age)
            \/ \E c \in calls : Unauthorized(c) \/ IssueTicket(c)
  BY <1>10, <1>11 DEF Restart, Join, SessionEnds, FetchConfig, Expire, Click, QueryTicket,
                      Call, Age, Unauthorized, IssueTicket, vars, hub, page
<1> QED BY <1>3, <1>4, <1>5, <1>6, <1>7, <1>8, <1>9, <1>11 DEF Next

\* One status and one type find a listed transfer.
LEMMA OneFilterEach ==
  ASSUME NEW t \in DOMAIN list, list[t].status \in Statuses, list[t].kind \in PreviewTypes
  PROVE  /\ Cardinality({s \in StatusFilters : t \in Filtered(s)}) = 1
         /\ Cardinality({p \in PreviewTypes : t \in Filtered(p)}) = 1
<1>1. /\ "expired" \notin Statuses /\ "all" \notin StatusFilters \cup PreviewTypes
      /\ StatusFilters \cap PreviewTypes = {}
  BY DEF StatusFilters, Statuses, PreviewTypes, Available, Pending, Accepted, Rejected
<1>2. {s \in StatusFilters : t \in Filtered(s)}
        = {IF t \in expired THEN "expired" ELSE list[t].status}
  BY <1>1 DEF Filtered, Matches, StatusFilters
<1>3. {p \in PreviewTypes : t \in Filtered(p)} = {list[t].kind}
  BY <1>1 DEF Filtered, Matches, StatusFilters
<1> QED BY <1>2, <1>3, FS_Singleton

\* Nothing that is listed is out of reach (filterTransfers, sortTransfers and
\* displayedTransfers of TransferList.tsx): one status and one type find it, and
\* "Show more" keeps its promise for a list of any length.
THEOREM EverythingCanBeReached == Spec => []AllCanBeReached
<1>1. Init => ListInv
  BY DEF Init, ListInv, ListOK, RowsOK, IsRow, Absent, PreviewTypes
<1>2. ListInv => AllCanBeReached
  BY ShowMore, OneFilterEach DEF ListInv, ListOK, AllCanBeReached
<1> QED BY <1>1, <1>2, PanelInvariance, ListInvNext, PTL DEF Spec
=============================================================================
