---------------------------- MODULE TransferPanel ----------------------------
(***************************************************************************)
(* The transfer list of one page (frontend/src/components/                 *)
(* TransferList.tsx) with the hub that serves it: what a row offers, the   *)
(* calls its buttons make, the download tickets behind previews and audio  *)
(* players, and the filters, order and paging of the list.                 *)
(*                                                                         *)
(* The list, the config and the ticket URLs are cached copies that stay    *)
(* as they are until they are fetched again; the row for a transfer is     *)
(* drawn with the time at which it is looked at.  The page's own devices   *)
(* are numbers, one for each time it joins.                                *)
(***************************************************************************)
EXTENDS TransferPolicy, Naturals, FiniteSets

CONSTANTS
  MaxTransfers, \* bound: how many transfers there ever are
  MaxJoins,     \* bound: how often the page joins
  MaxBoots,     \* bound: how often the hub starts
  Kinds,        \* bound: the preview types that occur, a subset of PreviewTypes
  PageSize,     \* initialTransferLimit: 3 on the desktop, else 5
  MaxListed     \* bound: how many transfers AllCanBeReached considers

PreviewTypes == {"image", "video", "audio", "file"}
Other == 0  \* every other device

ASSUME PanelAssumption ==
  /\ MaxTransfers \in Nat /\ MaxBoots \in Nat /\ PageSize \in Nat \ {0}
  /\ MaxListed \in Nat /\ MaxJoins \in Nat /\ NoDevice \notin 0..MaxJoins
  /\ Kinds \subseteq PreviewTypes

Transfers == 1..MaxTransfers
Mine == 1..MaxJoins

VARIABLES
  rows,      \* the hub's transfers
  expired,   \* those whose expires_at has passed
  member,    \* the page's device in AppState.devices
  host,      \* whether it is the host
  tickets,   \* AppState.download_tickets
  boot,      \* how often the hub has started
  me,        \* the page's stored session
  joins,     \* how often it has joined
  list,      \* the cached transfers
  knowsHost, \* the cached config's is_host_device
  urls,      \* the cached ticket URLs
  calls      \* the page's calls that are not answered

hub == <<rows, expired, member, host, tickets, boot>>
page == <<me, joins, list, knowsHost, urls, calls>>
vars == <<hub, page>>

Absent == [sender |-> NoDevice, target |-> NoDevice, status |-> "unborn", kind |-> "file"]
InHub == {t \in Transfers : rows[t].status \in Statuses}

\* A ticket and its URL: its age is 0 for less than 4 minutes (staleTime), 1 for
\* less than 5 (DOWNLOAD_TICKET_TTL_SECONDS), then 2; and the run of the hub.
Ticket(t, d) == [id |-> t, dev |-> d, age |-> 0, boot |-> boot]

Operations == {"accept", "reject", "remove", "removeAll", "ticket"}

Init ==
  /\ rows = [t \in Transfers |-> Absent] /\ expired = {}
  /\ member = NoDevice /\ host = FALSE /\ tickets = {} /\ boot = 1
  /\ me = NoDevice /\ joins = 0
  /\ list = <<>> /\ knowsHost = FALSE /\ urls = <<>> /\ calls = {}

(***************************************************************************)
(* What the list shows and offers                                          *)
(***************************************************************************)
IsTransferDownloadable(t) ==
  t \notin expired /\ list[t].status \in {Available, Accepted}

\* Mutant of CanReviewTransfer: whoever sees a pending transfer may review it.
CanReviewAnyPending(t) == t \notin expired /\ list[t].status = Pending

\* canCurrentDeviceReviewTransfer.
CanReviewTransfer(t) ==
  /\ t \notin expired
  /\ list[t].status = Pending
  /\ me # NoDevice /\ list[t].target = me

CanDeleteTransfer(t) == knowsHost \/ list[t].sender = me

CanDeleteAll == knowsHost /\ DOMAIN list # {}

StatusFilters == Statuses \cup {"expired"}
Filters == {"all"} \cup StatusFilters \cup PreviewTypes
SortModes == {"newest", "oldest"}

\* Mutant of Matches: a status is matched whether the transfer has expired or not.
MatchesStatus(t, filter) ==
  \/ filter = "all"
  \/ filter = "expired" /\ t \in expired
  \/ filter \in PreviewTypes /\ list[t].kind = filter
  \/ filter \in Statuses /\ list[t].status = filter

\* matchesTransferFilter.
Matches(t, filter) ==
  \/ filter = "all"
  \/ filter = "expired" /\ t \in expired
  \/ filter \in PreviewTypes /\ list[t].kind = filter
  \/ filter \in Statuses /\ t \notin expired /\ list[t].status = filter

\* filterTransfers, without the search, which restricts the list in the same way.
Filtered(filter) == {t \in DOMAIN list : Matches(t, filter)}

\* sortTransfers; a transfer's number stands for what it is sorted by.
Before(s, t, mode) == IF mode = "oldest" THEN s < t ELSE t < s

\* displayedTransfers of the matching ones, for a transferLimit.
Displayed(matching, mode, limit) ==
  {t \in matching : Cardinality({s \in matching : Before(s, t, mode)}) < limit}

Smaller(a, b) == IF a < b THEN a ELSE b

Remaining(matching, mode, limit) ==
  Cardinality(matching) - Cardinality(Displayed(matching, mode, limit))

\* The number on the "Show more" button, and the limit a click sets.
NextTransferCount(matching, mode, limit) == Smaller(PageSize, Remaining(matching, mode, limit))
NextLimit(matching, limit) == Smaller(limit + PageSize, Cardinality(matching))

(***************************************************************************)
(* The hub                                                                 *)
(***************************************************************************)
\* Somebody uploads a transfer.
Arrive ==
  \E t \in Transfers : \E e \in
      [sender : {Other, member} \ {NoDevice}, target : {NoDevice, Other, member},
       status : {Available, Pending}, kind : Kinds] :
    /\ rows[t] = Absent
    /\ \A s \in Transfers : s < t => rows[s] # Absent
    /\ e.status = Available <=> e.target = NoDevice
    /\ rows' = [rows EXCEPT ![t] = e]
    /\ UNCHANGED <<expired, member, host, tickets, boot, page>>

\* The target, another device, reviews one.
OtherReviews(t) ==
  /\ t \in InHub
  /\ CanReview(rows[t], Other, t \in expired)
  /\ \E status \in {Accepted, Rejected} : rows' = [rows EXCEPT ![t].status = status]
  /\ UNCHANGED <<expired, member, host, tickets, boot, page>>

Expire(t) ==
  /\ t \in InHub \ expired
  /\ expired' = expired \cup {t}
  /\ UNCHANGED <<rows, member, host, tickets, boot, page>>

Without(gone) == [t \in Transfers |-> IF t \in gone THEN [rows[t] EXCEPT !.status = "gone"] ELSE rows[t]]

\* Somebody else deletes it, or the cleanup does.
Vanish(t) ==
  /\ t \in InHub
  /\ rows' = Without({t})
  /\ UNCHANGED <<expired, member, host, tickets, boot, page>>

\* A ticket of transfer t grows older, and with it those issued before.
Age(t, age) ==
  LET Older(ticket) ==
        IF ticket.id = t /\ ticket.age \in age..1 THEN [ticket EXCEPT !.age = @ + 1] ELSE ticket
  IN
  /\ t \in DOMAIN urls /\ urls[t].age = age
  /\ tickets' = {Older(ticket) : ticket \in tickets}
  /\ urls' = [urls EXCEPT ![t] = Older(@)]
  /\ UNCHANGED <<rows, expired, member, host, boot, me, joins, list, knowsHost, calls>>

\* remove_device, or reset_host_identity: its transfers and tickets go.
RemoveMember ==
  /\ member' = NoDevice /\ host' = FALSE
  /\ rows' = [t \in Transfers |->
       IF t \in InHub /\ rows[t].target = member THEN [rows[t] EXCEPT !.status = "gone"]
       ELSE IF rows[t].sender = member THEN [rows[t] EXCEPT !.sender = NoDevice] ELSE rows[t]]
  /\ tickets' = {ticket \in tickets : ticket.dev # member}
  /\ UNCHANGED <<expired, boot>>

\* The host removes the device, or the den is reset.
Removed ==
  /\ member # NoDevice
  /\ RemoveMember
  /\ UNCHANGED page

\* The hub starts again; tickets are in its memory only.
Restart ==
  /\ boot < MaxBoots
  /\ boot' = boot + 1 /\ tickets' = {}
  /\ UNCHANGED <<rows, expired, member, host, page>>

\* download_requester and download_transfer: the URL is answered with the file.
Honours(ticket) ==
  /\ ticket \in tickets /\ ticket.age < 2 /\ ticket.dev = member
  /\ ticket.id \in InHub
  /\ CanDownload(rows[ticket.id], ticket.dev, host, ticket.id \in expired)

(***************************************************************************)
(* The page                                                                *)
(***************************************************************************)
\* The user joins; what another session has left in the caches is still there,
\* but the config, whose key has the device.
Join ==
  /\ me = NoDevice /\ member = NoDevice /\ joins < MaxJoins
  /\ joins' = joins + 1 /\ me' = joins' /\ member' = joins'
  /\ host' \in BOOLEAN
  /\ knowsHost' = FALSE
  /\ UNCHANGED <<rows, expired, tickets, boot, list, urls, calls>>

\* leaveMutation: the cached list is removed, the ticket URLs are not.
Leave ==
  /\ me # NoDevice /\ me = member /\ ~host
  /\ RemoveMember
  /\ me' = NoDevice /\ list' = <<>>
  /\ UNCHANGED <<joins, knowsHost, urls, calls>>

\* A call is answered with 401, or the live connection is refused: the session
\* is cleared and the caches are left.
SessionEnds ==
  /\ me # NoDevice /\ me # member
  /\ me' = NoDevice
  /\ UNCHANGED <<hub, joins, list, knowsHost, urls, calls>>

Fetch ==
  /\ me # NoDevice /\ me = member
  /\ list' = [t \in {s \in InHub : CanView(rows[s], me, host)} |-> rows[t]]
  /\ UNCHANGED <<hub, me, joins, knowsHost, urls, calls>>

FetchConfig ==
  /\ me # NoDevice /\ me = member
  /\ knowsHost' = host
  /\ UNCHANGED <<hub, me, joins, list, urls, calls>>

\* The operations of this mounted list that wait for an answer.
IsPending(ops) == \E c \in calls : c.dev = me /\ c.op \in ops

Call(op, t) ==
  /\ calls' = calls \cup {[op |-> op, id |-> t, dev |-> me]}
  /\ UNCHANGED <<hub, me, joins, list, knowsHost, urls>>

\* Accept and Reject, disabled while either waits; Delete; Delete all, which the
\* user confirms; each for what the cached list shows.
Click(t) ==
  /\ me # NoDevice /\ t \in DOMAIN list
  /\ \/ /\ CanReviewTransfer(t) /\ ~IsPending({"accept", "reject"})
        /\ \E op \in {"accept", "reject"} : Call(op, t)
     \/ CanDeleteTransfer(t) /\ ~IsPending({"remove"}) /\ Call("remove", t)
     \/ CanDeleteAll /\ ~IsPending({"removeAll"}) /\ Call("removeAll", 1)

\* Mutant of NeedsTicket: the URL is taken as fresh for longer than the ticket lives.
NeedsTicketLate(t) ==
  /\ me # NoDevice /\ t \in DOMAIN list
  /\ IsTransferDownloadable(t) /\ list[t].kind # "file"
  /\ t \in DOMAIN urls => urls[t].age > 2

\* The query of a preview or an audio player of the list: it asks for a ticket
\* if it has none or an old one.
NeedsTicket(t) ==
  /\ me # NoDevice /\ t \in DOMAIN list
  /\ IsTransferDownloadable(t) /\ list[t].kind # "file"
  /\ t \in DOMAIN urls => urls[t].age > 0

QueryTicket(t) == NeedsTicket(t) /\ ~IsPending({"ticket"}) /\ Call("ticket", t)

\* The hub refuses a device that is gone: the page's session is cleared, whichever
\* it is by now.
Unauthorized(c) ==
  /\ c.dev # member
  /\ me' = NoDevice /\ calls' = calls \ {c}
  /\ UNCHANGED <<hub, joins, list, knowsHost, urls>>

\* update_transfer_status, delete_transfer, delete_all_transfers, or 404 or 403.
Change(c) ==
  /\ c.op # "ticket" /\ c.dev = member
  /\ rows' =
       IF c.op = "removeAll" THEN IF host THEN Without(InHub) ELSE rows
       ELSE IF c.id \notin InHub THEN rows
       ELSE IF c.op = "remove"
         THEN IF CanDelete(rows[c.id], c.dev, host) THEN Without({c.id}) ELSE rows
       ELSE IF CanReview(rows[c.id], c.dev, c.id \in expired)
         THEN [rows EXCEPT ![c.id].status = IF c.op = "accept" THEN Accepted ELSE Rejected]
         ELSE rows
  /\ calls' = calls \ {c}
  /\ UNCHANGED <<expired, member, host, tickets, boot, me, joins, list, knowsHost, urls>>

\* create_transfer_download_ticket; the URL is cached under the transfer's id.
IssueTicket(c) ==
  /\ c.op = "ticket" /\ c.dev = member
  /\ IF c.id \in InHub /\ CanDownload(rows[c.id], c.dev, host, c.id \in expired)
       THEN /\ tickets' = tickets \cup {Ticket(c.id, c.dev)}
            /\ urls' = [t \in DOMAIN urls \cup {c.id} |->
                          IF t = c.id THEN Ticket(c.id, c.dev) ELSE urls[t]]
       ELSE UNCHANGED <<tickets, urls>>
  /\ calls' = calls \ {c}
  /\ UNCHANGED <<rows, expired, member, host, boot, me, joins, list, knowsHost>>

(***************************************************************************)
(* The specification                                                       *)
(***************************************************************************)
Next ==
  \/ Arrive \/ Removed \/ Restart \/ Join \/ Leave \/ SessionEnds \/ Fetch \/ FetchConfig
  \/ \E t \in Transfers :
       \/ OtherReviews(t) \/ Expire(t) \/ Vanish(t) \/ Click(t) \/ QueryTicket(t)
       \/ \E age \in 0..1 : Age(t, age)
  \/ \E c \in calls : Unauthorized(c) \/ Change(c) \/ IssueTicket(c)

Spec == Init /\ [][Next]_vars

(***************************************************************************)
(* Properties                                                              *)
(***************************************************************************)
\* The page shows t as the hub would list it now.
IsCurrent(t) ==
  /\ me # NoDevice /\ me = member
  /\ t \in DOMAIN list /\ list[t] = rows[t]
  /\ CanView(rows[t], me, host)

\* The page and the hub decide alike (TransferList.tsx and transfer_policy.rs):
\* a row that is up to date offers exactly what the hub would do.
OffersMatchPolicy ==
  \A t \in Transfers : IsCurrent(t) /\ knowsHost = host =>
    /\ CanReviewTransfer(t) <=> CanReview(rows[t], me, t \in expired)
    /\ IsTransferDownloadable(t) <=> CanDownload(rows[t], me, host, t \in expired)
    /\ CanDeleteTransfer(t) <=> CanDelete(rows[t], me, host)

\* A preview or player that need not ask for a new ticket works: its URL is
\* honoured, unless the page has joined again or the hub has started again since.
PreviewsWork ==
  \A t \in DOMAIN urls :
    (/\ IsCurrent(t) /\ IsTransferDownloadable(t) /\ ~NeedsTicket(t)
     /\ list[t].kind # "file"
     /\ urls[t].dev = me /\ urls[t].boot = boot) => Honours(urls[t])

ShowMoreKeepsPromise ==
  \A matching \in SUBSET (1..MaxListed), mode \in SortModes, limit \in PageSize..MaxListed :
    LET now == Displayed(matching, mode, limit)
        next == Displayed(matching, mode, NextLimit(matching, limit))
    IN  Remaining(matching, mode, limit) > 0 =>
          /\ now \subseteq next
          /\ Cardinality(next \ now) = NextTransferCount(matching, mode, limit)
          /\ NextTransferCount(matching, mode, limit) > 0

\* Nothing that is listed is out of reach: each transfer is under exactly one of
\* the statuses and one of the types, and "Show more" adds as many rows as it says
\* to those shown, until none remain, whatever was listed when the limit was set.
AllCanBeReached ==
  /\ ShowMoreKeepsPromise
  /\ \A t \in DOMAIN list :
       /\ Cardinality({s \in StatusFilters : t \in Filtered(s)}) = 1
       /\ Cardinality({p \in PreviewTypes : t \in Filtered(p)}) = 1
=============================================================================
