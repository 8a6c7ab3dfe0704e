------------------------------ MODULE AdminView ------------------------------
(***************************************************************************)
(* The portal's administration page (views/AdminView.vue): four lists,     *)
(* each with filters, pages and (but for the servers) a selection that     *)
(* outlives the page it was made on; batch operations behind a modal       *)
(* confirmation; detail drawers; and the address bar, which keeps the tab, *)
(* the pages and the filters for a reload.                                 *)
(*                                                                         *)
(* Everything awaits a request (`req`), so answers arrive in any order     *)
(* while the user goes on; others change the lists meanwhile.  What an     *)
(* answer starts up to the next await is one step: the browser runs no     *)
(* other event in between.                                                 *)
(***************************************************************************)
EXTENDS Naturals, Sequences, FiniteSets, Functions

CONSTANTS
  Kind,          \* the lists, of "users", "rooms", "servers", "matches"
  Item,          \* the ids of rows
  Some,          \* the items the filter "some" lets through
  Slot,          \* the requests that may be in flight at once
  PAGE_SIZE, CROSS_PAGE_SELECT_SIZE,
  Roles,         \* the roles the administrator may have
  Filters,       \* of "all" and "some"
  MaxTurns,      \* bound: how often, together, the page is opened again, its tab
                 \* or a filter is changed, and others change a list
  None

AllKinds == {"users", "rooms", "servers", "matches"}
Selectable == Kind \ {"servers"}
Detailed == Kind \cap {"users", "rooms"}

ASSUME AdminConstants ==
  /\ Kind \subseteq AllKinds /\ Kind # {}
  /\ IsFiniteSet(Item) /\ Item # {} /\ Some \subseteq Item /\ None \notin Item
  /\ PAGE_SIZE \in Nat \ {0} /\ CROSS_PAGE_SELECT_SIZE \in Nat \ {0}
  /\ Roles \subseteq {"viewer", "operator", "superadmin"}
  /\ "all" \in Filters /\ Filters \subseteq {"all", "some"}
  /\ MaxTurns \in Nat

VARIABLES
  role,      \* auth.adminRole
  tab,       \* activeTab
  list,      \* kind -> its page, filter, rows, total, flags, selection and table
  query,     \* the address bar
  dialog,    \* the confirmation that is open: its operation and ids
  detail,    \* kind -> its drawer
  req,       \* slot -> a request, from its sending to the handling of its answer
  db,        \* kind -> when each of the backend's rows was made, 0 if it has none
  turns,     \* how many of them there were
  consent    \* the ids that were selected when the open dialog was asked for

vars == <<role, tab, list, query, dialog, detail, req, db, turns, consent>>

Pages == 1 .. (Cardinality(Item) + PAGE_SIZE - 1) \div PAGE_SIZE

ListRecord ==
  [page : Pages, filter : Filters, rows : SUBSET Item, total : 0 .. Cardinality(Item),
   loading : BOOLEAN, selecting : BOOLEAN,
   selected : SUBSET Item,      \* selectedUserIds and its likes
   ticked : SUBSET Item]        \* the rows the table widget shows ticked

NewList == [page |-> 1, filter |-> "all", rows |-> {}, total |-> 0, loading |-> FALSE,
            selecting |-> FALSE, selected |-> {}, ticked |-> {}]

NoDialog == [op |-> "none", ids |-> {}]
ClosedDrawer == [open |-> FALSE, loading |-> FALSE, shown |-> None]
Idle == [what |-> "idle"]

-----------------------------------------------------------------------------
(* The selection and the table widget *)

\* mergeCurrentPageSelection: the rows on screen are as the table says, the
\* others as they were.
Merge(all, rows, checked) == (all \ rows) \cup checked

\* onUserSelectionChange and its likes: the handler of the table's event.
OnSelectionChange(L, checked) == [L EXCEPT !.selected = Merge(@, L.rows, checked)]

\* The table drops its ticks, and says so if it had any.
WidgetClear(L) ==
  IF L.ticked = {} THEN L ELSE OnSelectionChange([L EXCEPT !.ticked = {}], {})

WidgetTick(L, ids) ==
  IF ids = {} THEN L ELSE OnSelectionChange([L EXCEPT !.ticked = ids], ids)

\* applyUserSelectionToTable and its likes.
ApplySelection(L) ==
  LET cleared == WidgetClear(L) IN WidgetTick(cleared, cleared.rows \cap cleared.selected)

\* The table is given other rows, and drops the ticks of the old ones.
ShowRowsKeepingTicks(L, rows, total) == [L EXCEPT !.rows = rows, !.total = total]
ShowRows(L, rows, total) == WidgetClear([L EXCEPT !.rows = rows, !.total = total])

ClearSelection(L) == WidgetClear([L EXCEPT !.selected = {}])

\* selectUsersOnCurrentPage and its likes.
SelectPage(L) == ApplySelection([L EXCEPT !.selected = @ \cup L.rows])

-----------------------------------------------------------------------------
(* Requests *)

\* next: the lists that are loaded one after the other when this one is.
LoadRequest(k, page, filter, next) ==
  [what |-> "load", st |-> "sent", kind |-> k, page |-> page, filter |-> filter, next |-> next]

\* fresh (for the properties): neither list nor filter has changed since the
\* cross-page selection began.
SelectRequest(k, filter, offset, acc, fresh) ==
  [what |-> "select", st |-> "sent", kind |-> k, filter |-> filter, offset |-> offset,
   acc |-> acc, fresh |-> fresh]

ActRequest(op, ids) == [what |-> "act", st |-> "sent", op |-> op, ids |-> ids]
DetailRequest(k, i) == [what |-> "detail", st |-> "sent", kind |-> k, id |-> i]

Free(c) == req[c] = Idle
Turn == turns < MaxTurns /\ turns' = turns + 1
Loading(k) == \E c \in Slot : req[c].what = "load" /\ req[c].kind = k

\* The sending half of loadUsers and its likes.
Masked(ls, k, page) == [ls EXCEPT ![k].page = page, ![k].loading = TRUE]

StartLoad(c, ls, k, page, next) ==
  /\ list' = Masked(ls, k, page)
  /\ req' = [req EXCEPT ![c] = LoadRequest(k, page, ls[k].filter, next)]

\* syncRouteQuery and loadStateFromRouteQuery.
QueryOfTabOnly(t, ls) == [query EXCEPT !.tab = t, !.page[t] = ls[t].page]
QueryOf(t, ls) == [tab |-> t, page |-> [k \in Kind |-> ls[k].page],
                   filter |-> [k \in Kind |-> ls[k].filter]]

-----------------------------------------------------------------------------
(* What the user does on the page; a dialog or a drawer covers it *)

Uncovered == dialog = NoDialog /\ \A k \in Detailed : ~detail[k].open
At(k) == k \in Kind /\ tab = k /\ Uncovered

\* A change of one list and nothing else.
OnlyList(k, L) ==
  /\ list' = [list EXCEPT ![k] = L]
  /\ UNCHANGED <<role, tab, query, dialog, detail, req, db, turns, consent>>

LoadOnly(c, ls, k, page) ==
  /\ Free(c)
  /\ StartLoad(c, ls, k, page, <<>>)
  /\ UNCHANGED <<role, query, dialog, detail, db, turns, consent>>

\* The page is opened or reloaded: only the address bar survives.
Mount(c) ==
  /\ req' = [d \in Slot |-> IF d = c THEN LoadRequest(query.tab, query.page[query.tab],
                                                      query.filter[query.tab], <<>>)
                            ELSE Idle]
  /\ tab' = query.tab
  /\ list' = [k \in Kind |->
       [page |-> query.page[k], filter |-> query.filter[k], rows |-> {}, total |-> 0,
        loading |-> k = query.tab, selecting |-> FALSE, selected |-> {}, ticked |-> {}]]
  /\ dialog' = NoDialog
  /\ consent' = {}
  /\ detail' = [k \in Detailed |-> ClosedDrawer]
  /\ Turn
  /\ UNCHANGED <<role, query, db>>

HandleTabChange(c, k) ==
  /\ Uncovered /\ k # tab /\ Free(c)
  /\ Turn
  /\ tab' = k
  /\ StartLoad(c, list, k, list[k].page, <<>>)
  /\ UNCHANGED <<role, query, dialog, detail, db, consent>>

PageCountIsTotal(L) == IF L.total = 0 THEN 1 ELSE L.total
PageCount(L) == IF L.total = 0 THEN 1 ELSE (L.total + PAGE_SIZE - 1) \div PAGE_SIZE

\* The pager: a click, or its own correction of a page beyond the last.
HandlePageChange(c, k, p) ==
  /\ At(k) /\ p # list[k].page /\ p <= PageCount(list[k])
  /\ LoadOnly(c, list, k, p) /\ UNCHANGED tab

HandleUsersPageChange(c, p) == HandlePageChange(c, "users", p)
HandleRoomsPageChange(c, p) == HandlePageChange(c, "rooms", p)
HandleServersPageChange(c, p) == HandlePageChange(c, "servers", p)
HandleMatchesPageChange(c, p) == HandlePageChange(c, "matches", p)

Refresh(c, k) ==
  /\ At(k)
  /\ LoadOnly(c, [list EXCEPT ![k] = ClearSelection(@)], k, 1) /\ UNCHANGED tab

RefreshUsers(c) == Refresh(c, "users")
RefreshRooms(c) == Refresh(c, "rooms")
RefreshMatches(c) == Refresh(c, "matches")
RefreshServers(c) == At("servers") /\ LoadOnly(c, list, "servers", 1) /\ UNCHANGED tab

\* The filter takes effect with the next request.
EditFilter(k, f) ==
  /\ At(k) /\ list[k].filter # f
  /\ Turn
  /\ list' = [list EXCEPT ![k].filter = f]
  /\ req' = [c \in Slot |-> IF req[c].what = "select" /\ req[c].kind = k
                            THEN [req[c] EXCEPT !.fresh = FALSE] ELSE req[c]]
  /\ UNCHANGED <<role, tab, query, dialog, detail, db, consent>>

\* A checkbox of the table, which the loading mask covers.
TickRow(k, i) ==
  /\ At(k) /\ k \in Selectable /\ ~list[k].loading /\ i \in list[k].rows
  /\ LET ticks == IF i \in list[k].ticked THEN list[k].ticked \ {i} ELSE list[k].ticked \cup {i} IN
     OnlyList(k, OnSelectionChange([list[k] EXCEPT !.ticked = ticks], ticks))

SelectOnCurrentPage(k) ==
  /\ At(k) /\ k \in Selectable /\ ~list[k].loading /\ list[k].rows # {}
  /\ OnlyList(k, SelectPage(list[k]))

SelectUsersOnCurrentPage == SelectOnCurrentPage("users")
SelectRoomsOnCurrentPage == SelectOnCurrentPage("rooms")
SelectMatchesOnCurrentPage == SelectOnCurrentPage("matches")

ClearOf(k) ==
  /\ At(k) /\ k \in Selectable /\ list[k].selected # {}
  /\ OnlyList(k, ClearSelection(list[k]))

ClearUserSelection == ClearOf("users")
ClearRoomSelection == ClearOf("rooms")
ClearMatchSelection == ClearOf("matches")

\* selectAllFiltered*, up to its first request.
SelectAllFiltered(c, k) ==
  /\ At(k) /\ k \in Selectable /\ ~list[k].loading /\ ~list[k].selecting /\ Free(c)
  /\ list' = [list EXCEPT ![k].selecting = TRUE]
  /\ req' = [req EXCEPT ![c] = SelectRequest(k, list[k].filter, 0, {}, TRUE)]
  /\ UNCHANGED <<role, tab, query, dialog, detail, db, turns, consent>>

SelectAllFilteredUsers(c) == SelectAllFiltered(c, "users")
SelectAllFilteredRooms(c) == SelectAllFiltered(c, "rooms")
SelectAllFilteredMatches(c) == SelectAllFiltered(c, "matches")

OpenDetail(c, k, i) ==
  /\ At(k) /\ k \in Detailed /\ i \in list[k].rows /\ Free(c)
  /\ detail' = [detail EXCEPT ![k] = [open |-> TRUE, loading |-> TRUE, shown |-> None]]
  /\ req' = [req EXCEPT ![c] = DetailRequest(k, i)]
  /\ UNCHANGED <<role, tab, list, query, dialog, db, turns, consent>>

OpenUserDetail(c, i) == OpenDetail(c, "users", i)
OpenRoomDetail(c, i) == OpenDetail(c, "rooms", i)

CloseDrawer(k) ==
  /\ detail[k].open
  /\ detail' = [detail EXCEPT ![k].open = FALSE]
  /\ UNCHANGED <<role, tab, list, query, dialog, req, db, turns, consent>>

-----------------------------------------------------------------------------
(* Operations on the backend's rows *)

UserOps == {"saveUser", "usersStatus", "deleteUsers"}
RoomOps == {"endRoom", "endRooms", "deleteRooms"}
MatchOps == {"saveMatch", "deleteMatch", "deleteMatches"}

KindOf(op) == CASE op \in UserOps -> "users" [] op \in RoomOps -> "rooms" [] op \in MatchOps -> "matches"
Deletes == {"deleteUsers", "deleteRooms", "deleteMatch", "deleteMatches"}
Batch == {"usersStatus", "deleteUsers", "endRooms", "deleteRooms", "deleteMatches"}

\* requireSuperAdminPermission, requireOperatorPermission.
Permitted(op) ==
  IF op \in Deletes THEN role = "superadmin" ELSE role \in {"operator", "superadmin"}

\* A handler asks; what it was asked for is fixed now.
Ask(op, ids) ==
  /\ At(KindOf(op)) /\ Permitted(op) /\ ids # {}
  /\ dialog' = [op |-> op, ids |-> ids]
  /\ consent' = ids
  /\ UNCHANGED <<role, tab, list, query, detail, req, db, turns>>

HandleBatchUpdateUserStatus == "users" \in Kind /\ Ask("usersStatus", list["users"].selected)
HandleBatchDeleteUsers == "users" \in Kind /\ Ask("deleteUsers", list["users"].selected)
HandleBatchEndRooms == "rooms" \in Kind /\ Ask("endRooms", list["rooms"].selected)
HandleBatchDeleteRooms == "rooms" \in Kind /\ Ask("deleteRooms", list["rooms"].selected)
HandleBatchDeleteMatches == "matches" \in Kind /\ Ask("deleteMatches", list["matches"].selected)
HandleEndRoom == "rooms" \in Kind /\ \E i \in list["rooms"].rows : Ask("endRoom", {i})
HandleDeleteMatch == "matches" \in Kind /\ \E i \in list["matches"].rows : Ask("deleteMatch", {i})

\* The confirmation is given: the ids of the question are sent.
ReadAgain(d) == IF d.op \in Batch THEN list[KindOf(d.op)].selected ELSE d.ids
Asked(d) == d.ids

Confirm(c) ==
  /\ dialog # NoDialog /\ Free(c)
  /\ req' = [req EXCEPT ![c] = ActRequest(dialog.op, Asked(dialog))]
  /\ dialog' = NoDialog /\ consent' = {}
  /\ UNCHANGED <<role, tab, list, query, detail, db, turns>>

Cancel ==
  /\ dialog # NoDialog
  /\ dialog' = NoDialog /\ consent' = {}
  /\ UNCHANGED <<role, tab, list, query, detail, req, db, turns>>

\* A row whose status draft differs from its status is saved, unasked.
Save(c, op, i) ==
  /\ At(KindOf(op)) /\ Permitted(op) /\ i \in list[KindOf(op)].rows /\ Free(c)
  /\ req' = [req EXCEPT ![c] = ActRequest(op, {i})]
  /\ UNCHANGED <<role, tab, list, query, dialog, detail, db, turns, consent>>

SaveUserStatus(c, i) == Save(c, "saveUser", i)
SaveMatchStatus(c, i) == Save(c, "saveMatch", i)

-----------------------------------------------------------------------------
(* The backend *)

Hits(k, f) == {i \in Item : db[k][i] # 0 /\ (f = "all" \/ i \in Some)}
Newer(k, f, i) == {j \in Hits(k, f) : db[k][j] > db[k][i]}

\* The hits after the first `offset` of them, newest first.
PageOf(k, f, offset, limit) ==
  {i \in Hits(k, f) : LET rank == Cardinality(Newer(k, f, i)) IN
                      offset <= rank /\ rank < offset + limit}

Stale(k, rs) ==
  [c \in Slot |-> IF rs[c].what = "select" /\ rs[c].kind = k
                  THEN [rs[c] EXCEPT !.fresh = FALSE] ELSE rs[c]]

ServeLoad(c) ==
  /\ req[c].what = "load" /\ req[c].st = "sent"
  /\ LET r == req[c] IN
     req' = [req EXCEPT ![c] =
       [what |-> "load", st |-> "ok", kind |-> r.kind, next |-> r.next,
        total |-> Cardinality(Hits(r.kind, r.filter)),
        rows |-> PageOf(r.kind, r.filter, (r.page - 1) * PAGE_SIZE, PAGE_SIZE)]]
  /\ UNCHANGED <<role, tab, list, query, dialog, detail, db, turns, consent>>

ServeSelect(c) ==
  /\ req[c].what = "select" /\ req[c].st = "sent"
  /\ LET r == req[c] IN
     req' = [req EXCEPT ![c] =
       [what |-> "select", st |-> "ok", kind |-> r.kind, offset |-> r.offset, acc |-> r.acc,
        fresh |-> r.fresh,
        rows |-> PageOf(r.kind, r.filter, r.offset, CROSS_PAGE_SELECT_SIZE)]]
  /\ UNCHANGED <<role, tab, list, query, dialog, detail, db, turns, consent>>

\* What is done is done, whether or not the answer gets through.
ServeAct(c) ==
  /\ req[c].what = "act" /\ req[c].st = "sent"
  /\ LET k == KindOf(req[c].op) IN
     IF req[c].op \in Deletes
     THEN /\ db' = [db EXCEPT ![k] = [i \in Item |-> IF i \in req[c].ids THEN 0 ELSE @[i]]]
          /\ \E st \in {"ok", "failed"} : req' = Stale(k, [req EXCEPT ![c].st = st])
     ELSE /\ \E st \in {"ok", "failed"} : req' = [req EXCEPT ![c].st = st]
          /\ UNCHANGED db
  /\ UNCHANGED <<role, tab, list, query, dialog, detail, turns, consent>>

ServeDetail(c) ==
  /\ req[c].what = "detail" /\ req[c].st = "sent"
  /\ req' = [req EXCEPT ![c].st = "ok"]
  /\ UNCHANGED <<role, tab, list, query, dialog, detail, db, turns, consent>>

FailRequest(c) ==
  /\ ~Free(c) /\ req[c].st = "sent"
  /\ req' = [req EXCEPT ![c].st = "failed"]
  /\ UNCHANGED <<role, tab, list, query, dialog, detail, db, turns, consent>>

\* Others add a row, or remove one.
Churn(k) ==
  /\ Turn
  /\ \E i \in Item :
       db' = [db EXCEPT ![k][i] = IF @ = 0 THEN Cardinality(Item) + turns' ELSE 0]
  /\ req' = Stale(k, req)
  /\ UNCHANGED <<role, tab, list, query, dialog, detail, consent>>

-----------------------------------------------------------------------------
(* The page handles an answer *)

Done(c) == req' = [req EXCEPT ![c] = Idle]

UnmaskedIfAny(L) == IF L.rows = {} THEN L ELSE [L EXCEPT !.loading = FALSE]
Unmasked(L) == [L EXCEPT !.loading = FALSE]

\* loadUsers and its likes, after the request: the rows or none, the flag,
\* the address bar, and the next list of a chain.
AfterLoad(c, L) ==
  LET k == req[c].kind
      ls == [list EXCEPT ![k] = Unmasked(L)]
      next == req[c].next IN
  /\ query' = QueryOf(tab, ls)
  /\ \/ next = <<>> /\ list' = ls /\ Done(c)
     \/ next # <<>> /\ StartLoad(c, ls, Head(next), 1, Tail(next))
  /\ UNCHANGED <<role, tab, dialog, detail, db, turns, consent>>

LoadAnswered(c, k) ==
  /\ req[c].what = "load" /\ req[c].kind = k
  /\ \/ req[c].st = "ok" /\ AfterLoad(c, ApplySelection(ShowRows(list[k], req[c].rows, req[c].total)))
     \/ req[c].st = "failed" /\ AfterLoad(c, ShowRows(list[k], {}, 0))

LoadUsers(c) == LoadAnswered(c, "users")
LoadRooms(c) == LoadAnswered(c, "rooms")
LoadServers(c) == LoadAnswered(c, "servers")
LoadMatches(c) == LoadAnswered(c, "matches")

\* The loop of selectAllFiltered* goes on while full pages come, with the
\* filter as it then is.
LastPageGuessed(r) == Cardinality(r.rows) <= CROSS_PAGE_SELECT_SIZE
LastPage(r) == Cardinality(r.rows) < CROSS_PAGE_SELECT_SIZE

SelectAnswered(c) ==
  LET r == req[c]
      k == r.kind IN
  /\ r.what = "select" /\ r.st \in {"ok", "failed"}
  /\ \/ /\ r.st = "ok" /\ ~LastPage(r)
        /\ req' = [req EXCEPT ![c] = SelectRequest(k, list[k].filter, r.offset + Cardinality(r.rows),
                                                   r.acc \cup r.rows, r.fresh)]
        /\ UNCHANGED list
     \/ /\ r.st = "ok" /\ LastPage(r)
        /\ list' = [list EXCEPT ![k] =
             [ApplySelection([@ EXCEPT !.selected = r.acc \cup r.rows]) EXCEPT !.selecting = FALSE]]
        /\ Done(c)
     \/ /\ r.st = "failed"
        /\ list' = [list EXCEPT ![k].selecting = FALSE]
        /\ Done(c)
  /\ UNCHANGED <<role, tab, query, dialog, detail, db, turns, consent>>

\* A batch clears its selection, a deletion of users those of rooms and
\* matches too; then the list is loaded again, and after users the others.
ClearedBy(op) ==
  CASE op = "deleteUsers" -> Selectable [] op \in Batch \ {"deleteUsers"} -> {KindOf(op)} [] OTHER -> {}

IfListed(k) == IF k \in Kind THEN <<k>> ELSE <<>>
Chain == IfListed("rooms") \o IfListed("servers") \o IfListed("matches")

ActAnswered(c) ==
  LET op == req[c].op
      k == KindOf(op)
      ls == [j \in Kind |-> IF j \in ClearedBy(op) THEN ClearSelection(list[j]) ELSE list[j]] IN
  /\ req[c].what = "act" /\ req[c].st \in {"ok", "failed"}
  /\ \/ /\ req[c].st = "ok"
        /\ StartLoad(c, ls, k, list[k].page, IF op = "deleteUsers" THEN Chain ELSE <<>>)
     \/ req[c].st = "failed" /\ Done(c) /\ UNCHANGED list
  /\ UNCHANGED <<role, tab, query, dialog, detail, db, turns, consent>>

\* A failed answer closes the drawer, whatever it is open for.
KeptOpen(d) == [d EXCEPT !.loading = FALSE]
Closing(d) == [d EXCEPT !.loading = FALSE, !.open = FALSE]

DetailAnswered(c) ==
  LET k == req[c].kind IN
  /\ req[c].what = "detail" /\ req[c].st \in {"ok", "failed"}
  /\ detail' = [detail EXCEPT ![k] = IF req[c].st = "ok"
                                     THEN [@ EXCEPT !.loading = FALSE, !.shown = req[c].id]
                                     ELSE Closing(@)]
  /\ Done(c)
  /\ UNCHANGED <<role, tab, list, query, dialog, db, turns, consent>>

-----------------------------------------------------------------------------
\* An address names a tab or none.
FirstVisit == [tab : Kind, page : {[k \in Kind |-> 1]}, filter : {[k \in Kind |-> "all"]}]

\* The page has just been opened, with its first load on the way.
Init ==
  /\ role \in Roles
  /\ query \in FirstVisit
  /\ tab = query.tab
  /\ list = [k \in Kind |-> [NewList EXCEPT !.loading = k = query.tab]]
  /\ dialog = NoDialog
  /\ consent = {}
  /\ detail = [k \in Detailed |-> ClosedDrawer]
  /\ db = [k \in Kind |-> CHOOSE made \in Bijection(Item, 1 .. Cardinality(Item)) : TRUE]
  /\ turns = 0
  /\ \E c \in Slot :
       req = [d \in Slot |-> IF d = c THEN LoadRequest(query.tab, 1, "all", <<>>) ELSE Idle]

PageStep(c) ==
  \/ \E p \in 1 .. Cardinality(Item) + 1 :
                      \/ HandleUsersPageChange(c, p) \/ HandleRoomsPageChange(c, p)
                      \/ HandleServersPageChange(c, p) \/ HandleMatchesPageChange(c, p)
  \/ RefreshUsers(c) \/ RefreshRooms(c) \/ RefreshServers(c) \/ RefreshMatches(c)
  \/ SelectAllFilteredUsers(c) \/ SelectAllFilteredRooms(c) \/ SelectAllFilteredMatches(c)
  \/ \E i \in Item : \/ OpenUserDetail(c, i) \/ OpenRoomDetail(c, i)
                     \/ SaveUserStatus(c, i) \/ SaveMatchStatus(c, i)
  \/ \E k \in Kind : HandleTabChange(c, k)
  \/ Confirm(c)
  \/ Mount(c)

LocalStep ==
  \/ \E k \in Kind : (\E f \in Filters : EditFilter(k, f)) \/ (\E i \in Item : TickRow(k, i))
  \/ SelectUsersOnCurrentPage \/ SelectRoomsOnCurrentPage \/ SelectMatchesOnCurrentPage
  \/ ClearUserSelection \/ ClearRoomSelection \/ ClearMatchSelection
  \/ \E k \in Detailed : CloseDrawer(k)
  \/ HandleBatchUpdateUserStatus \/ HandleBatchDeleteUsers
  \/ HandleBatchEndRooms \/ HandleBatchDeleteRooms \/ HandleBatchDeleteMatches
  \/ HandleEndRoom \/ HandleDeleteMatch
  \/ Cancel

Serve(c) == ServeLoad(c) \/ ServeSelect(c) \/ ServeAct(c) \/ ServeDetail(c) \/ FailRequest(c)

Answered(c) ==
  \/ LoadUsers(c) \/ LoadRooms(c) \/ LoadServers(c) \/ LoadMatches(c)
  \/ SelectAnswered(c) \/ ActAnswered(c) \/ DetailAnswered(c)

Next ==
  \/ \E c \in Slot : PageStep(c) \/ Serve(c) \/ Answered(c)
  \/ LocalStep
  \/ \E k \in Kind : Churn(k)

Spec == Init /\ [][Next]_vars

\* A request is answered or times out, and its answer is handled.
FairSpec == Spec /\ \A c \in Slot : WF_vars(Serve(c)) /\ WF_vars(Answered(c))

-----------------------------------------------------------------------------
(* Properties *)

\* Every variable keeps its type; a server is never selected.
TypeOK ==
  /\ role \in Roles /\ tab \in Kind
  /\ list \in [Kind -> ListRecord]
  /\ query \in [tab : Kind, page : [Kind -> Pages], filter : [Kind -> Filters]]
  /\ dialog.ids \subseteq Item /\ consent \subseteq Item
  /\ detail \in [Detailed -> [open : BOOLEAN, loading : BOOLEAN, shown : Item \cup {None}]]
  /\ \A c \in Slot : req[c].what \in {"idle", "load", "select", "act", "detail"}
  /\ db \in [Kind -> [Item -> 0 .. Cardinality(Item) + turns]] /\ turns \in 0 .. MaxTurns
  /\ "servers" \in Kind => list["servers"].selected = {}

\* Of the rows on screen, those the table shows ticked are those a batch
\* would act on, through every load, failed load, late answer, selection
\* across pages and clearing (onUserSelectionChange, applyUserSelectionToTable).
TicksAgree == \A k \in Kind : list[k].ticked = list[k].rows \cap list[k].selected

\* A batch acts on the ids that were selected when its button was pressed,
\* whatever late answers do to the selection while the dialog is open.
ConsentedOnly ==
  [][\A c \in Slot : Free(c) /\ req'[c].what = "act" /\ dialog # NoDialog
       => req'[c].ids = consent]_vars

\* Once no list is being loaded, the address bar has the tab and every
\* page as they are, so that a reload comes back to them (syncRouteQuery).
AddressKeepsPlace ==
  (\A k \in Kind : ~Loading(k)) =>
    query.tab = tab /\ \A k \in Kind : query.page[k] = list[k].page

\* A selection across pages that nothing disturbed selects every hit that
\* is not on screen, and nothing but hits: no page is left out at a boundary.
SelectsEveryHit ==
  [][\A k \in Kind :
       LET hits == Hits(k, list[k].filter) IN
       (\E c \in Slot : /\ req[c].what = "select" /\ req[c].kind = k /\ req[c].fresh
                        /\ req[c].st = "ok" /\ req'[c] = Idle /\ list[k].selecting)
       => \/ ~list'[k].selecting /\ list'[k].selected \subseteq hits
             /\ hits \ list'[k].rows \subseteq list'[k].selected
          \/ list'[k] = [NewList EXCEPT !.page = list'[k].page, !.filter = list'[k].filter,
                                        !.loading = list'[k].loading]]_vars

\* A drawer that is open and not loading shows somebody, however its opening,
\* closing and answers overlap (openUserDetail, openRoomDetail).
DrawerShowsSomebody == \A k \in Detailed : detail[k].open /\ ~detail[k].loading => detail[k].shown # None

\* A list is masked only while a load of it is on its way, and its button
\* "select all" busy only while its selection is, also when other answers,
\* failures and chains of loads come in between (loadUsers,
\* selectAllFilteredUsers and their likes).
BusyForAReason ==
  \A k \in Kind :
    /\ list[k].loading => Loading(k)
    /\ list[k].selecting => \E c \in Slot : req[c].what = "select" /\ req[c].kind = k

\* No list stays masked and no button stays busy for ever.
LoadingEnds ==
  \A k \in Kind : /\ list[k].loading ~> ~list[k].loading
                  /\ list[k].selecting ~> ~list[k].selecting
=============================================================================
