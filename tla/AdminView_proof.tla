--------------------------- MODULE AdminView_proof ---------------------------
(***************************************************************************)
(* Proofs about AdminView, for any number of rows, lists, filters, pages   *)
(* and requests under way.                                                 *)
(*                                                                         *)
(* Shape types the state down to the records of the requests, each with    *)
(* the fields its answer will be read with; most operations disturb none   *)
(* of the properties but through a list that is shown or a request that    *)
(* ends.  The selection across pages needs more: FreshSelections says that *)
(* while nobody else changes the rows, what a selection has gathered so    *)
(* far is what the filter matches of the newest `offset` rows.  Rows have  *)
(* ranks without gaps (RanksCount), so that a page that is not full is the *)
(* last (PagesAreFull, PageTaken), which is what the code concludes from   *)
(* a short answer.                                                         *)
(***************************************************************************)
EXTENDS AdminView, FiniteSetTheorems, TLAPS

-----------------------------------------------------------------------------
(* The shape of the state *)

Operations == {op \in UserOps \cup RoomOps \cup MatchOps : KindOf(op) \in Kind}

LoadSent ==
  [what : {"load"}, st : {"sent", "failed"}, kind : Kind, page : Pages, filter : Filters,
   next : Seq(Kind)]
LoadServed ==
  [what : {"load"}, st : {"ok"}, kind : Kind, next : Seq(Kind),
   total : 0 .. Cardinality(Item), rows : SUBSET Item]
SelectSent ==
  [what : {"select"}, st : {"sent", "failed"}, kind : Selectable, filter : Filters,
   offset : Nat, acc : SUBSET Item, fresh : BOOLEAN]
SelectServed ==
  [what : {"select"}, st : {"ok"}, kind : Selectable, offset : Nat, acc : SUBSET Item,
   fresh : BOOLEAN, rows : SUBSET Item]
ActAny == [what : {"act"}, st : {"sent", "ok", "failed"}, op : Operations, ids : SUBSET Item]
DetailAny == [what : {"detail"}, st : {"sent", "ok", "failed"}, kind : Detailed, id : Item]

Request == {Idle} \cup LoadSent \cup LoadServed \cup SelectSent \cup SelectServed
                  \cup ActAny \cup DetailAny

\* A quotient grows with its dividend.
LEMMA DivMonotone ==
  ASSUME NEW a \in Nat, NEW b \in Nat, a <= b, NEW d \in Nat \ {0}
  PROVE  a \div d \in Nat /\ a \div d <= b \div d
<1>1. a \div d \in Int /\ b \div d \in Int /\ a % d \in 0 .. d - 1 /\ b % d \in 0 .. d - 1
  OBVIOUS
<1>2. a = d * (a \div d) + (a % d) /\ b = d * (b \div d) + (b % d)
  OBVIOUS
<1> DEFINE p == a \div d
           q == b \div d
<1>3. p >= 0
  <2>1. SUFFICES ASSUME p <= -1 PROVE FALSE
    BY <1>1
  <2>2. d * p <= d * (-1)
    BY <1>1, <2>1
  <2> QED BY <1>1, <1>2, <2>2
<1>4. p <= q
  <2>1. SUFFICES ASSUME p >= q + 1 PROVE FALSE
    BY <1>1
  <2>2. d * p >= d * (q + 1)
    BY <1>1, <2>1
  <2>3. d * (q + 1) = d * q + d
    BY <1>1
  <2> QED BY <1>1, <1>2, <2>2, <2>3
<1> QED BY <1>1, <1>3, <1>4

\* There is at least one page, and the pager never offers one beyond them.
LEMMA PagesExist ==
  /\ Cardinality(Item) \in Nat
  /\ 1 \in Pages
  /\ Pages \subseteq Nat
  /\ \A L \in ListRecord : \A p \in 1 .. Cardinality(Item) + 1 : p <= PageCount(L) => p \in Pages
<1> DEFINE n == Cardinality(Item)
           last == (n + PAGE_SIZE - 1) \div PAGE_SIZE
<1>1. n \in Nat /\ n >= 1
  BY FS_CardinalityType, FS_EmptySet, AdminConstants
<1>2. PAGE_SIZE \in Nat \ {0}
  BY AdminConstants
<1>3. last \in Nat /\ last >= 1
  <2>1. PAGE_SIZE \div PAGE_SIZE = 1
    BY <1>2
  <2> QED BY DivMonotone, <1>1, <1>2, <2>1
<1>4. ASSUME NEW L \in ListRecord, NEW p \in 1 .. n + 1, p <= PageCount(L)
      PROVE  p <= last
  <2>1. L.total \in 0 .. n
    BY DEF ListRecord
  <2>2. CASE L.total = 0
    BY <1>3, <1>4, <2>2 DEF PageCount
  <2>3. CASE L.total # 0
    <3> DEFINE t == L.total + PAGE_SIZE - 1
    <3>a. t \in Nat /\ n + PAGE_SIZE - 1 \in Nat /\ t <= n + PAGE_SIZE - 1
      BY <1>1, <1>2, <2>1, <2>3
    <3>1. t \div PAGE_SIZE \in Nat /\ t \div PAGE_SIZE <= last
      BY DivMonotone, <1>2, <3>a
    <3> QED BY <1>3, <1>4, <2>3, <3>1 DEF PageCount
  <2> QED BY <2>2, <2>3
<1> QED BY <1>1, <1>3, <1>4 DEF Pages

-----------------------------------------------------------------------------
(* The selection and the table *)

\* What the selection's operators leave as it is.
SameFrame(L, M) ==
  /\ M.page = L.page /\ M.filter = L.filter /\ M.rows = L.rows /\ M.total = L.total
  /\ M.loading = L.loading /\ M.selecting = L.selecting

Agrees(L) == L.ticked = L.rows \cap L.selected

\* Clearing the table drops its ticks, and of the selection the rows on screen.
LEMMA Cleared ==
  ASSUME NEW L \in ListRecord
  PROVE  /\ WidgetClear(L) \in ListRecord
         /\ SameFrame(L, WidgetClear(L))
         /\ WidgetClear(L).ticked = {}
         /\ WidgetClear(L).selected = IF L.ticked = {} THEN L.selected ELSE L.selected \ L.rows
BY DEF ListRecord, WidgetClear, OnSelectionChange, Merge, SameFrame

\* Ticking rows on screen selects them, and of the rows on screen no other.
LEMMA Ticked ==
  ASSUME NEW L \in ListRecord, NEW ids \in SUBSET L.rows
  PROVE  /\ WidgetTick(L, ids) \in ListRecord
         /\ SameFrame(L, WidgetTick(L, ids))
         /\ WidgetTick(L, ids).ticked = IF ids = {} THEN L.ticked ELSE ids
         /\ WidgetTick(L, ids).selected =
              IF ids = {} THEN L.selected ELSE (L.selected \ L.rows) \cup ids
BY DEF ListRecord, WidgetTick, OnSelectionChange, Merge, SameFrame

\* Applying the selection makes ticks and selection agree; it takes nothing
\* into the selection, and out of it at most rows that are on screen.
LEMMA Applied ==
  ASSUME NEW L \in ListRecord
  PROVE  /\ ApplySelection(L) \in ListRecord
         /\ SameFrame(L, ApplySelection(L))
         /\ Agrees(ApplySelection(L))
         /\ ApplySelection(L).selected \subseteq L.selected
         /\ L.selected \ L.rows \subseteq ApplySelection(L).selected
<1> DEFINE cleared == WidgetClear(L)
           ids == cleared.rows \cap cleared.selected
<1>1. /\ cleared \in ListRecord
      /\ SameFrame(L, cleared)
      /\ cleared.ticked = {}
      /\ cleared.selected = IF L.ticked = {} THEN L.selected ELSE L.selected \ L.rows
  BY Cleared
<1>2. ApplySelection(L) = WidgetTick(cleared, ids)
  BY DEF ApplySelection
<1> HIDE DEF cleared
<1>3. /\ WidgetTick(cleared, ids) \in ListRecord
      /\ SameFrame(cleared, WidgetTick(cleared, ids))
      /\ WidgetTick(cleared, ids).ticked = IF ids = {} THEN cleared.ticked ELSE ids
      /\ WidgetTick(cleared, ids).selected =
           IF ids = {} THEN cleared.selected ELSE (cleared.selected \ cleared.rows) \cup ids
  BY Ticked, <1>1
<1>4. SameFrame(L, WidgetTick(cleared, ids))
  BY <1>1, <1>3 DEF SameFrame
<1>5. WidgetTick(cleared, ids).selected = cleared.selected
  BY <1>3
<1>6. Agrees(WidgetTick(cleared, ids))
  BY <1>1, <1>3, <1>5 DEF Agrees, SameFrame
<1> QED BY <1>1, <1>2, <1>3, <1>4, <1>5, <1>6

\* Other rows in the table: the ticks are gone; what is selected is not among
\* the rows, if ticks were dropped, and is else as it was.
LEMMA Shown ==
  ASSUME NEW L \in ListRecord, NEW rows \in SUBSET Item, NEW total \in 0 .. Cardinality(Item)
  PROVE  LET M == ShowRows(L, rows, total) IN
         /\ M \in ListRecord
         /\ M.page = L.page /\ M.filter = L.filter /\ M.rows = rows /\ M.total = total
         /\ M.loading = L.loading /\ M.selecting = L.selecting
         /\ M.ticked = {} /\ M.selected \subseteq L.selected
<1> DEFINE N == [L EXCEPT !.rows = rows, !.total = total]
<1>1. N \in ListRecord
  BY DEF ListRecord
<1>2. /\ N.page = L.page /\ N.filter = L.filter /\ N.rows = rows /\ N.total = total
      /\ N.loading = L.loading /\ N.selecting = L.selecting
      /\ N.selected = L.selected
  BY DEF ListRecord
<1>3. ShowRows(L, rows, total) = WidgetClear(N)
  BY DEF ShowRows
<1> HIDE DEF N
<1>4. /\ WidgetClear(N) \in ListRecord
      /\ SameFrame(N, WidgetClear(N))
      /\ WidgetClear(N).ticked = {}
      /\ WidgetClear(N).selected = IF N.ticked = {} THEN N.selected ELSE N.selected \ N.rows
  BY <1>1, Cleared
<1> QED BY <1>1, <1>2, <1>3, <1>4 DEF SameFrame

\* Clearing the selection empties it and drops the ticks.
LEMMA SelectionCleared ==
  ASSUME NEW L \in ListRecord
  PROVE  /\ ClearSelection(L) \in ListRecord
         /\ SameFrame(L, ClearSelection(L))
         /\ ClearSelection(L).ticked = {} /\ ClearSelection(L).selected = {}
<1> DEFINE N == [L EXCEPT !.selected = {}]
<1>1. N \in ListRecord /\ SameFrame(L, N) /\ N.selected = {}
  BY DEF ListRecord, SameFrame
<1>2. ClearSelection(L) = WidgetClear(N)
  BY DEF ClearSelection
<1> HIDE DEF N
<1>3. /\ WidgetClear(N) \in ListRecord
      /\ SameFrame(N, WidgetClear(N))
      /\ WidgetClear(N).ticked = {}
      /\ WidgetClear(N).selected = IF N.ticked = {} THEN N.selected ELSE N.selected \ N.rows
  BY <1>1, Cleared
<1> QED BY <1>1, <1>2, <1>3 DEF SameFrame

\* Selecting the page leaves ticks and selection in agreement.
LEMMA PageSelected ==
  ASSUME NEW L \in ListRecord
  PROVE  /\ SelectPage(L) \in ListRecord
         /\ SameFrame(L, SelectPage(L))
         /\ Agrees(SelectPage(L))
<1> DEFINE N == [L EXCEPT !.selected = @ \cup L.rows]
<1>1. N \in ListRecord /\ SameFrame(L, N)
  BY DEF ListRecord, SameFrame
<1>2. SelectPage(L) = ApplySelection(N)
  BY DEF SelectPage
<1> HIDE DEF N
<1> QED BY <1>1, <1>2, Applied DEF SameFrame

\* A tick given or taken changes the selection of the rows on screen alike.
LEMMA RowTicked ==
  ASSUME NEW L \in ListRecord, NEW ticks \in SUBSET L.rows
  PROVE  LET M == OnSelectionChange([L EXCEPT !.ticked = ticks], ticks) IN
         /\ M \in ListRecord
         /\ SameFrame(L, M)
         /\ Agrees(M)
BY DEF ListRecord, OnSelectionChange, Merge, SameFrame, Agrees

-----------------------------------------------------------------------------
(* The shape of the state, kept by every step *)

GoodLists(ls) ==
  /\ ls \in [Kind -> ListRecord]
  /\ \A k \in Kind : Agrees(ls[k])
  /\ "servers" \in Kind => ls["servers"].selected = {}

ViewOK == role \in Roles /\ tab \in Kind
QueryOK == query \in [tab : Kind, page : [Kind -> Pages], filter : [Kind -> Filters]]
DialogOK == dialog = NoDialog \/ dialog \in [op : Operations, ids : SUBSET Item]
ConsentOK == dialog # NoDialog => dialog.ids = consent
DetailOK == detail \in [Detailed -> [open : BOOLEAN, loading : BOOLEAN, shown : Item \cup {None}]]
RowsOK == db \in [Kind -> [Item -> 0 .. Cardinality(Item) + turns]] /\ turns \in 0 .. MaxTurns
MadeApart ==
  \A k \in Kind : \A i, j \in Item : db[k][i] = db[k][j] /\ db[k][i] # 0 => i = j

Shape ==
  /\ ViewOK /\ GoodLists(list) /\ QueryOK /\ DialogOK /\ (consent \in SUBSET Item)
  /\ DetailOK /\ RowsOK /\ req \in [Slot -> Request]

\* The shape includes the module's type invariant, and that ticks agree.
LEMMA ShapeTypes == Shape => TypeOK /\ TicksAgree
<1> SUFFICES ASSUME Shape PROVE TypeOK /\ TicksAgree
  OBVIOUS
<1>1. TicksAgree
  BY DEF Shape, GoodLists, Agrees, TicksAgree
<1>2. dialog.ids \subseteq Item
  BY DEF Shape, DialogOK, NoDialog
<1>3. \A c \in Slot : req[c].what \in {"idle", "load", "select", "act", "detail"}
  BY DEF Shape, Request, Idle, LoadSent, LoadServed, SelectSent, SelectServed, ActAny, DetailAny
<1> QED
  BY <1>1, <1>2, <1>3 DEF Shape, TypeOK, ViewOK, GoodLists, QueryOK, DetailOK, RowsOK

\* What a request's kind and state say of its other fields.
LEMMA RequestKinds ==
  ASSUME NEW r \in Request
  PROVE  /\ r.what = "idle" => r = Idle
         /\ r.what = "load" /\ r.st \in {"sent", "failed"} => r \in LoadSent
         /\ r.what = "load" /\ r.st = "ok" => r \in LoadServed
         /\ r.what = "load" => r \in LoadSent \cup LoadServed
         /\ r.what = "select" /\ r.st \in {"sent", "failed"} => r \in SelectSent
         /\ r.what = "select" /\ r.st = "ok" => r \in SelectServed
         /\ r.what = "select" => r \in SelectSent \cup SelectServed
         /\ r.what = "act" => r \in ActAny
         /\ r.what = "detail" => r \in DetailAny
         /\ r # Idle => r.what \in {"load", "select", "act", "detail"}
BY DEF Request, Idle, LoadSent, LoadServed, SelectSent, SelectServed, ActAny, DetailAny

\* A list on its way is masked, at the page asked for.
LEMMA GoodMasked ==
  ASSUME NEW ls, GoodLists(ls), NEW k \in Kind, NEW page \in Pages
  PROVE  LET ms == Masked(ls, k, page) IN
         /\ GoodLists(ms)
         /\ ms[k].page = page /\ ms[k].loading /\ ms[k].filter = ls[k].filter
         /\ ms[k].selecting = ls[k].selecting
         /\ \A j \in Kind \ {k} : ms[j] = ls[j]
BY ZenonT(30) DEF GoodLists, ListRecord, Agrees, Masked

\* One good list for another.
LEMMA GoodOne ==
  ASSUME NEW ls, GoodLists(ls), NEW k \in Kind, NEW L \in ListRecord, Agrees(L),
         k = "servers" => L.selected = {}
  PROVE  GoodLists([ls EXCEPT ![k] = L])
BY DEF GoodLists

\* A load is sent in good shape.
LEMMA LoadSentWell ==
  ASSUME Shape, NEW c \in Slot, NEW ls, GoodLists(ls), NEW k \in Kind, NEW page \in Pages,
         NEW next \in Seq(Kind), StartLoad(c, ls, k, page, next)
  PROVE  GoodLists(list') /\ req' \in [Slot -> Request]
<1>1. GoodLists(list')
  BY GoodMasked DEF StartLoad
<1>2. LoadRequest(k, page, ls[k].filter, next) \in LoadSent
  BY DEF GoodLists, ListRecord, LoadRequest, LoadSent
<1> QED BY <1>1, <1>2 DEF StartLoad, Shape, Request

-----------------------------------------------------------------------------
(* The steps, those that differ in the list only taken together *)

Sends(c) ==
  \/ \E k \in Kind, p \in 1 .. Cardinality(Item) + 1 : HandlePageChange(c, k, p)
  \/ \E k \in Selectable : Refresh(c, k)
  \/ RefreshServers(c)
  \/ \E k \in Kind : HandleTabChange(c, k)
  \/ Mount(c)
  \/ \E k \in Selectable : SelectAllFiltered(c, k)
  \/ \E k \in Detailed, i \in Item : OpenDetail(c, k, i)
  \/ \E op \in Operations, i \in Item : Save(c, op, i)
  \/ Confirm(c)

Handles(c) ==
  \/ \E k \in Kind : LoadAnswered(c, k)
  \/ SelectAnswered(c)
  \/ ActAnswered(c)
  \/ DetailAnswered(c)

Local ==
  \/ \E k \in Kind, f \in Filters : EditFilter(k, f)
  \/ \E k \in Kind, i \in Item : TickRow(k, i)
  \/ \E k \in Selectable : SelectOnCurrentPage(k)
  \/ \E k \in Selectable : ClearOf(k)
  \/ \E k \in Detailed : CloseDrawer(k)
  \/ \E op \in Operations, ids \in SUBSET Item : Ask(op, ids)
  \/ Cancel
  \/ \E k \in Kind : Churn(k)

\* Every step is one of these.
LEMMA StepKinds ==
  ASSUME Shape, Next
  PROVE  (\E c \in Slot : Sends(c) \/ Serve(c) \/ Handles(c)) \/ Local
<1> USE DEF At
<1>1. ASSUME NEW c \in Slot, PageStep(c)
      PROVE  Sends(c)
  <2>1. \A p \in 1 .. Cardinality(Item) + 1 :
          \/ HandleUsersPageChange(c, p) \/ HandleRoomsPageChange(c, p)
          \/ HandleServersPageChange(c, p) \/ HandleMatchesPageChange(c, p)
          => Sends(c)
    BY DEF Sends, HandleUsersPageChange, HandleRoomsPageChange, HandleServersPageChange,
           HandleMatchesPageChange, HandlePageChange
  <2>2. RefreshUsers(c) \/ RefreshRooms(c) \/ RefreshMatches(c) => Sends(c)
    BY DEF Sends, RefreshUsers, RefreshRooms, RefreshMatches, Refresh, Selectable
  <2>3. SelectAllFilteredUsers(c) \/ SelectAllFilteredRooms(c) \/ SelectAllFilteredMatches(c)
        => Sends(c)
    BY DEF Sends, SelectAllFilteredUsers, SelectAllFilteredRooms, SelectAllFilteredMatches,
           SelectAllFiltered
  <2>4. \A i \in Item : OpenUserDetail(c, i) \/ OpenRoomDetail(c, i) => Sends(c)
    BY DEF Sends, OpenUserDetail, OpenRoomDetail, OpenDetail
  <2>5. \A i \in Item : SaveUserStatus(c, i) \/ SaveMatchStatus(c, i) => Sends(c)
    BY DEF Sends, SaveUserStatus, SaveMatchStatus, Save, Operations, UserOps, MatchOps
  <2>6. RefreshServers(c) \/ Confirm(c) \/ Mount(c) \/ (\E k \in Kind : HandleTabChange(c, k))
        => Sends(c)
    BY DEF Sends
  <2> QED BY <1>1, <2>1, <2>2, <2>3, <2>4, <2>5, <2>6 DEF PageStep
<1>2. ASSUME NEW c \in Slot, Answered(c)
      PROVE  Handles(c)
  <2>1. LoadUsers(c) \/ LoadRooms(c) \/ LoadServers(c) \/ LoadMatches(c) => Handles(c)
    <3>1. c \in Slot /\ req \in [Slot -> Request]
      BY DEF Shape
    <3>2. \A k : LoadAnswered(c, k) => k \in Kind
      BY <3>1, RequestKinds DEF LoadAnswered, LoadSent, LoadServed
    <3> QED BY <3>2 DEF Handles, LoadUsers, LoadRooms, LoadServers, LoadMatches
  <2> QED BY <1>2, <2>1 DEF Answered, Handles
<1>3. ASSUME LocalStep
      PROVE  Local
  <2>1. SelectUsersOnCurrentPage \/ SelectRoomsOnCurrentPage \/ SelectMatchesOnCurrentPage => Local
    BY DEF Local, SelectUsersOnCurrentPage, SelectRoomsOnCurrentPage,
           SelectMatchesOnCurrentPage, SelectOnCurrentPage
  <2>2. ClearUserSelection \/ ClearRoomSelection \/ ClearMatchSelection => Local
    BY DEF Local, ClearUserSelection, ClearRoomSelection, ClearMatchSelection, ClearOf
  <2>3. ASSUME \/ HandleBatchUpdateUserStatus \/ HandleBatchDeleteUsers
               \/ HandleBatchEndRooms \/ HandleBatchDeleteRooms \/ HandleBatchDeleteMatches
               \/ HandleEndRoom \/ HandleDeleteMatch
        PROVE  \E op \in Operations, ids \in SUBSET Item : Ask(op, ids)
    <3>1. \A k \in Kind : list[k].selected \in SUBSET Item /\ list[k].rows \in SUBSET Item
      BY DEF Shape, GoodLists, ListRecord
    <3>2. /\ "users" \in Kind => "usersStatus" \in Operations /\ "deleteUsers" \in Operations
          /\ "rooms" \in Kind => /\ "endRooms" \in Operations /\ "deleteRooms" \in Operations
                                 /\ "endRoom" \in Operations
          /\ "matches" \in Kind => "deleteMatches" \in Operations /\ "deleteMatch" \in Operations
      BY DEF Operations, UserOps, RoomOps, MatchOps, KindOf
    <3>3. \A k \in Kind : \A i \in list[k].rows : {i} \in SUBSET Item
      BY <3>1
    <3> QED BY <2>3, <3>1, <3>2, <3>3
            DEF HandleBatchUpdateUserStatus, HandleBatchDeleteUsers, HandleBatchEndRooms,
                HandleBatchDeleteRooms, HandleBatchDeleteMatches, HandleEndRoom, HandleDeleteMatch
  <2> QED BY <1>3, <2>1, <2>2, <2>3 DEF LocalStep, Local
<1> QED BY <1>1, <1>2, <1>3 DEF Next, Local

\* The chain of loads after a deletion of users is one of lists.
LEMMA ChainOfKinds == Chain \in Seq(Kind)
<1>1. \A k : IfListed(k) \in Seq(Kind)
  BY DEF IfListed
<1> QED BY <1>1 DEF Chain

\* The address bar takes over the tab, the pages and the filters.
LEMMA QueryTaken ==
  ASSUME NEW t \in Kind, NEW ls, GoodLists(ls)
  PROVE  QueryOf(t, ls) \in [tab : Kind, page : [Kind -> Pages], filter : [Kind -> Filters]]
BY DEF QueryOf, GoodLists, ListRecord

\* What the user sends keeps the shape.
LEMMA SendsShape ==
  ASSUME Shape, NEW c \in Slot, Sends(c)
  PROVE  Shape'
<1> USE DEF Shape
<1>k. /\ \A k \in Kind : list[k] \in ListRecord /\ list[k].page \in Pages
      /\ <<>> \in Seq(Kind) /\ GoodLists(list)
  BY DEF GoodLists, ListRecord
<1>1. ASSUME NEW k \in Kind, NEW p \in 1 .. Cardinality(Item) + 1, HandlePageChange(c, k, p)
      PROVE  Shape'
  <2>1. p \in Pages
    BY <1>1, <1>k, PagesExist DEF HandlePageChange
  <2>2. GoodLists(list)' /\ req' \in [Slot -> Request]
    BY <1>1, <1>k, <2>1, LoadSentWell DEF HandlePageChange, LoadOnly
  <2> QED BY <1>1, <2>2
          DEF HandlePageChange, LoadOnly, ViewOK, QueryOK, DialogOK, DetailOK, RowsOK
<1>2. ASSUME NEW k \in Selectable, Refresh(c, k)
      PROVE  Shape'
  <2> DEFINE ls == [list EXCEPT ![k] = ClearSelection(list[k])]
  <2>0. k \in Kind
    BY DEF Selectable
  <2>1. GoodLists(ls)
    BY <1>k, <2>0, SelectionCleared, GoodOne DEF Agrees
  <2>2. StartLoad(c, ls, k, 1, <<>>)
    BY <1>2, <2>0, <1>k DEF Refresh, LoadOnly, GoodLists
  <2>3. GoodLists(list)' /\ req' \in [Slot -> Request]
    <3> HIDE DEF ls
    <3> QED BY <1>k, <2>0, <2>1, <2>2, PagesExist, LoadSentWell
  <2> QED BY <1>2, <2>3 DEF Refresh, LoadOnly, ViewOK, QueryOK, DialogOK, DetailOK, RowsOK
<1>3. ASSUME RefreshServers(c)
      PROVE  Shape'
  <2>1. GoodLists(list)' /\ req' \in [Slot -> Request]
    BY <1>3, <1>k, PagesExist, LoadSentWell DEF RefreshServers, LoadOnly, At
  <2> QED BY <1>3, <2>1 DEF RefreshServers, LoadOnly, ViewOK, QueryOK, DialogOK, DetailOK, RowsOK
<1>4. ASSUME NEW k \in Kind, HandleTabChange(c, k)
      PROVE  Shape'
  <2>1. GoodLists(list)' /\ req' \in [Slot -> Request]
    BY <1>4, <1>k, LoadSentWell DEF HandleTabChange
  <2>2. RowsOK'
    BY <1>4, PagesExist, AdminConstants DEF HandleTabChange, RowsOK, Turn
  <2> QED BY <1>4, <2>1, <2>2 DEF HandleTabChange, ViewOK, QueryOK, DialogOK, DetailOK
<1>5. ASSUME Mount(c)
      PROVE  Shape'
  <2>1. query.tab \in Kind /\ \A k \in Kind : query.page[k] \in Pages /\ query.filter[k] \in Filters
    BY DEF QueryOK
  <2>2. GoodLists(list)'
    <3> DEFINE M(k) == [page |-> query.page[k], filter |-> query.filter[k], rows |-> {}, total |-> 0,
                        loading |-> k = query.tab, selecting |-> FALSE, selected |-> {},
                        ticked |-> {}]
    <3>1. list' = [k \in Kind |-> M(k)]
      BY <1>5 DEF Mount
    <3>2. \A k \in Kind : (k = query.tab) \in BOOLEAN
      OBVIOUS
    <3>3. \A k \in Kind : M(k) \in ListRecord
      BY <2>1, <3>2, PagesExist DEF ListRecord
    <3>4. \A k \in Kind : Agrees(M(k)) /\ M(k).selected = {}
      BY DEF Agrees
    <3> HIDE DEF M
    <3> QED BY <3>1, <3>3, <3>4 DEF GoodLists
  <2>3. LoadRequest(query.tab, query.page[query.tab], query.filter[query.tab], <<>>) \in LoadSent
    BY <2>1 DEF LoadRequest, LoadSent
  <2>4. req' \in [Slot -> Request]
    BY <1>5, <2>3 DEF Mount, Request
  <2>5. RowsOK'
    BY <1>5, PagesExist, AdminConstants DEF Mount, RowsOK, Turn
  <2>6. DetailOK'
    BY <1>5 DEF Mount, DetailOK, ClosedDrawer
  <2> QED BY <1>5, <2>1, <2>2, <2>4, <2>5, <2>6 DEF Mount, ViewOK, QueryOK, DialogOK
<1>6. ASSUME NEW k \in Selectable, SelectAllFiltered(c, k)
      PROVE  Shape'
  <2>0. k \in Kind
    BY DEF Selectable
  <2>1. [list[k] EXCEPT !.selecting = TRUE] \in ListRecord
        /\ Agrees([list[k] EXCEPT !.selecting = TRUE])
        /\ [list[k] EXCEPT !.selecting = TRUE].selected = list[k].selected
    BY <1>k, <2>0 DEF ListRecord, Agrees, GoodLists
  <2>2. GoodLists([list EXCEPT ![k] = [list[k] EXCEPT !.selecting = TRUE]])
    BY <1>k, <2>0, <2>1, GoodOne DEF GoodLists
  <2>3. GoodLists(list)'
    BY <1>6, <2>0, <2>2 DEF SelectAllFiltered, GoodLists
  <2>4. SelectRequest(k, list[k].filter, 0, {}, TRUE) \in SelectSent
    BY <1>k, <2>0 DEF SelectRequest, SelectSent, ListRecord
  <2> QED BY <1>6, <2>3, <2>4
          DEF SelectAllFiltered, Request, ViewOK, QueryOK, DialogOK, DetailOK, RowsOK
<1>7. ASSUME NEW k \in Detailed, NEW i \in Item, OpenDetail(c, k, i)
      PROVE  Shape'
  <2>1. DetailRequest(k, i) \in DetailAny
    BY DEF DetailRequest, DetailAny
  <2>2. DetailOK'
    BY <1>7 DEF OpenDetail, DetailOK
  <2> QED BY <1>7, <2>1, <2>2 DEF OpenDetail, Request, ViewOK, QueryOK, DialogOK, RowsOK
<1>8. ASSUME NEW op \in Operations, NEW i \in Item, Save(c, op, i)
      PROVE  Shape'
  <2>1. ActRequest(op, {i}) \in ActAny
    BY DEF ActRequest, ActAny
  <2> QED BY <1>8, <2>1 DEF Save, Request, ViewOK, QueryOK, DialogOK, DetailOK, RowsOK
<1>9. ASSUME Confirm(c)
      PROVE  Shape'
  <2>1. ActRequest(dialog.op, Asked(dialog)) \in ActAny
    BY <1>9 DEF Confirm, ActRequest, ActAny, Asked, DialogOK
  <2> QED BY <1>9, <2>1 DEF Confirm, Request, ViewOK, QueryOK, DialogOK, DetailOK, RowsOK
<1> QED BY <1>1, <1>2, <1>3, <1>4, <1>5, <1>6, <1>7, <1>8, <1>9 DEF Sends

\* A page of hits is rows, and there are no more hits than items.
LEMMA HitsCounted ==
  ASSUME NEW k \in Kind, NEW f \in Filters
  PROVE  /\ Hits(k, f) \in SUBSET Item
         /\ IsFiniteSet(Hits(k, f))
         /\ Cardinality(Hits(k, f)) \in 0 .. Cardinality(Item)
         /\ \A offset, limit : PageOf(k, f, offset, limit) \in SUBSET Item
<1>1. Hits(k, f) \in SUBSET Item
  BY DEF Hits
<1>2. IsFiniteSet(Item)
  BY AdminConstants
<1>3. /\ IsFiniteSet(Hits(k, f))
      /\ Cardinality(Hits(k, f)) <= Cardinality(Item)
  BY <1>1, <1>2, FS_Subset
<1>4. Cardinality(Hits(k, f)) \in Nat
  BY <1>3, FS_CardinalityType
<1>5. \A offset, limit : PageOf(k, f, offset, limit) \in SUBSET Item
  BY <1>1 DEF PageOf
<1> QED BY <1>1, <1>3, <1>4, <1>5, PagesExist

\* Marking selections as disturbed keeps the requests' shape, and all else of them.
LEMMA StaleRequests ==
  ASSUME NEW k, NEW rs \in [Slot -> Request]
  PROVE  /\ Stale(k, rs) \in [Slot -> Request]
         /\ \A c \in Slot : Stale(k, rs)[c].what = rs[c].what
<1>1. ASSUME NEW r \in SelectSent
      PROVE  [r EXCEPT !.fresh = FALSE] \in SelectSent /\ [r EXCEPT !.fresh = FALSE].what = r.what
  BY DEF SelectSent
<1>2. ASSUME NEW r \in SelectServed
      PROVE  [r EXCEPT !.fresh = FALSE] \in SelectServed /\ [r EXCEPT !.fresh = FALSE].what = r.what
  BY DEF SelectServed
<1>3. ASSUME NEW r \in Request, r.what = "select"
      PROVE  [r EXCEPT !.fresh = FALSE] \in Request /\ [r EXCEPT !.fresh = FALSE].what = r.what
  <2>1. r \in SelectSent \cup SelectServed
    BY <1>3, RequestKinds
  <2> QED BY <1>1, <1>2, <2>1 DEF Request
<1> QED BY <1>3 DEF Stale

\* A request is answered, or not, with its other fields as they were.
LEMMA AnswerShape ==
  ASSUME NEW r \in Request
  PROVE  /\ r # Idle /\ r.st = "sent" =>
              [r EXCEPT !.st = "failed"] \in Request /\ [r EXCEPT !.st = "failed"].what = r.what
         /\ r.what \in {"act", "detail"} => \A st \in {"ok", "failed"} :
              [r EXCEPT !.st = st] \in Request /\ [r EXCEPT !.st = st].what = r.what
<1>1. ASSUME r \in LoadSent
      PROVE  [r EXCEPT !.st = "failed"] \in LoadSent /\ [r EXCEPT !.st = "failed"].what = r.what
  BY <1>1 DEF LoadSent
<1>2. ASSUME r \in SelectSent
      PROVE  [r EXCEPT !.st = "failed"] \in SelectSent /\ [r EXCEPT !.st = "failed"].what = r.what
  BY <1>2 DEF SelectSent
<1>3. ASSUME r \in ActAny, NEW st \in {"ok", "failed"}
      PROVE  [r EXCEPT !.st = st] \in ActAny /\ [r EXCEPT !.st = st].what = r.what
  BY <1>3 DEF ActAny
<1>4. ASSUME r \in DetailAny, NEW st \in {"ok", "failed"}
      PROVE  [r EXCEPT !.st = st] \in DetailAny /\ [r EXCEPT !.st = st].what = r.what
  BY <1>4 DEF DetailAny
<1>5. ASSUME r.what \in {"act", "detail"}, NEW st \in {"ok", "failed"}
      PROVE  [r EXCEPT !.st = st] \in Request /\ [r EXCEPT !.st = st].what = r.what
  BY <1>3, <1>4, <1>5, RequestKinds DEF Request
<1>6. ASSUME r # Idle, r.st = "sent"
      PROVE  [r EXCEPT !.st = "failed"] \in Request /\ [r EXCEPT !.st = "failed"].what = r.what
  BY <1>1, <1>2, <1>5, <1>6, RequestKinds DEF Request
<1> QED BY <1>5, <1>6

\* The operations are on listed kinds.
LEMMA OperationKinds ==
  ASSUME NEW op \in Operations
  PROVE  KindOf(op) \in Kind /\ KindOf(op) \in Selectable
BY DEF Operations, UserOps, RoomOps, MatchOps, KindOf, Selectable

\* What the backend does keeps the shape.
LEMMA ServeShape ==
  ASSUME Shape, NEW c \in Slot, Serve(c)
  PROVE  Shape'
<1> USE DEF Shape
<1>r. req[c] \in Request
  OBVIOUS
<1>1. ASSUME ServeLoad(c)
      PROVE  Shape'
  <2>1. req[c] \in LoadSent
    BY <1>1, <1>r, RequestKinds DEF ServeLoad
  <2> DEFINE r == req[c]
             served == [what |-> "load", st |-> "ok", kind |-> r.kind, next |-> r.next,
                        total |-> Cardinality(Hits(r.kind, r.filter)),
                        rows |-> PageOf(r.kind, r.filter, (r.page - 1) * PAGE_SIZE, PAGE_SIZE)]
  <2>2. r.kind \in Kind /\ r.filter \in Filters /\ r.next \in Seq(Kind)
    BY <2>1 DEF LoadSent
  <2>3. served \in LoadServed
    BY <2>2, HitsCounted DEF LoadServed
  <2>4. req' = [req EXCEPT ![c] = served]
    BY <1>1 DEF ServeLoad
  <2> HIDE DEF served
  <2> QED BY <1>1, <2>3, <2>4 DEF ServeLoad, Request, ViewOK, QueryOK, DialogOK, DetailOK, RowsOK
<1>2. ASSUME ServeSelect(c)
      PROVE  Shape'
  <2>1. req[c] \in SelectSent
    BY <1>2, <1>r, RequestKinds DEF ServeSelect
  <2> DEFINE r == req[c]
             served == [what |-> "select", st |-> "ok", kind |-> r.kind, offset |-> r.offset,
                        acc |-> r.acc, fresh |-> r.fresh,
                        rows |-> PageOf(r.kind, r.filter, r.offset, CROSS_PAGE_SELECT_SIZE)]
  <2>2. /\ r.kind \in Selectable /\ r.kind \in Kind /\ r.filter \in Filters
        /\ r.offset \in Nat /\ r.acc \in SUBSET Item /\ r.fresh \in BOOLEAN
    BY <2>1 DEF SelectSent, Selectable
  <2>3. served \in SelectServed
    BY <2>2, HitsCounted DEF SelectServed
  <2>4. req' = [req EXCEPT ![c] = served]
    BY <1>2 DEF ServeSelect
  <2> HIDE DEF served
  <2> QED BY <1>2, <2>3, <2>4 DEF ServeSelect, Request, ViewOK, QueryOK, DialogOK, DetailOK, RowsOK
<1>3. ASSUME ServeAct(c)
      PROVE  Shape'
  <2>1. req[c] \in ActAny
    BY <1>3, <1>r, RequestKinds DEF ServeAct
  <2>2. req[c].op \in Operations
    BY <2>1 DEF ActAny
  <2>3. \A st \in {"ok", "failed"} : [req EXCEPT ![c].st = st] \in [Slot -> Request]
    BY <1>3, <1>r, AnswerShape DEF ServeAct
  <2> DEFINE k == KindOf(req[c].op)
             left == [i \in Item |-> IF i \in req[c].ids THEN 0 ELSE db[k][i]]
             upto == 0 .. Cardinality(Item) + turns
  <2>4. CASE req[c].op \in Deletes
    <3>1. k \in Kind
      BY <2>2, OperationKinds
    <3>2. db[k] \in [Item -> upto] /\ 0 \in upto
      BY <3>1, PagesExist, AdminConstants DEF RowsOK
    <3>3. left \in [Item -> upto]
      BY <3>2
    <3>4. db' = [db EXCEPT ![k] = left] /\ UNCHANGED turns
      BY <1>3, <2>4, <3>1 DEF ServeAct, RowsOK
    <3>5. RowsOK'
      <4> HIDE DEF left
      <4> QED BY <3>1, <3>3, <3>4 DEF RowsOK
    <3>6. PICK st \in {"ok", "failed"} : req' = Stale(k, [req EXCEPT ![c].st = st])
      BY <1>3, <2>4 DEF ServeAct
    <3>7. req' \in [Slot -> Request]
      <4> HIDE DEF k
      <4> QED BY <2>3, <3>6, StaleRequests
    <3> QED BY <1>3, <3>5, <3>7 DEF ServeAct, ViewOK, QueryOK, DialogOK, DetailOK
  <2>5. CASE req[c].op \notin Deletes
    <3>1. req' \in [Slot -> Request] /\ UNCHANGED <<db, turns>>
      BY <1>3, <2>3, <2>5 DEF ServeAct
    <3> QED BY <1>3, <3>1 DEF ServeAct, ViewOK, QueryOK, DialogOK, DetailOK, RowsOK
  <2> QED BY <2>4, <2>5
<1>4. ASSUME ServeDetail(c)
      PROVE  Shape'
  <2>1. req' \in [Slot -> Request]
    BY <1>4, <1>r, AnswerShape DEF ServeDetail
  <2> QED BY <1>4, <2>1 DEF ServeDetail, ViewOK, QueryOK, DialogOK, DetailOK, RowsOK
<1>5. ASSUME FailRequest(c)
      PROVE  Shape'
  <2>1. req' \in [Slot -> Request]
    BY <1>5, <1>r, AnswerShape DEF FailRequest, Free
  <2> QED BY <1>5, <2>1 DEF FailRequest, ViewOK, QueryOK, DialogOK, DetailOK, RowsOK
<1> QED BY <1>1, <1>2, <1>3, <1>4, <1>5 DEF Serve

\* An answered load, or a failed one, shows a good list on the page and with
\* the filter that it had, and goes on as AfterLoad says.
LEMMA LoadHandled ==
  ASSUME Shape, NEW c \in Slot, NEW k \in Kind, LoadAnswered(c, k)
  PROVE  /\ req[c].what = "load" /\ req[c].kind = k /\ req[c].next \in Seq(Kind)
         /\ \E L \in ListRecord :
              /\ Agrees(L) /\ (k = "servers" => L.selected = {})
              /\ L.page = list[k].page /\ L.filter = list[k].filter
              /\ L.selecting = list[k].selecting
              /\ AfterLoad(c, L)
<1>1. req[c] \in Request /\ list[k] \in ListRecord /\ (k = "servers" => list[k].selected = {})
  BY DEF Shape, GoodLists
<1>2. req[c] \in LoadSent \cup LoadServed
  BY <1>1, RequestKinds DEF LoadAnswered
<1>3. req[c].what = "load" /\ req[c].kind = k /\ req[c].next \in Seq(Kind)
  BY <1>2 DEF LoadAnswered, LoadSent, LoadServed
<1>4. CASE req[c].st = "ok"
  <2>1. req[c].rows \in SUBSET Item /\ req[c].total \in 0 .. Cardinality(Item)
    BY <1>2, <1>4 DEF LoadSent, LoadServed
  <2> DEFINE M == ShowRows(list[k], req[c].rows, req[c].total)
  <2>2. /\ M \in ListRecord /\ M.page = list[k].page /\ M.filter = list[k].filter
        /\ M.selecting = list[k].selecting /\ M.selected \subseteq list[k].selected
    BY <1>1, <2>1, Shown
  <2>3. AfterLoad(c, ApplySelection(M))
    BY <1>4 DEF LoadAnswered
  <2> HIDE DEF M
  <2>4. /\ ApplySelection(M) \in ListRecord
        /\ SameFrame(M, ApplySelection(M))
        /\ Agrees(ApplySelection(M))
        /\ ApplySelection(M).selected \subseteq M.selected
    BY <2>2, Applied
  <2> QED BY <1>1, <1>3, <2>2, <2>3, <2>4 DEF SameFrame
<1>5. CASE req[c].st = "failed"
  <2> DEFINE M == ShowRows(list[k], {}, 0)
  <2>1. 0 \in 0 .. Cardinality(Item)
    BY PagesExist
  <2>2. /\ M \in ListRecord /\ M.page = list[k].page /\ M.filter = list[k].filter
        /\ M.selecting = list[k].selecting /\ M.selected \subseteq list[k].selected
        /\ M.rows = {} /\ M.ticked = {}
    BY ZenonT(30), <1>1, <2>1, Shown DEF ListRecord
  <2>3. AfterLoad(c, M)
    BY <1>5 DEF LoadAnswered
  <2> HIDE DEF M
  <2> QED BY <1>1, <1>3, <2>2, <2>3 DEF Agrees
<1> QED BY <1>4, <1>5 DEF LoadAnswered

\* Taking the mask off leaves the rest of the list.
LEMMA MaskOff ==
  ASSUME NEW L \in ListRecord
  PROVE  /\ Unmasked(L) \in ListRecord
         /\ Unmasked(L).page = L.page /\ Unmasked(L).filter = L.filter
         /\ Unmasked(L).selecting = L.selecting /\ ~Unmasked(L).loading
         /\ Unmasked(L).selected = L.selected
         /\ Agrees(L) => Agrees(Unmasked(L))
BY DEF Unmasked, ListRecord, Agrees

\* What the page does with an answer keeps the shape.
LEMMA HandlesShape ==
  ASSUME Shape, NEW c \in Slot, Handles(c)
  PROVE  Shape'
<1> USE DEF Shape
<1>r. /\ req[c] \in Request
      /\ \A k \in Kind : list[k] \in ListRecord /\ list[k].page \in Pages
      /\ Idle \in Request /\ GoodLists(list)
  BY DEF Request, GoodLists, ListRecord
<1>1. ASSUME NEW k \in Kind, LoadAnswered(c, k)
      PROVE  Shape'
  <2>1. /\ req[c].kind = k /\ req[c].next \in Seq(Kind)
        /\ \E L \in ListRecord : /\ Agrees(L) /\ (k = "servers" => L.selected = {})
                                 /\ AfterLoad(c, L)
    BY <1>1, LoadHandled
  <2>2. PICK L \in ListRecord : /\ Agrees(L) /\ (k = "servers" => L.selected = {})
                                /\ AfterLoad(c, L)
    BY <2>1
  <2> DEFINE ls == [list EXCEPT ![k] = Unmasked(L)]
             next == req[c].next
  <2>3. GoodLists(ls)
    BY <1>r, <2>2, MaskOff, GoodOne
  <2>4. /\ query' = QueryOf(tab, ls)
        /\ \/ list' = ls /\ req' = [req EXCEPT ![c] = Idle]
           \/ next # <<>> /\ StartLoad(c, ls, Head(next), 1, Tail(next))
        /\ UNCHANGED <<role, tab, dialog, detail, db, turns, consent>>
    BY <2>1, <2>2 DEF AfterLoad, Done
  <2> HIDE DEF ls
  <2>5. GoodLists(list)' /\ req' \in [Slot -> Request]
    <3>1. CASE list' = ls /\ req' = [req EXCEPT ![c] = Idle]
      BY <1>r, <2>3, <3>1
    <3>2. CASE next # <<>> /\ StartLoad(c, ls, Head(next), 1, Tail(next))
      <4>1. Head(next) \in Kind /\ Tail(next) \in Seq(Kind)
        BY <2>1, <3>2
      <4> HIDE DEF next
      <4> QED BY <2>3, <3>2, <4>1, PagesExist, LoadSentWell
    <3> QED BY <2>4, <3>1, <3>2
  <2>6. QueryOK'
    BY <2>3, <2>4, QueryTaken DEF QueryOK, ViewOK
  <2> QED BY <2>4, <2>5, <2>6 DEF ViewOK, DialogOK, DetailOK, RowsOK
<1>2. ASSUME SelectAnswered(c)
      PROVE  Shape'
  <2> DEFINE r == req[c]
             k == r.kind
  <2>1. r \in SelectSent \cup SelectServed
    BY <1>2, <1>r, RequestKinds DEF SelectAnswered
  <2>2. k \in Selectable /\ k \in Kind /\ k # "servers" /\ r.offset \in Nat /\ r.acc \in SUBSET Item
        /\ r.fresh \in BOOLEAN
    BY <2>1 DEF SelectSent, SelectServed, Selectable
  <2>3. r.st = "ok" => r.rows \in SUBSET Item /\ Cardinality(r.rows) \in Nat
    <3>1. r.st = "ok" => r.rows \in SUBSET Item
      BY <2>1 DEF SelectSent, SelectServed
    <3> QED BY <3>1, FS_Subset, FS_CardinalityType, AdminConstants
  <2>4. UNCHANGED <<role, tab, query, dialog, detail, db, turns, consent>>
    BY <1>2 DEF SelectAnswered
  <2>5. CASE r.st = "ok" /\ ~LastPage(r)
    <3> DEFINE sent == SelectRequest(k, list[k].filter, r.offset + Cardinality(r.rows),
                                     r.acc \cup r.rows, r.fresh)
    <3>1. sent \in SelectSent
      BY <1>r, <2>2, <2>3, <2>5 DEF SelectRequest, SelectSent, ListRecord
    <3>2. req' = [req EXCEPT ![c] = sent] /\ UNCHANGED list
      BY <1>2, <2>5 DEF SelectAnswered
    <3> HIDE DEF sent
    <3> QED BY <2>4, <3>1, <3>2 DEF Request, ViewOK, QueryOK, DialogOK, DetailOK, RowsOK
  <2>6. CASE r.st = "ok" /\ LastPage(r)
    <3> DEFINE M == [list[k] EXCEPT !.selected = r.acc \cup r.rows]
               N == [ApplySelection(M) EXCEPT !.selecting = FALSE]
    <3>1. M \in ListRecord
      BY <1>r, <2>2, <2>3, <2>6 DEF ListRecord
    <3>2. list' = [list EXCEPT ![k] = N] /\ req' = [req EXCEPT ![c] = Idle]
      BY <1>2, <2>6, <2>2, <1>r DEF SelectAnswered, Done, GoodLists
    <3> HIDE DEF M
    <3>3. ApplySelection(M) \in ListRecord /\ Agrees(ApplySelection(M))
      BY <3>1, Applied
    <3>4. N \in ListRecord /\ Agrees(N)
      BY <3>3 DEF ListRecord, Agrees
    <3> HIDE DEF N
    <3>5. GoodLists(list)'
      BY <1>r, <2>2, <3>2, <3>4, GoodOne
    <3> QED BY <1>r, <2>4, <3>2, <3>5 DEF ViewOK, QueryOK, DialogOK, DetailOK, RowsOK
  <2>7. CASE r.st = "failed"
    <3> DEFINE N == [list[k] EXCEPT !.selecting = FALSE]
    <3>1. N \in ListRecord /\ Agrees(N)
      BY <1>r, <2>2 DEF ListRecord, GoodLists, Agrees
    <3>2. list' = [list EXCEPT ![k] = N] /\ req' = [req EXCEPT ![c] = Idle]
      BY <1>2, <2>7, <2>2, <1>r DEF SelectAnswered, Done, GoodLists
    <3> HIDE DEF N
    <3>3. GoodLists(list)'
      BY <1>r, <2>2, <3>1, <3>2, GoodOne
    <3> QED BY <1>r, <2>4, <3>2, <3>3 DEF ViewOK, QueryOK, DialogOK, DetailOK, RowsOK
  <2> QED BY <1>2, <2>5, <2>6, <2>7 DEF SelectAnswered
<1>3. ASSUME ActAnswered(c)
      PROVE  Shape'
  <2> DEFINE op == req[c].op
             k == KindOf(op)
             ls == [j \in Kind |-> IF j \in ClearedBy(op) THEN ClearSelection(list[j]) ELSE list[j]]
             next == IF op = "deleteUsers" THEN Chain ELSE <<>>
  <2>1. op \in Operations
    BY <1>3, <1>r, RequestKinds DEF ActAnswered, ActAny
  <2>2. k \in Kind
    BY <2>1, OperationKinds
  <2>3. GoodLists(ls)
    <3>1. \A j \in Kind : ClearSelection(list[j]) \in ListRecord
                          /\ Agrees(ClearSelection(list[j]))
                          /\ ClearSelection(list[j]).selected = {}
      BY <1>r, SelectionCleared DEF Agrees
    <3> QED BY <1>r, <3>1 DEF GoodLists
  <2>4. next \in Seq(Kind)
    BY ChainOfKinds
  <2>5. UNCHANGED <<role, tab, query, dialog, detail, db, turns, consent>>
    BY <1>3 DEF ActAnswered
  <2>6. \/ StartLoad(c, ls, k, list[k].page, next)
        \/ req' = [req EXCEPT ![c] = Idle] /\ UNCHANGED list
    BY <1>3 DEF ActAnswered, Done
  <2>7. GoodLists(list)' /\ req' \in [Slot -> Request]
    <3> HIDE DEF ls, k, next
    <3>1. CASE StartLoad(c, ls, k, list[k].page, next)
      BY <1>r, <2>2, <2>3, <2>4, <3>1, LoadSentWell
    <3>2. CASE req' = [req EXCEPT ![c] = Idle] /\ UNCHANGED list
      BY <1>r, <3>2
    <3> QED BY <2>6, <3>1, <3>2
  <2> QED BY <2>5, <2>7 DEF ViewOK, QueryOK, DialogOK, DetailOK, RowsOK
<1>4. ASSUME DetailAnswered(c)
      PROVE  Shape'
  <2>1. req[c].kind \in Detailed /\ req[c].id \in Item
    BY <1>4, <1>r, RequestKinds DEF DetailAnswered, DetailAny
  <2>2. DetailOK'
    BY <1>4, <2>1 DEF DetailAnswered, DetailOK, Closing
  <2>3. req' \in [Slot -> Request]
    BY <1>4, <1>r DEF DetailAnswered, Done
  <2> QED BY <1>4, <2>2, <2>3 DEF DetailAnswered, ViewOK, QueryOK, DialogOK, RowsOK
<1> QED BY <1>1, <1>2, <1>3, <1>4 DEF Handles

\* What needs no request, and what others do, keeps the shape.
LEMMA LocalShape ==
  ASSUME Shape, Local
  PROVE  Shape'
<1> USE DEF Shape
<1>r. /\ \A k \in Kind : list[k] \in ListRecord /\ Agrees(list[k])
      /\ GoodLists(list)
  BY DEF GoodLists
<1>t. Turn => turns' \in 0 .. MaxTurns /\ turns' = turns + 1 /\ turns \in Nat
              /\ 0 .. Cardinality(Item) + turns \subseteq 0 .. Cardinality(Item) + turns'
  BY PagesExist, AdminConstants DEF Turn, RowsOK
<1>1. ASSUME NEW k \in Kind, NEW f \in Filters, EditFilter(k, f)
      PROVE  Shape'
  <2> DEFINE N == [list[k] EXCEPT !.filter = f]
  <2>1. N \in ListRecord /\ Agrees(N) /\ N.selected = list[k].selected
    BY <1>r DEF ListRecord, Agrees
  <2>2. list' = [list EXCEPT ![k] = N]
    BY <1>1, <1>r DEF EditFilter, GoodLists
  <2> HIDE DEF N
  <2>3. GoodLists(list)'
    BY <1>r, <2>1, <2>2, GoodOne DEF GoodLists
  <2>4. req' = Stale(k, req)
    BY <1>1 DEF EditFilter, Stale
  <2>5. req' \in [Slot -> Request]
    BY <2>4, StaleRequests
  <2>6. RowsOK'
    BY <1>1, <1>t DEF EditFilter, RowsOK
  <2> QED BY <1>1, <2>3, <2>5, <2>6 DEF EditFilter, ViewOK, QueryOK, DialogOK, DetailOK
<1>2. ASSUME NEW k \in Kind, NEW i \in Item, TickRow(k, i)
      PROVE  Shape'
  <2> DEFINE ticks == IF i \in list[k].ticked THEN list[k].ticked \ {i}
                      ELSE list[k].ticked \cup {i}
             N == OnSelectionChange([list[k] EXCEPT !.ticked = ticks], ticks)
  <2>1. ticks \in SUBSET list[k].rows
    BY <1>2, <1>r DEF TickRow, Agrees
  <2>2. N \in ListRecord /\ Agrees(N)
    <3> HIDE DEF ticks
    <3> QED BY <1>r, <2>1, RowTicked
  <2>3. list' = [list EXCEPT ![k] = N] /\ k # "servers"
    BY <1>2 DEF TickRow, OnlyList, Selectable
  <2> HIDE DEF N
  <2>4. GoodLists(list)'
    BY <1>r, <2>2, <2>3, GoodOne
  <2> QED BY <1>2, <2>4 DEF TickRow, OnlyList, ViewOK, QueryOK, DialogOK, DetailOK, RowsOK
<1>3. ASSUME NEW k \in Selectable, SelectOnCurrentPage(k) \/ ClearOf(k)
      PROVE  Shape'
  <2>0. k \in Kind /\ k # "servers"
    BY DEF Selectable
  <2>1. PICK N \in {SelectPage(list[k]), ClearSelection(list[k])} : OnlyList(k, N)
    BY <1>3 DEF SelectOnCurrentPage, ClearOf
  <2>2. N \in ListRecord /\ Agrees(N)
    BY <1>r, <2>0, PageSelected, SelectionCleared DEF Agrees
  <2>3. GoodLists(list)'
    BY <1>r, <2>0, <2>1, <2>2, GoodOne DEF OnlyList
  <2> QED BY <2>1, <2>3 DEF OnlyList, ViewOK, QueryOK, DialogOK, DetailOK, RowsOK
<1>4. ASSUME NEW k \in Detailed, CloseDrawer(k)
      PROVE  Shape'
  BY <1>4 DEF CloseDrawer, ViewOK, QueryOK, DialogOK, DetailOK, RowsOK
<1>5. ASSUME NEW op \in Operations, NEW ids \in SUBSET Item, Ask(op, ids)
      PROVE  Shape'
  BY <1>5 DEF Ask, ViewOK, QueryOK, DialogOK, DetailOK, RowsOK
<1>6. ASSUME Cancel
      PROVE  Shape'
  BY <1>6 DEF Cancel, ViewOK, QueryOK, DialogOK, DetailOK, RowsOK
<1>7. ASSUME NEW k \in Kind, Churn(k)
      PROVE  Shape'
  <2>1. req' \in [Slot -> Request]
    BY <1>7, StaleRequests DEF Churn
  <2>2. RowsOK'
    <3> DEFINE upto == 0 .. Cardinality(Item) + turns'
    <3>1. db \in [Kind -> [Item -> upto]]
      BY <1>7, <1>t DEF Churn, RowsOK
    <3>2. 0 \in upto /\ Cardinality(Item) + turns' \in upto
      BY <1>7, <1>t, PagesExist DEF Churn
    <3>3. PICK i \in Item :
            db' = [db EXCEPT ![k][i] = IF @ = 0 THEN Cardinality(Item) + turns' ELSE 0]
      BY <1>7 DEF Churn
    <3>4. db' \in [Kind -> [Item -> upto]]
      <4> HIDE DEF upto
      <4> QED BY <3>1, <3>2, <3>3
    <3> QED BY <1>7, <1>t, <3>4 DEF Churn, RowsOK
  <2> QED BY <1>7, <2>1, <2>2 DEF Churn, ViewOK, QueryOK, DialogOK, DetailOK
<1> QED BY <1>1, <1>2, <1>3, <1>4, <1>5, <1>6, <1>7 DEF Local

\* A page just opened has the shape, and its rows were made apart.
LEMMA InitShape ==
  ASSUME Init
  PROVE  Shape /\ MadeApart
<1>1. query \in FirstVisit /\ role \in Roles /\ tab = query.tab
  BY DEF Init
<1>2. /\ query \in [tab : Kind, page : [Kind -> Pages], filter : [Kind -> Filters]]
      /\ query.tab \in Kind
  <2>1. [k \in Kind |-> 1] \in [Kind -> Pages] /\ [k \in Kind |-> "all"] \in [Kind -> Filters]
    BY PagesExist, AdminConstants
  <2> QED BY <1>1, <2>1 DEF FirstVisit
<1>3. GoodLists(list)
  <2> DEFINE M(k) == [NewList EXCEPT !.loading = k = query.tab]
  <2>1. \A k \in Kind : M(k) \in ListRecord /\ Agrees(M(k)) /\ M(k).selected = {}
    <3>1. ASSUME NEW b \in BOOLEAN
          PROVE  LET N == [NewList EXCEPT !.loading = b] IN
                 N \in ListRecord /\ Agrees(N) /\ N.selected = {}
      <4>1. NewList \in ListRecord /\ Agrees(NewList) /\ NewList.selected = {}
        BY PagesExist, AdminConstants DEF NewList, ListRecord, Agrees
      <4>2. ASSUME NEW L \in ListRecord, Agrees(L), L.selected = {}
            PROVE  LET N == [L EXCEPT !.loading = b] IN
                   N \in ListRecord /\ Agrees(N) /\ N.selected = {}
        BY <4>2 DEF ListRecord, Agrees
      <4> QED BY <4>1, <4>2
    <3>2. \A k \in Kind : (k = query.tab) \in BOOLEAN
      OBVIOUS
    <3> QED BY <3>1, <3>2
  <2>2. list = [k \in Kind |-> M(k)]
    BY DEF Init
  <2> HIDE DEF M
  <2> QED BY <2>1, <2>2 DEF GoodLists
<1>4. DetailOK /\ DialogOK /\ consent \in SUBSET Item
  BY DEF Init, DetailOK, ClosedDrawer, DialogOK
<1>5. RowsOK /\ MadeApart
  <2> DEFINE n == Cardinality(Item)
             made == CHOOSE f \in Bijection(Item, 1 .. n) : TRUE
  <2>1. ExistsBijection(Item, 1 .. n)
    <3>1. n \in Nat /\ IsFiniteSet(Item)
      BY PagesExist, AdminConstants
    <3>2. IsFiniteSet(1 .. n) /\ Cardinality(1 .. n) = n
      BY <3>1, FS_Interval
    <3> QED BY <3>1, <3>2, FS_SameCardinalityBij
  <2>2. made \in Bijection(Item, 1 .. n)
    BY <2>1 DEF ExistsBijection
  <2>3. made \in [Item -> 1 .. n] /\ \A i, j \in Item : made[i] = made[j] => i = j
    BY <2>2 DEF Bijection, Injection, IsInjective
  <2>4. db = [k \in Kind |-> made] /\ turns = 0
    BY DEF Init
  <2> HIDE DEF made
  <2>5. made \in [Item -> 0 .. n + 0]
    BY <2>3, PagesExist
  <2> QED BY <2>3, <2>4, <2>5, AdminConstants DEF RowsOK, MadeApart
<1>6. req \in [Slot -> Request]
  <2>1. LoadRequest(query.tab, 1, "all", <<>>) \in LoadSent
    BY <1>2, PagesExist, AdminConstants DEF LoadRequest, LoadSent
  <2> QED BY <2>1 DEF Init, Request
<1> QED BY <1>1, <1>2, <1>3, <1>4, <1>5, <1>6 DEF Shape, ViewOK, QueryOK

\* Every step keeps the shape.
LEMMA StepShape ==
  ASSUME Shape, [Next]_vars
  PROVE  Shape'
<1>1. CASE UNCHANGED vars
  BY <1>1 DEF vars, Shape, ViewOK, QueryOK, DialogOK, DetailOK, RowsOK
<1>2. CASE Next
  BY <1>2, StepKinds, SendsShape, ServeShape, HandlesShape, LocalShape
<1> QED BY <1>1, <1>2

\* Every variable keeps its type, on every page: the pager stays within the
\* pages, chains of loads among the lists, and a server is never selected.
THEOREM AdminTypes == Spec => []TypeOK
<1>1. Init => Shape
  BY InitShape
<1>2. Shape /\ [Next]_vars => Shape'
  BY StepShape
<1>3. Shape => TypeOK
  BY ShapeTypes
<1> QED BY <1>1, <1>2, <1>3, PTL DEF Spec

\* Whatever is loaded, fails, comes late, is selected or cleared: of the rows on
\* screen those shown ticked are those selected, which a batch acts on.
THEOREM TicksAlwaysAgree == Spec => []TicksAgree
<1>1. Init => Shape
  BY InitShape
<1>2. Shape /\ [Next]_vars => Shape'
  BY StepShape
<1>3. Shape => TicksAgree
  BY ShapeTypes
<1> QED BY <1>1, <1>2, <1>3, PTL DEF Spec

-----------------------------------------------------------------------------
(* What becomes of the requests *)

\* A free slot is used by what the user sends, and by nothing else.
LEMMA FreeSlots ==
  ASSUME Shape, NEW d \in Slot, Free(d),
         (\E c \in Slot : Serve(c) \/ Handles(c)) \/ Local
  PROVE  req'[d] = Idle
<1>s. ASSUME NEW k, NEW rs, rs \in [Slot -> Request], rs[d] = Idle
      PROVE  Stale(k, rs)[d] = Idle
  BY <1>s DEF Stale, Idle
<1>r. req \in [Slot -> Request] /\ req[d] = Idle
  BY DEF Shape, Free
<1>1. ASSUME NEW c \in Slot, Serve(c)
      PROVE  req'[d] = Idle
  <2>1. c # d
    BY <1>1, <1>r DEF Serve, ServeLoad, ServeSelect, ServeAct, ServeDetail, FailRequest, Free, Idle
  <2>2. CASE ServeAct(c) /\ req[c].op \in Deletes
    <3>1. PICK st \in {"ok", "failed"} :
            req' = Stale(KindOf(req[c].op), [req EXCEPT ![c].st = st])
      BY <2>2 DEF ServeAct
    <3>2. [req EXCEPT ![c].st = st] \in [Slot -> Request]
      BY <1>r, <2>2, AnswerShape DEF ServeAct
    <3> QED BY <1>r, <1>s, <2>1, <3>1, <3>2
  <2>3. CASE ~(ServeAct(c) /\ req[c].op \in Deletes)
    BY <1>1, <1>r, <2>1, <2>3 DEF Serve, ServeLoad, ServeSelect, ServeAct, ServeDetail, FailRequest
  <2> QED BY <2>2, <2>3
<1>2. ASSUME NEW c \in Slot, Handles(c)
      PROVE  req'[d] = Idle
  <2>1. c # d
    <3>1. (\E k \in Kind : LoadAnswered(c, k)) => req[c].what = "load"
      BY DEF LoadAnswered
    <3>2. SelectAnswered(c) => req[c].what = "select"
      BY DEF SelectAnswered
    <3>3. ActAnswered(c) => req[c].what = "act"
      BY DEF ActAnswered
    <3>4. DetailAnswered(c) => req[c].what = "detail"
      BY DEF DetailAnswered
    <3> QED BY <1>2, <1>r, <3>1, <3>2, <3>3, <3>4 DEF Handles, Idle
  <2> QED
    BY <1>2, <1>r, <2>1
    DEF Handles, LoadAnswered, AfterLoad, SelectAnswered, ActAnswered, DetailAnswered, StartLoad, Done
<1>3. ASSUME Local
      PROVE  req'[d] = Idle
  <2>1. UNCHANGED req \/ \E k \in Kind : req' = Stale(k, req)
    BY <1>3
    DEF Local, EditFilter, TickRow, SelectOnCurrentPage, ClearOf, CloseDrawer, Ask, Cancel, Churn,
        OnlyList, Stale
  <2> QED BY <1>r, <1>s, <2>1
<1> QED BY <1>1, <1>2, <1>3

\* Every load and every selection that is on its way stays so.
KeepsAwaited ==
  \A d \in Slot : req[d].what \in {"load", "select"} =>
                  req'[d].what = req[d].what /\ req'[d].kind = req[d].kind

\* Marking selections as disturbed keeps what is awaited.
LEMMA StaleKeeps ==
  ASSUME NEW k, NEW rs \in [Slot -> Request], NEW d \in Slot, rs[d].what \in {"load", "select"}
  PROVE  Stale(k, rs)[d].what = rs[d].what /\ Stale(k, rs)[d].kind = rs[d].kind
<1>1. ASSUME NEW r \in SelectSent \cup SelectServed
      PROVE  [r EXCEPT !.fresh = FALSE].what = r.what /\ [r EXCEPT !.fresh = FALSE].kind = r.kind
  BY DEF SelectSent, SelectServed
<1> QED BY <1>1, RequestKinds DEF Stale

\* A slot that awaited neither load nor selection may be given any request.
LEMMA OtherSlot ==
  ASSUME req \in [Slot -> Request], NEW c \in Slot, req[c].what \notin {"load", "select"}, NEW r,
         req' = [req EXCEPT ![c] = r]
  PROVE  KeepsAwaited
BY DEF KeepsAwaited

\* What needs no request ends neither load nor selection.
LEMMA LocalKeeps ==
  ASSUME req \in [Slot -> Request], Local
  PROVE  KeepsAwaited
<1>1. UNCHANGED req \/ \E k \in Kind : req' = Stale(k, req)
  BY DEF Local, EditFilter, TickRow, SelectOnCurrentPage, ClearOf, CloseDrawer, Ask, Cancel, Churn,
         OnlyList, Stale
<1> QED BY <1>1, StaleKeeps DEF KeepsAwaited

\* Only a reload and the handling of an answer end a load or a selection.
LEMMA AwaitedKept ==
  ASSUME Shape, NEW c \in Slot,
         (Sends(c) /\ ~Mount(c)) \/ Serve(c) \/ ActAnswered(c) \/ DetailAnswered(c)
  PROVE  KeepsAwaited
<1>r. req \in [Slot -> Request] /\ Idle.what = "idle"
  BY DEF Shape, Idle
<1>1. ASSUME Sends(c), ~Mount(c)
      PROVE  KeepsAwaited
  <2>1. Free(c) /\ \E r : req' = [req EXCEPT ![c] = r]
    BY <1>1 DEF Sends, HandlePageChange, Refresh, RefreshServers, HandleTabChange, LoadOnly, StartLoad,
                SelectAllFiltered, OpenDetail, Save, Confirm
  <2> QED BY <1>r, <2>1, OtherSlot DEF Free
<1>2. ASSUME Serve(c)
      PROVE  KeepsAwaited
  <2>1. CASE ServeLoad(c)
    BY <1>r, <2>1 DEF ServeLoad, KeepsAwaited
  <2>2. CASE ServeSelect(c)
    BY <1>r, <2>2 DEF ServeSelect, KeepsAwaited
  <2>3. CASE ServeAct(c)
    <3>1. \A st : [req EXCEPT ![c].st = st] = [req EXCEPT ![c] = [req[c] EXCEPT !.st = st]]
      BY <1>r
    <3>2. \A st \in {"ok", "failed"} : [req EXCEPT ![c].st = st] \in [Slot -> Request]
      BY <1>r, <2>3, AnswerShape DEF ServeAct
    <3>3. PICK st \in {"ok", "failed"} :
            \/ req' = [req EXCEPT ![c].st = st]
            \/ req' = Stale(KindOf(req[c].op), [req EXCEPT ![c].st = st])
      BY <2>3 DEF ServeAct
    <3> DEFINE rs == [req EXCEPT ![c].st = st]
    <3>4. \A d \in Slot : req[d].what \in {"load", "select"} => rs[d] = req[d]
      BY <1>r, <2>3 DEF ServeAct
    <3>5. rs \in [Slot -> Request]
      BY <3>2
    <3>6. req' = rs \/ req' = Stale(KindOf(req[c].op), rs)
      BY <3>3
    <3> HIDE DEF rs
    <3> QED BY <3>4, <3>5, <3>6, StaleKeeps DEF KeepsAwaited
  <2>4. CASE ServeDetail(c)
    BY <1>r, <2>4 DEF ServeDetail, KeepsAwaited
  <2>5. CASE FailRequest(c)
    <3>1. ASSUME NEW r \in LoadSent \cup SelectSent
          PROVE  [r EXCEPT !.st = "failed"].what = r.what /\ [r EXCEPT !.st = "failed"].kind = r.kind
      BY DEF LoadSent, SelectSent
    <3>2. req[c].what \in {"load", "select"} => req[c] \in LoadSent \cup SelectSent
      BY <1>r, <2>5, RequestKinds DEF FailRequest
    <3> QED BY <1>r, <2>5, <3>1, <3>2 DEF FailRequest, KeepsAwaited
  <2> QED BY <1>2, <2>1, <2>2, <2>3, <2>4, <2>5 DEF Serve
<1>3. ASSUME ActAnswered(c) \/ DetailAnswered(c)
      PROVE  KeepsAwaited
  <2>1. req[c].what \notin {"load", "select"} /\ \E r : req' = [req EXCEPT ![c] = r]
    BY <1>3 DEF ActAnswered, DetailAnswered, StartLoad, Done
  <2> QED BY <1>r, <2>1, OtherSlot
<1> QED BY <1>1, <1>2, <1>3

-----------------------------------------------------------------------------
(* Consent *)

\* The ids of the open question stay those that were asked for.
LEMMA ConsentStep ==
  ASSUME Shape, ConsentOK, [Next]_vars
  PROVE  ConsentOK'
<1>1. CASE UNCHANGED vars
  BY <1>1 DEF vars, ConsentOK
<1>2. ASSUME NEW c \in Slot, Sends(c)
      PROVE  ConsentOK'
  <2>1. CASE Mount(c)
    BY <2>1 DEF Mount, ConsentOK
  <2>2. CASE Confirm(c)
    BY <2>2 DEF Confirm, ConsentOK
  <2>3. CASE ~Mount(c) /\ ~Confirm(c)
    <3>1. UNCHANGED <<dialog, consent>>
      BY <1>2, <2>3 DEF Sends, HandlePageChange, Refresh, RefreshServers, HandleTabChange, LoadOnly,
                        SelectAllFiltered, OpenDetail, Save
    <3> QED BY <3>1 DEF ConsentOK
  <2> QED BY <2>1, <2>2, <2>3
<1>3. ASSUME NEW c \in Slot, Serve(c) \/ Handles(c)
      PROVE  ConsentOK'
  <2>1. UNCHANGED <<dialog, consent>>
    BY <1>3 DEF Serve, ServeLoad, ServeSelect, ServeAct, ServeDetail, FailRequest, Handles,
                LoadAnswered, AfterLoad, SelectAnswered, ActAnswered, DetailAnswered
  <2> QED BY <2>1 DEF ConsentOK
<1>4. ASSUME Local
      PROVE  ConsentOK'
  <2>1. CASE \E op \in Operations, ids \in SUBSET Item : Ask(op, ids)
    BY <2>1 DEF Ask, ConsentOK
  <2>2. CASE Cancel
    BY <2>2 DEF Cancel, ConsentOK
  <2>3. CASE ~(\E op \in Operations, ids \in SUBSET Item : Ask(op, ids)) /\ ~Cancel
    <3>1. UNCHANGED <<dialog, consent>>
      BY <1>4, <2>3 DEF Local, EditFilter, TickRow, SelectOnCurrentPage, ClearOf, CloseDrawer, Churn,
                        OnlyList
    <3> QED BY <3>1 DEF ConsentOK
  <2> QED BY <2>1, <2>2, <2>3
<1> QED BY <1>1, <1>2, <1>3, <1>4, StepKinds

\* While a question is open, only its confirmation sends an operation.
LEMMA ConsentHeld ==
  ASSUME Shape, ConsentOK, [Next]_vars, NEW c \in Slot, Free(c), req'[c].what = "act",
         dialog # NoDialog
  PROVE  req'[c].ids = consent
<1>r. req \in [Slot -> Request] /\ req[c] = Idle
  BY DEF Shape, Free
<1>1. req'[c] # Idle
  BY DEF Idle
<1>2. Next /\ ~Local /\ ~(\E d \in Slot : Serve(d) \/ Handles(d))
  BY <1>1, <1>r, FreeSlots DEF vars
<1>3. PICK d \in Slot : Sends(d)
  BY <1>2, StepKinds
<1>4. ~Uncovered
  BY DEF Uncovered
<1>5. Mount(d) \/ Confirm(d)
  BY <1>3, <1>4 DEF Sends, HandlePageChange, Refresh, RefreshServers, HandleTabChange, At,
                    SelectAllFiltered, OpenDetail, Save
<1>6. CASE Mount(d)
  BY <1>6 DEF Mount, LoadRequest, Idle
<1>7. CASE Confirm(d)
  <2>1. req'[c] = ActRequest(dialog.op, dialog.ids)
    BY <1>1, <1>7, <1>r DEF Confirm, Asked
  <2> QED BY <2>1 DEF ActRequest, ConsentOK
<1> QED BY <1>5, <1>6, <1>7

\* A batch acts on the ids that were selected when its button was pressed,
\* whatever late answers do to the selection while the question is open.
THEOREM ConsentAlwaysHeld == Spec => ConsentedOnly
<1>1. Init => Shape /\ ConsentOK
  BY InitShape DEF Init, ConsentOK
<1>2. Shape /\ ConsentOK /\ [Next]_vars => (Shape /\ ConsentOK)'
  BY StepShape, ConsentStep
<1>3. Shape /\ ConsentOK /\ [Next]_vars =>
        [\A c \in Slot : Free(c) /\ req'[c].what = "act" /\ dialog # NoDialog
           => req'[c].ids = consent]_vars
  BY ConsentHeld
<1> QED BY <1>1, <1>2, <1>3, PTL DEF Spec, ConsentedOnly

-----------------------------------------------------------------------------
(* The drawers *)

\* A drawer that is open and not loading goes on showing somebody.
LEMMA DrawerStep ==
  ASSUME Shape, DrawerShowsSomebody, [Next]_vars
  PROVE  DrawerShowsSomebody'
<1>1. CASE UNCHANGED detail
  BY <1>1 DEF DrawerShowsSomebody
<1>d. DetailOK
  BY DEF Shape
<1>2. ASSUME NEW c \in Slot, Sends(c)
      PROVE  DrawerShowsSomebody'
  <2>1. CASE Mount(c)
    BY <2>1 DEF Mount, ClosedDrawer, DrawerShowsSomebody
  <2>2. CASE \E k \in Detailed, i \in Item : OpenDetail(c, k, i)
    BY <2>2, <1>d DEF OpenDetail, DrawerShowsSomebody, DetailOK
  <2>3. CASE ~Mount(c) /\ ~(\E k \in Detailed, i \in Item : OpenDetail(c, k, i))
    <3>1. UNCHANGED detail
      BY <1>2, <2>3 DEF Sends, HandlePageChange, Refresh, RefreshServers, HandleTabChange, LoadOnly,
                        SelectAllFiltered, Save, Confirm
    <3> QED BY <1>1, <3>1
  <2> QED BY <2>1, <2>2, <2>3
<1>3. ASSUME NEW c \in Slot, Serve(c)
      PROVE  DrawerShowsSomebody'
  BY <1>1, <1>3 DEF Serve, ServeLoad, ServeSelect, ServeAct, ServeDetail, FailRequest
<1>4. ASSUME NEW c \in Slot, Handles(c)
      PROVE  DrawerShowsSomebody'
  <2>1. CASE DetailAnswered(c)
    <3>1. req[c].kind \in Detailed /\ req[c].id \in Item /\ None \notin Item
      BY <2>1, RequestKinds, AdminConstants DEF DetailAnswered, DetailAny, Shape
    <3> QED BY <2>1, <3>1, <1>d DEF DetailAnswered, DetailOK, Closing, DrawerShowsSomebody
  <2>2. CASE ~DetailAnswered(c)
    <3>1. UNCHANGED detail
      BY <1>4, <2>2 DEF Handles, LoadAnswered, AfterLoad, SelectAnswered, ActAnswered
    <3> QED BY <1>1, <3>1
  <2> QED BY <2>1, <2>2
<1>5. ASSUME Local
      PROVE  DrawerShowsSomebody'
  <2>1. CASE \E k \in Detailed : CloseDrawer(k)
    BY <2>1, <1>d DEF CloseDrawer, DrawerShowsSomebody, DetailOK
  <2>2. CASE ~(\E k \in Detailed : CloseDrawer(k))
    <3>1. UNCHANGED detail
      BY <1>5, <2>2 DEF Local, EditFilter, TickRow, SelectOnCurrentPage, ClearOf, Ask, Cancel, Churn,
                        OnlyList
    <3> QED BY <1>1, <3>1
  <2> QED BY <2>1, <2>2
<1> QED BY <1>1, <1>2, <1>3, <1>4, <1>5, StepKinds DEF vars

\* A drawer that is open and not loading shows somebody, however its opening,
\* closing and answers overlap.
THEOREM DrawersAlwaysShow == Spec => []DrawerShowsSomebody
<1>1. Init => Shape /\ DrawerShowsSomebody
  BY InitShape DEF Init, ClosedDrawer, DrawerShowsSomebody
<1>2. Shape /\ DrawerShowsSomebody /\ [Next]_vars => (Shape /\ DrawerShowsSomebody)'
  BY StepShape, DrawerStep
<1> QED BY <1>1, <1>2, PTL DEF Spec

-----------------------------------------------------------------------------
(* The address bar *)

\* Once sent, a load is on its way, in its slot alone.
LEMMA SentIsLoading ==
  ASSUME req \in [Slot -> Request], NEW c \in Slot, NEW ls, NEW k, NEW page, NEW next,
         StartLoad(c, ls, k, page, next)
  PROVE  Loading(k)' /\ \A d \in Slot \ {c} : req'[d] = req[d]
<1>1. req'[c] = LoadRequest(k, page, ls[k].filter, next)
  BY DEF StartLoad
<1>2. req'[c].what = "load" /\ req'[c].kind = k
  BY <1>1 DEF LoadRequest
<1> QED BY <1>2 DEF StartLoad, Loading

\* The pages and the tab in view are as they were, and every load is still on its way.
PlaceKept ==
  /\ \A k \in Kind : Loading(k) => Loading(k)'
  /\ UNCHANGED <<tab, query>>
  /\ \A k \in Kind : list'[k].page = list[k].page

\* A step leaves a load on its way, or the place as it was, or it writes the
\* place into the address bar.
LEMMA PlaceCases ==
  ASSUME Shape, [Next]_vars
  PROVE  \/ \E k \in Kind : Loading(k)'
         \/ PlaceKept
         \/ UNCHANGED tab /\ query' = QueryOf(tab, list')
<1> DEFINE Goal == \/ \E k \in Kind : Loading(k)'
                   \/ PlaceKept
                   \/ UNCHANGED tab /\ query' = QueryOf(tab, list')
<1>r. /\ req \in [Slot -> Request]
      /\ \A k \in Kind : list[k] \in ListRecord
      /\ list \in [Kind -> ListRecord]
      /\ query.tab \in Kind
  BY DEF Shape, GoodLists, QueryOK
<1>k. KeepsAwaited => \A k \in Kind : Loading(k) => Loading(k)'
  BY DEF KeepsAwaited, Loading
<1>1. CASE UNCHANGED vars
  BY <1>1 DEF vars, PlaceKept, Loading
<1>2. ASSUME NEW c \in Slot, Sends(c)
      PROVE  Goal
  <2>1. ASSUME NEW k \in Kind, NEW ls, NEW page, NEW next, StartLoad(c, ls, k, page, next)
        PROVE  Goal
    BY <1>r, <2>1, SentIsLoading
  <2>2. CASE \E k \in Kind, p \in 1 .. Cardinality(Item) + 1 : HandlePageChange(c, k, p)
    BY <2>1, <2>2 DEF HandlePageChange, LoadOnly
  <2>3. CASE (\E k \in Selectable : Refresh(c, k)) \/ RefreshServers(c)
    BY <2>1, <2>3 DEF Refresh, RefreshServers, LoadOnly, Selectable, At
  <2>4. CASE \E k \in Kind : HandleTabChange(c, k)
    BY <2>1, <2>4 DEF HandleTabChange
  <2>5. CASE Mount(c)
    <3>1. req'[c] = LoadRequest(query.tab, query.page[query.tab], query.filter[query.tab], <<>>)
      BY <2>5 DEF Mount
    <3>2. req'[c].what = "load" /\ req'[c].kind = query.tab
      BY <3>1 DEF LoadRequest
    <3> QED BY <1>r, <3>2 DEF Loading
  <2>6. CASE \/ \E k \in Selectable : SelectAllFiltered(c, k)
             \/ \E k \in Detailed, i \in Item : OpenDetail(c, k, i)
             \/ \E op \in Operations, i \in Item : Save(c, op, i)
             \/ Confirm(c)
    <3>1. UNCHANGED <<tab, query>>
      BY <2>6 DEF SelectAllFiltered, OpenDetail, Save, Confirm
    <3>2. UNCHANGED list \/ \E k \in Selectable : list' = [list EXCEPT ![k].selecting = TRUE]
      BY <2>6 DEF SelectAllFiltered, OpenDetail, Save, Confirm
    <3>3. \A k \in Kind : list'[k].page = list[k].page
      BY <1>r, <3>2 DEF ListRecord, Selectable
    <3>4. CASE Mount(c)
      BY <2>5, <3>4
    <3>5. CASE ~Mount(c)
      BY <1>2, <1>k, <3>1, <3>3, <3>5, AwaitedKept DEF PlaceKept
    <3> QED BY <3>4, <3>5
  <2> QED BY <1>2, <2>2, <2>3, <2>4, <2>5, <2>6 DEF Sends
<1>3. ASSUME NEW c \in Slot, Serve(c)
      PROVE  Goal
  <2>1. UNCHANGED <<tab, query, list>>
    BY <1>3 DEF Serve, ServeLoad, ServeSelect, ServeAct, ServeDetail, FailRequest
  <2> QED BY <1>3, <1>k, <2>1, AwaitedKept DEF PlaceKept
<1>4. ASSUME NEW c \in Slot, Handles(c)
      PROVE  Goal
  <2>1. ASSUME NEW k \in Kind, LoadAnswered(c, k)
        PROVE  Goal
    <3>1. req[c].kind = k /\ req[c].next \in Seq(Kind) /\ \E L \in ListRecord : AfterLoad(c, L)
      BY <2>1, LoadHandled
    <3>2. PICK L : AfterLoad(c, L)
      BY <3>1
    <3> DEFINE ls == [list EXCEPT ![req[c].kind] = Unmasked(L)]
    <3>3. /\ query' = QueryOf(tab, ls) /\ UNCHANGED tab
          /\ \/ list' = ls
             \/ req[c].next # <<>> /\ StartLoad(c, ls, Head(req[c].next), 1, Tail(req[c].next))
      BY <3>2 DEF AfterLoad
    <3> HIDE DEF ls
    <3>4. req[c].next # <<>> => Head(req[c].next) \in Kind
      BY <3>1
    <3> QED BY <1>r, <3>3, <3>4, SentIsLoading
  <2>2. CASE SelectAnswered(c)
    <3>1. UNCHANGED <<tab, query>>
      BY <2>2 DEF SelectAnswered
    <3>2. req[c].what = "select" /\ \E r : req' = [req EXCEPT ![c] = r]
      BY <2>2 DEF SelectAnswered, Done
    <3>3. \A k \in Kind : Loading(k) => Loading(k)'
      BY <1>r, <3>2 DEF Loading
    <3>4. req[c].kind \in Kind /\ (req[c].st = "ok" => req[c].rows \in SUBSET Item /\ req[c].acc \in SUBSET Item)
      BY <1>r, <2>2, RequestKinds DEF SelectAnswered, SelectSent, SelectServed, Selectable
    <3>5. \A k \in Kind : list'[k].page = list[k].page
      <4> DEFINE k == req[c].kind
                 M == [list[k] EXCEPT !.selected = req[c].acc \cup req[c].rows]
      <4>1. CASE UNCHANGED list
        BY <4>1
      <4>2. CASE list' = [list EXCEPT ![k].selecting = FALSE]
        BY <1>r, <3>4, <4>2 DEF ListRecord
      <4>3. CASE req[c].st = "ok" /\ list' = [list EXCEPT ![k] = [ApplySelection(M) EXCEPT !.selecting = FALSE]]
        <5>1. M \in ListRecord /\ M.page = list[k].page
          BY <1>r, <3>4, <4>3 DEF ListRecord
        <5> HIDE DEF M
        <5>2. ApplySelection(M) \in ListRecord /\ ApplySelection(M).page = M.page
          BY <5>1, Applied DEF SameFrame
        <5>3. [ApplySelection(M) EXCEPT !.selecting = FALSE].page = ApplySelection(M).page
          BY <5>2 DEF ListRecord
        <5> QED BY <1>r, <3>4, <4>3, <5>1, <5>2, <5>3
      <4>4. \/ UNCHANGED list
            \/ list' = [list EXCEPT ![k].selecting = FALSE]
            \/ req[c].st = "ok" /\ list' = [list EXCEPT ![k] = [ApplySelection(M) EXCEPT !.selecting = FALSE]]
        BY <1>r, <2>2, <3>4 DEF SelectAnswered
      <4> QED BY <4>1, <4>2, <4>3, <4>4
    <3> QED BY <3>1, <3>3, <3>5 DEF PlaceKept
  <2>3. CASE ActAnswered(c)
    <3>1. req[c] \in ActAny
      BY <1>r, <2>3, RequestKinds DEF ActAnswered
    <3>2. KindOf(req[c].op) \in Kind
      BY <3>1, OperationKinds DEF ActAny
    <3>3. \/ \E ls, page, next : StartLoad(c, ls, KindOf(req[c].op), page, next)
          \/ UNCHANGED <<list, tab, query>>
      BY <2>3 DEF ActAnswered
    <3> QED BY <1>r, <1>k, <2>3, <3>2, <3>3, SentIsLoading, AwaitedKept DEF PlaceKept
  <2>4. CASE DetailAnswered(c)
    <3>1. UNCHANGED <<list, tab, query>>
      BY <2>4 DEF DetailAnswered
    <3> QED BY <1>k, <2>4, <3>1, AwaitedKept DEF PlaceKept
  <2> QED BY <1>4, <2>1, <2>2, <2>3, <2>4 DEF Handles
<1>5. ASSUME Local
      PROVE  Goal
  <2>1. UNCHANGED <<tab, query>>
    BY <1>5 DEF Local, EditFilter, TickRow, SelectOnCurrentPage, ClearOf, CloseDrawer, Ask, Cancel,
                Churn, OnlyList
  <2>2. \A k \in Kind : Loading(k) => Loading(k)'
    BY <1>5, <1>r, <1>k, LocalKeeps
  <2>3. \A k \in Kind : list'[k].page = list[k].page
    <3>1. CASE \E k \in Kind, f \in Filters : EditFilter(k, f)
      BY <1>r, <3>1 DEF EditFilter, ListRecord
    <3>2. ASSUME NEW k \in Kind, NEW M, OnlyList(k, M), M.page = list[k].page
          PROVE  \A j \in Kind : list'[j].page = list[j].page
      BY <1>r, <3>2 DEF OnlyList
    <3>3. ASSUME NEW k \in Kind, NEW i \in Item, TickRow(k, i)
          PROVE  \A j \in Kind : list'[j].page = list[j].page
      <4>1. \A ticks : OnSelectionChange([list[k] EXCEPT !.ticked = ticks], ticks).page = list[k].page
        BY <1>r DEF OnSelectionChange, ListRecord
      <4>2. PICK M : OnlyList(k, M) /\ M.page = list[k].page
        BY <3>3, <4>1 DEF TickRow
      <4> QED BY <3>2, <4>2
    <3>4. CASE \E k \in Selectable : SelectOnCurrentPage(k) \/ ClearOf(k)
      BY <1>r, <3>2, <3>4, PageSelected, SelectionCleared
         DEF SelectOnCurrentPage, ClearOf, Selectable, SameFrame
    <3>5. CASE UNCHANGED list
      BY <3>5
    <3> QED BY <1>5, <3>1, <3>3, <3>4, <3>5 DEF Local, CloseDrawer, Ask, Cancel, Churn
  <2> QED BY <2>1, <2>2, <2>3 DEF PlaceKept
<1> QED BY <1>1, <1>2, <1>3, <1>4, <1>5, StepKinds

\* Without a load on its way, the address bar goes on having the place.
LEMMA AddressStep ==
  ASSUME Shape, AddressKeepsPlace, [Next]_vars
  PROVE  AddressKeepsPlace'
<1>1. CASE \E k \in Kind : Loading(k)'
  BY <1>1 DEF AddressKeepsPlace
<1>2. CASE PlaceKept
  BY <1>2 DEF PlaceKept, AddressKeepsPlace
<1>3. CASE UNCHANGED tab /\ query' = QueryOf(tab, list')
  BY <1>3 DEF QueryOf, AddressKeepsPlace
<1> QED BY <1>1, <1>2, <1>3, PlaceCases

\* Once no list is being loaded, the address bar has the tab and every page as
\* they are, so that a reload comes back to them.
THEOREM AddressAlwaysKept == Spec => []AddressKeepsPlace
<1>1. Init => Shape
  BY InitShape
<1>2. Init => AddressKeepsPlace
  <2> SUFFICES ASSUME Init PROVE \E k \in Kind : Loading(k)
    BY DEF AddressKeepsPlace
  <2>2. query.tab \in Kind
    BY <1>1 DEF Shape, QueryOK
  <2>3. PICK c \in Slot : req[c] = LoadRequest(query.tab, 1, "all", <<>>)
    BY DEF Init
  <2>4. req[c].what = "load" /\ req[c].kind = query.tab
    BY <2>3 DEF LoadRequest
  <2> QED BY <2>2, <2>4 DEF Loading
<1>3. Shape /\ AddressKeepsPlace /\ [Next]_vars => (Shape /\ AddressKeepsPlace)'
  BY StepShape, AddressStep
<1> QED BY <1>1, <1>2, <1>3, PTL DEF Spec

-----------------------------------------------------------------------------
(* Masks and busy buttons *)

Selecting(k) == \E c \in Slot : req[c].what = "select" /\ req[c].kind = k

\* No list is masked, and no button busy, that was not, but for a request.
FlagsKept ==
  \A k \in Kind : /\ list'[k].loading => list[k].loading \/ Loading(k)'
                  /\ list'[k].selecting => list[k].selecting \/ Selecting(k)'

\* Every list has the filter that it had.
FiltersKept == \A k \in Kind : list'[k].filter = list[k].filter

\* The flags keep their reasons while nothing awaited ends.
LEMMA ReasonsKept ==
  ASSUME BusyForAReason, KeepsAwaited, FlagsKept
  PROVE  BusyForAReason'
BY DEF BusyForAReason, KeepsAwaited, FlagsKept, Loading, Selecting

\* A load masks its own list only, and leaves the filters.
LEMMA LoadFlags ==
  ASSUME req \in [Slot -> Request], NEW c \in Slot, NEW ls, GoodLists(ls), NEW k \in Kind,
         NEW page \in Pages, NEW next, StartLoad(c, ls, k, page, next)
  PROVE  /\ Loading(k)'
         /\ \A j \in Kind : /\ list'[j].loading => ls[j].loading \/ j = k
                            /\ list'[j].selecting = ls[j].selecting
                            /\ list'[j].filter = ls[j].filter
<1>1. Loading(k)'
  BY SentIsLoading
<1>2. list' = Masked(ls, k, page)
  BY DEF StartLoad
<1> QED BY <1>1, <1>2, GoodMasked

\* What the user sends explains the flags that it sets, and leaves the filters.
LEMMA SendsFlags ==
  ASSUME Shape, NEW c \in Slot, Sends(c), ~Mount(c)
  PROVE  FlagsKept /\ FiltersKept
<1>r. /\ req \in [Slot -> Request] /\ GoodLists(list) /\ list \in [Kind -> ListRecord]
      /\ \A k \in Kind : list[k] \in ListRecord /\ list[k].page \in Pages
      /\ 1 \in Pages
  BY PagesExist DEF Shape, GoodLists, ListRecord
<1>1. ASSUME NEW k \in Kind, NEW ls, GoodLists(ls), NEW page \in Pages, NEW next,
             StartLoad(c, ls, k, page, next),
             \A j \in Kind : /\ ls[j].loading = list[j].loading /\ ls[j].selecting = list[j].selecting
                              /\ ls[j].filter = list[j].filter
      PROVE  FlagsKept /\ FiltersKept
  BY <1>r, <1>1, LoadFlags DEF FlagsKept, FiltersKept
<1>2. ASSUME NEW k \in Kind, NEW p \in 1 .. Cardinality(Item) + 1, HandlePageChange(c, k, p)
      PROVE  FlagsKept /\ FiltersKept
  <2>1. p \in Pages
    BY <1>r, <1>2, PagesExist DEF HandlePageChange
  <2> QED BY <1>r, <1>1, <1>2, <2>1 DEF HandlePageChange, LoadOnly
<1>3. ASSUME NEW k \in Selectable, Refresh(c, k)
      PROVE  FlagsKept /\ FiltersKept
  <2> DEFINE ls == [list EXCEPT ![k] = ClearSelection(list[k])]
  <2>0. k \in Kind
    BY DEF Selectable
  <2>1. GoodLists(ls)
    BY <1>r, <2>0, SelectionCleared, GoodOne DEF Agrees
  <2>2. StartLoad(c, ls, k, 1, <<>>)
    BY <1>3, <2>0, <1>r DEF Refresh, LoadOnly
  <2>3. \A j \in Kind : /\ ls[j].loading = list[j].loading /\ ls[j].selecting = list[j].selecting
                              /\ ls[j].filter = list[j].filter
    BY <1>r, <2>0, SelectionCleared DEF SameFrame
  <2> HIDE DEF ls
  <2> QED BY <1>r, <1>1, <2>0, <2>1, <2>2, <2>3
<1>4. ASSUME RefreshServers(c)
      PROVE  FlagsKept /\ FiltersKept
  BY <1>r, <1>1, <1>4 DEF RefreshServers, LoadOnly, At
<1>5. ASSUME NEW k \in Kind, HandleTabChange(c, k)
      PROVE  FlagsKept /\ FiltersKept
  BY <1>r, <1>1, <1>5 DEF HandleTabChange
<1>6. ASSUME NEW k \in Selectable, SelectAllFiltered(c, k)
      PROVE  FlagsKept /\ FiltersKept
  <2>0. k \in Kind
    BY DEF Selectable
  <2>1. req'[c] = SelectRequest(k, list[k].filter, 0, {}, TRUE)
    BY <1>r, <1>6 DEF SelectAllFiltered
  <2>2. req'[c].what = "select" /\ req'[c].kind = k
    BY <2>1 DEF SelectRequest
  <2>3. Selecting(k)'
    BY <2>2 DEF Selecting
  <2>4. \A j \in Kind : /\ list'[j].loading = list[j].loading /\ list'[j].filter = list[j].filter
                        /\ j # k => list'[j].selecting = list[j].selecting
    BY <1>6, <1>r, <2>0 DEF SelectAllFiltered, ListRecord
  <2> QED BY <2>3, <2>4 DEF FlagsKept, FiltersKept
<1>7. CASE \/ \E k \in Detailed, i \in Item : OpenDetail(c, k, i)
           \/ \E op \in Operations, i \in Item : Save(c, op, i)
           \/ Confirm(c)
  BY <1>7 DEF OpenDetail, Save, Confirm, FlagsKept, FiltersKept
<1> QED BY <1>2, <1>3, <1>4, <1>5, <1>6, <1>7 DEF Sends

\* What needs no request sets no flag, and only the editing of a filter changes one.
LEMMA LocalFlags ==
  ASSUME Shape, Local
  PROVE  FlagsKept /\ (FiltersKept \/ \E k \in Kind, f \in Filters : EditFilter(k, f))
<1>r. list \in [Kind -> ListRecord] /\ \A k \in Kind : list[k] \in ListRecord
  BY DEF Shape, GoodLists
<1>1. CASE \E k \in Kind, f \in Filters : EditFilter(k, f)
  BY ZenonT(30), <1>r, <1>1 DEF EditFilter, ListRecord, FlagsKept
<1>2. ASSUME NEW k \in Kind, NEW M, OnlyList(k, M),
             M.loading = list[k].loading, M.selecting = list[k].selecting,
             M.filter = list[k].filter
      PROVE  FlagsKept /\ FiltersKept
  BY <1>r, <1>2 DEF OnlyList, FlagsKept, FiltersKept
<1>3. ASSUME NEW k \in Kind, NEW i \in Item, TickRow(k, i)
      PROVE  FlagsKept /\ FiltersKept
  <2>1. \A ticks : LET M == OnSelectionChange([list[k] EXCEPT !.ticked = ticks], ticks) IN
                   /\ M.loading = list[k].loading /\ M.selecting = list[k].selecting
                   /\ M.filter = list[k].filter
    BY <1>r DEF OnSelectionChange, ListRecord
  <2>2. PICK M : OnlyList(k, M) /\ /\ M.loading = list[k].loading /\ M.selecting = list[k].selecting
                   /\ M.filter = list[k].filter
    BY <1>3, <2>1 DEF TickRow
  <2> QED BY <1>2, <2>2
<1>4. CASE \E k \in Selectable : SelectOnCurrentPage(k) \/ ClearOf(k)
  BY <1>r, <1>2, <1>4, PageSelected, SelectionCleared
     DEF SelectOnCurrentPage, ClearOf, Selectable, SameFrame
<1>5. CASE UNCHANGED list
  BY <1>5 DEF FlagsKept, FiltersKept
<1> QED BY <1>1, <1>3, <1>4, <1>5 DEF Local, CloseDrawer, Ask, Cancel, Churn

\* An operation's answer masks the list that it loads, and leaves the filters.
LEMMA ActFlags ==
  ASSUME Shape, NEW c \in Slot, ActAnswered(c)
  PROVE  FlagsKept /\ FiltersKept
<1> DEFINE op == req[c].op
           k == KindOf(op)
           ls == [j \in Kind |-> IF j \in ClearedBy(op) THEN ClearSelection(list[j]) ELSE list[j]]
           next == IF op = "deleteUsers" THEN Chain ELSE <<>>
<1>r. /\ req \in [Slot -> Request] /\ GoodLists(list)
      /\ \A j \in Kind : list[j] \in ListRecord /\ list[j].page \in Pages
  BY DEF Shape, GoodLists, ListRecord
<1>1. op \in Operations
  BY <1>r, RequestKinds DEF ActAnswered, ActAny
<1>2. k \in Kind
  BY <1>1, OperationKinds
<1>3. \A j \in Kind : /\ ClearSelection(list[j]) \in ListRecord
                      /\ Agrees(ClearSelection(list[j])) /\ ClearSelection(list[j]).selected = {}
                      /\ SameFrame(list[j], ClearSelection(list[j]))
  BY <1>r, SelectionCleared DEF Agrees
<1>4. GoodLists(ls)
  BY <1>r, <1>3 DEF GoodLists
<1>5. \A j \in Kind : /\ ls[j].loading = list[j].loading /\ ls[j].selecting = list[j].selecting
                      /\ ls[j].filter = list[j].filter
  BY <1>r, <1>3 DEF SameFrame
<1>6. StartLoad(c, ls, k, list[k].page, next) \/ UNCHANGED list
  BY DEF ActAnswered
<1>7. CASE StartLoad(c, ls, k, list[k].page, next)
  <2> HIDE DEF ls, k, next
  <2> QED BY <1>r, <1>2, <1>4, <1>5, <1>7, LoadFlags DEF FlagsKept, FiltersKept
<1> QED BY <1>6, <1>7 DEF FlagsKept, FiltersKept

\* An answered load takes the mask off its list, and masks at most the next.
LEMMA LoadBusy ==
  ASSUME Shape, BusyForAReason, NEW c \in Slot, NEW k \in Kind, LoadAnswered(c, k)
  PROVE  BusyForAReason' /\ FiltersKept
<1>r. /\ req \in [Slot -> Request] /\ GoodLists(list) /\ list \in [Kind -> ListRecord]
      /\ \A j \in Kind : list[j] \in ListRecord
      /\ 1 \in Pages /\ req[c].what = "load" /\ req[c].kind = k /\ req[c].next \in Seq(Kind)
  BY LoadHandled, PagesExist DEF Shape, GoodLists
<1>1. PICK L \in ListRecord : /\ Agrees(L) /\ (k = "servers" => L.selected = {})
                              /\ L.selecting = list[k].selecting /\ L.filter = list[k].filter
                              /\ AfterLoad(c, L)
  BY LoadHandled
<1> DEFINE ls == [list EXCEPT ![k] = Unmasked(L)]
           next == req[c].next
<1>2. GoodLists(ls)
  BY <1>r, <1>1, MaskOff, GoodOne
<1>3. /\ \A j \in Kind : ls[j].selecting = list[j].selecting /\ ls[j].filter = list[j].filter
      /\ ~ls[k].loading
      /\ \A j \in Kind \ {k} : ls[j].loading = list[j].loading
  BY <1>r, <1>1, MaskOff
<1>4. \/ list' = ls /\ req' = [req EXCEPT ![c] = Idle]
      \/ next # <<>> /\ StartLoad(c, ls, Head(next), 1, Tail(next))
  BY <1>r, <1>1 DEF AfterLoad, Done
<1> HIDE DEF ls
<1>5. \A d \in Slot \ {c} : req'[d] = req[d]
  BY <1>r, <1>4 DEF StartLoad
<1>6. ASSUME NEW j \in Kind
      PROVE  /\ j # k /\ Loading(j) => Loading(j)'
             /\ Selecting(j) => Selecting(j)'
  BY <1>r, <1>5 DEF Loading, Selecting
<1>7. CASE list' = ls
  BY <1>3, <1>6, <1>7 DEF BusyForAReason, Selecting, FiltersKept
<1>8. CASE next # <<>> /\ StartLoad(c, ls, Head(next), 1, Tail(next))
  <2>1. Head(next) \in Kind
    BY <1>r, <1>8
  <2>2. PICK h \in Kind : StartLoad(c, ls, h, 1, Tail(next))
    BY <1>8, <2>1
  <2>3. /\ Loading(h)'
        /\ \A j \in Kind : /\ list'[j].loading => ls[j].loading \/ j = h
                           /\ list'[j].selecting = ls[j].selecting
                           /\ list'[j].filter = ls[j].filter
    BY <1>r, <1>2, <2>1, <2>2, LoadFlags
  <2> QED BY <1>3, <1>6, <2>3 DEF BusyForAReason, Selecting, FiltersKept
<1> QED BY <1>4, <1>7, <1>8

\* An answered selection goes on, or frees its button.
LEMMA SelectBusy ==
  ASSUME Shape, BusyForAReason, NEW c \in Slot, SelectAnswered(c)
  PROVE  BusyForAReason' /\ FiltersKept
<1> DEFINE r == req[c]
           k == r.kind
           M == [list[k] EXCEPT !.selected = r.acc \cup r.rows]
<1>1. r \in SelectSent \cup SelectServed
  BY RequestKinds DEF SelectAnswered, Shape
<1>2. /\ k \in Kind /\ req \in [Slot -> Request] /\ list \in [Kind -> ListRecord]
      /\ list[k] \in ListRecord
  BY <1>1 DEF SelectSent, SelectServed, Selectable, Shape, GoodLists
<1>3. \/ UNCHANGED list /\ req'[c].what = "select" /\ req'[c].kind = k
      \/ \E N : /\ list' = [list EXCEPT ![k] = N]
                /\ N.loading = list[k].loading /\ N.selecting = FALSE /\ N.filter = list[k].filter
  <2>1. CASE r.st = "ok" /\ ~LastPage(r)
    <3>1. /\ UNCHANGED list
          /\ req'[c] = SelectRequest(k, list[k].filter, r.offset + Cardinality(r.rows),
                                     r.acc \cup r.rows, r.fresh)
      BY <1>2, <2>1 DEF SelectAnswered
    <3> QED BY <3>1 DEF SelectRequest
  <2>2. CASE r.st = "ok" /\ LastPage(r)
    <3>1. M \in ListRecord /\ M.loading = list[k].loading /\ M.filter = list[k].filter
      BY <1>1, <1>2, <2>2 DEF SelectSent, SelectServed, ListRecord
    <3>2. list' = [list EXCEPT ![k] = [ApplySelection(M) EXCEPT !.selecting = FALSE]]
      BY <1>2, <2>2 DEF SelectAnswered
    <3> HIDE DEF M
    <3>3. ApplySelection(M) \in ListRecord /\ ApplySelection(M).loading = M.loading
          /\ ApplySelection(M).filter = M.filter
      BY <3>1, Applied DEF SameFrame
    <3>4. [ApplySelection(M) EXCEPT !.selecting = FALSE].loading = M.loading
          /\ [ApplySelection(M) EXCEPT !.selecting = FALSE].selecting = FALSE
          /\ [ApplySelection(M) EXCEPT !.selecting = FALSE].filter = M.filter
      BY <3>3 DEF ListRecord
    <3> QED BY <3>1, <3>2, <3>4
  <2>3. CASE r.st = "failed"
    <3>1. list' = [list EXCEPT ![k] = [list[k] EXCEPT !.selecting = FALSE]]
      BY <1>2, <2>3 DEF SelectAnswered
    <3>2. [list[k] EXCEPT !.selecting = FALSE].loading = list[k].loading
          /\ [list[k] EXCEPT !.selecting = FALSE].selecting = FALSE
          /\ [list[k] EXCEPT !.selecting = FALSE].filter = list[k].filter
      BY <1>2 DEF ListRecord
    <3> QED BY <3>1, <3>2
  <2> QED BY <2>1, <2>2, <2>3 DEF SelectAnswered
<1>4. r.what = "select" /\ \E s : req' = [req EXCEPT ![c] = s]
  BY DEF SelectAnswered, Done
<1>5. ASSUME NEW j \in Kind
      PROVE  /\ Loading(j) => Loading(j)'
             /\ j # k /\ Selecting(j) => Selecting(j)'
  BY <1>2, <1>4 DEF Loading, Selecting
<1>6. CASE UNCHANGED list /\ req'[c].what = "select" /\ req'[c].kind = k
  <2>1. Selecting(k)'
    BY <1>6 DEF Selecting
  <2> QED BY <1>5, <1>6, <2>1 DEF BusyForAReason, Selecting, FiltersKept
<1>7. ASSUME NEW N, list' = [list EXCEPT ![k] = N], N.loading = list[k].loading, N.selecting = FALSE,
             N.filter = list[k].filter
      PROVE  BusyForAReason' /\ FiltersKept
  <2>1. /\ \A j \in Kind : list'[j].loading = list[j].loading /\ list'[j].filter = list[j].filter
        /\ ~list'[k].selecting
        /\ \A j \in Kind \ {k} : list'[j].selecting = list[j].selecting
    BY <1>2, <1>7
  <2> QED BY <1>5, <2>1 DEF BusyForAReason, Selecting, FiltersKept
<1> QED BY <1>3, <1>6, <1>7

\* Whatever happens, a mask and a busy button keep their reason.
LEMMA BusyStep ==
  ASSUME Shape, BusyForAReason, [Next]_vars
  PROVE  BusyForAReason'
<1>r. req \in [Slot -> Request] /\ query.tab \in Kind
  BY DEF Shape, QueryOK
<1>1. CASE UNCHANGED vars
  BY <1>1 DEF vars, BusyForAReason, Loading
<1>2. ASSUME NEW c \in Slot, Sends(c)
      PROVE  BusyForAReason'
  <2>1. CASE Mount(c)
    <3>1. req'[c] = LoadRequest(query.tab, query.page[query.tab], query.filter[query.tab], <<>>)
      BY <2>1 DEF Mount
    <3>2. \A k \in Kind : k = query.tab => Loading(k)'
      BY <3>1 DEF LoadRequest, Loading
    <3>3. \A k \in Kind : list'[k].loading = (k = query.tab) /\ ~list'[k].selecting
      BY <2>1 DEF Mount
    <3> QED BY <3>2, <3>3 DEF BusyForAReason
  <2>2. CASE ~Mount(c)
    BY <1>2, <2>2, AwaitedKept, SendsFlags, ReasonsKept
  <2> QED BY <2>1, <2>2
<1>3. ASSUME NEW c \in Slot, Serve(c)
      PROVE  BusyForAReason'
  <2>1. UNCHANGED list
    BY <1>3 DEF Serve, ServeLoad, ServeSelect, ServeAct, ServeDetail, FailRequest
  <2> QED BY <1>3, <2>1, AwaitedKept, ReasonsKept DEF FlagsKept
<1>4. ASSUME NEW c \in Slot, Handles(c)
      PROVE  BusyForAReason'
  <2>1. CASE DetailAnswered(c)
    <3>1. UNCHANGED list
      BY <2>1 DEF DetailAnswered
    <3> QED BY <2>1, <3>1, AwaitedKept, ReasonsKept DEF FlagsKept
  <2>2. CASE ActAnswered(c)
    BY <2>2, AwaitedKept, ActFlags, ReasonsKept
  <2> QED BY <1>4, <2>1, <2>2, LoadBusy, SelectBusy DEF Handles
<1>5. ASSUME Local
      PROVE  BusyForAReason'
  BY <1>r, <1>5, LocalKeeps, LocalFlags, ReasonsKept
<1> QED BY <1>1, <1>2, <1>3, <1>4, <1>5, StepKinds

\* On a page just opened, the list in view is masked, and is on its way.
LEMMA InitBusy ==
  ASSUME Init
  PROVE  BusyForAReason
<1>1. query.tab \in Kind
  BY InitShape DEF Shape, QueryOK
<1>2. PICK c \in Slot : req[c] = LoadRequest(query.tab, 1, "all", <<>>)
  BY <1>1 DEF Init
<1>3. Loading(query.tab)
  BY <1>2 DEF LoadRequest, Loading
<1>4. \A k \in Kind : list[k].loading = (k = query.tab) /\ ~list[k].selecting
  BY DEF Init, NewList
<1> QED BY <1>3, <1>4 DEF BusyForAReason

\* A list is masked only while a load of it is on its way, and its button busy
\* only while its selection is, whatever other answers and failures come between.
THEOREM BusyAlwaysExplained == Spec => []BusyForAReason
<1>1. Init => Shape
  BY InitShape
<1>2. Init => BusyForAReason
  BY InitBusy
<1>3. Shape /\ BusyForAReason /\ [Next]_vars => (Shape /\ BusyForAReason)'
  BY StepShape, BusyStep
<1> QED BY <1>1, <1>2, <1>3, PTL DEF Spec

-----------------------------------------------------------------------------
(* Selections across pages *)

Rank(k, f, i) == Cardinality(Newer(k, f, i))

\* What a selection across pages has, that nothing disturbed: the newest
\* `offset` hits of the list's filter; and its answer is the page after them.
FreshAs(r, k, f) ==
  /\ r.acc = {i \in Hits(k, f) : Rank(k, f, i) < r.offset}
  /\ r.st = "sent" => r.filter = f
  /\ r.st = "ok" => r.rows = PageOf(k, f, r.offset, CROSS_PAGE_SELECT_SIZE)

FreshSelections ==
  \A c \in Slot : req[c].what = "select" /\ req[c].fresh =>
                  FreshAs(req[c], req[c].kind, list[req[c].kind].filter)

SelectInv == Shape /\ BusyForAReason /\ MadeApart /\ FreshSelections

\* Of two hits the newer has the lower rank, and there is a hit of every rank
\* below that of a hit: ranks count the hits without gaps.
LEMMA RanksCount ==
  ASSUME Shape, MadeApart, NEW k \in Kind, NEW f \in Filters
  PROVE  /\ \A i \in Hits(k, f) : Rank(k, f, i) \in Nat
         /\ \A i, j \in Hits(k, f) : Rank(k, f, i) = Rank(k, f, j) => i = j
         /\ \A i \in Hits(k, f) : \A m \in Nat :
              m < Rank(k, f, i) => \E j \in Hits(k, f) : Rank(k, f, j) = m
<1> DEFINE H == Hits(k, f)
           N(i) == Newer(k, f, i)
           R(i) == Rank(k, f, i)
<1>1. /\ db \in [Kind -> [Item -> 0 .. Cardinality(Item) + turns]]
      /\ \A i \in Item : db[k][i] \in Int
  BY PagesExist, AdminConstants DEF Shape, RowsOK
<1>2. H \in SUBSET Item /\ IsFiniteSet(H) /\ \A i \in H : db[k][i] # 0
  BY HitsCounted DEF Hits
<1>3. \A i \in H : N(i) \in SUBSET H /\ IsFiniteSet(N(i)) /\ R(i) = Cardinality(N(i)) /\ R(i) \in Nat
  <2>1. \A i \in H : N(i) \in SUBSET H /\ R(i) = Cardinality(N(i))
    BY DEF Newer, Rank
  <2> HIDE DEF H, N, R
  <2> QED BY <1>2, <2>1, FS_Subset, FS_CardinalityType
<1>4. ASSUME NEW i \in H, NEW j \in N(i)
      PROVE  R(j) < R(i)
  <2>1. j \in H /\ db[k][j] > db[k][i]
    BY DEF Newer
  <2>2. N(j) \subseteq N(i) /\ j \notin N(j)
    BY <1>1, <1>2, <2>1 DEF Newer
  <2> HIDE DEF H, N, R
  <2>3. Cardinality(N(j)) <= Cardinality(N(i)) /\ Cardinality(N(j)) # Cardinality(N(i))
    BY <1>3, <1>4, <2>2, FS_Subset
  <2> QED BY <1>3, <2>1, <2>3
<1>5. ASSUME NEW i \in H, NEW j \in H, R(i) = R(j)
      PROVE  i = j
  <2>1. i \in N(j) \/ j \in N(i) \/ db[k][i] = db[k][j]
    BY <1>1, <1>2 DEF Newer
  <2>2. db[k][i] = db[k][j] => i = j
    BY <1>2 DEF MadeApart
  <2> HIDE DEF H, N, R
  <2>3. R(i) \in Nat /\ R(j) \in Nat
    BY <1>3
  <2> QED BY <1>4, <1>5, <2>1, <2>2, <2>3
<1>6. ASSUME NEW i \in H, NEW m \in Nat, m < R(i)
      PROVE  \E j \in H : R(j) = m
  <2> DEFINE T == 0 .. R(i) - 1
             g == [j \in N(i) |-> R(j)]
  <2> HIDE DEF H, N, R
  <2>1. R(i) \in Nat /\ IsFiniteSet(T) /\ Cardinality(T) = R(i)
    <3>1. R(i) \in Nat /\ R(i) - 1 \in Int
      BY <1>3
    <3> QED BY <3>1, FS_Interval
  <2>2. g \in [N(i) -> T]
    BY <1>3, <1>4, <2>1
  <2>3. \A a, b \in N(i) : g[a] = g[b] => a = b
    BY <1>3, <1>5
  <2>4. g \in Injection(N(i), T)
    BY <2>2, <2>3 DEF Injection, IsInjective
  <2>5. g \in Surjection(N(i), T)
    BY <1>3, <2>1, <2>4, FS_Injection
  <2>6. m \in T
    BY <1>6, <2>1
  <2>7. \E j \in N(i) : g[j] = m
    BY <2>5, <2>6 DEF Surjection
  <2> QED BY <1>3, <2>7
<1> QED BY <1>3, <1>5, <1>6

\* A page holds at most as many hits as it may; one that holds fewer is the
\* last, whatever is newer having gone before.
LEMMA PagesAreFull ==
  ASSUME Shape, MadeApart, NEW k \in Kind, NEW f \in Filters, NEW o \in Nat, NEW n \in Nat
  PROVE  /\ Cardinality(PageOf(k, f, o, n)) \in 0 .. n
         /\ PageOf(k, f, o, n) = {i \in Hits(k, f) : Rank(k, f, i) \in o .. o + n - 1}
         /\ Cardinality(PageOf(k, f, o, n)) < n => \A i \in Hits(k, f) : Rank(k, f, i) < o + n
<1> DEFINE H == Hits(k, f)
           P == PageOf(k, f, o, n)
           R(i) == Rank(k, f, i)
           T == o .. o + n - 1
           g == [i \in P |-> R(i)]
<1>1. /\ \A i \in H : R(i) \in Nat
      /\ \A i, j \in H : R(i) = R(j) => i = j
      /\ \A i \in H : \A m \in Nat : m < R(i) => \E j \in H : R(j) = m
  BY RanksCount
<1>2. P = {i \in H : o <= R(i) /\ R(i) < o + n}
  BY DEF PageOf, Rank
<1>3. IsFiniteSet(H)
  BY HitsCounted
<1> HIDE DEF H, P, R
<1>4. P = {i \in H : R(i) \in T}
  BY <1>1, <1>2
<1>5. IsFiniteSet(T) /\ Cardinality(T) = n
  <2>1. o \in Int /\ o + n - 1 \in Int
    OBVIOUS
  <2> QED BY <2>1, FS_Interval
<1>6. g \in Injection(P, T)
  <2>1. g \in [P -> T]
    BY <1>4
  <2>2. \A a, b \in P : g[a] = g[b] => a = b
    BY <1>1, <1>4
  <2> QED BY <2>1, <2>2 DEF Injection, IsInjective
<1>7. /\ IsFiniteSet(P) /\ Cardinality(P) <= Cardinality(T)
      /\ g \in Surjection(P, T) => Cardinality(P) = Cardinality(T)
  BY <1>5, <1>6, FS_Injection
<1>8. Cardinality(P) \in Nat
  BY <1>7, FS_CardinalityType
<1>9. ASSUME NEW i \in H, R(i) >= o + n
      PROVE  Cardinality(P) = n
  <2>1. ASSUME NEW m \in T
        PROVE  \E j \in P : g[j] = m
    <3>1. m \in Nat /\ m < R(i)
      BY <1>1, <1>9
    <3>2. PICK j \in H : R(j) = m
      BY <1>1, <3>1
    <3> QED BY <1>4, <3>2
  <2>2. g \in Surjection(P, T)
    <3>1. g \in [P -> T]
      BY <1>6 DEF Injection
    <3> QED BY <2>1, <3>1 DEF Surjection
  <2> QED BY <1>5, <1>7, <2>2
<1> QED BY <1>1, <1>4, <1>5, <1>7, <1>8, <1>9 DEF H, P, R

\* Rows are made at different times, whoever adds and deletes them.
LEMMA ApartStep ==
  ASSUME Shape, MadeApart, [Next]_vars
  PROVE  MadeApart'
<1>1. CASE UNCHANGED db
  BY <1>1 DEF MadeApart
<1>r. db \in [Kind -> [Item -> 0 .. Cardinality(Item) + turns]]
  BY DEF Shape, RowsOK
<1>2. ASSUME NEW c \in Slot, Sends(c) \/ Handles(c)
      PROVE  UNCHANGED db
  BY <1>2 DEF Sends, HandlePageChange, Refresh, RefreshServers, HandleTabChange, LoadOnly, Mount,
              SelectAllFiltered, OpenDetail, Save, Confirm, Handles, LoadAnswered, AfterLoad,
              SelectAnswered, ActAnswered, DetailAnswered
<1>3. ASSUME NEW c \in Slot, Serve(c)
      PROVE  MadeApart'
  <2>1. CASE ServeAct(c) /\ req[c].op \in Deletes
    <3> DEFINE k == KindOf(req[c].op)
               left == [i \in Item |-> IF i \in req[c].ids THEN 0 ELSE db[k][i]]
    <3>1. db' = [db EXCEPT ![k] = left]
      BY <2>1, <1>r DEF ServeAct
    <3>2. \A j \in Kind : \A i \in Item : db'[j][i] = db[j][i] \/ db'[j][i] = 0
      BY <1>r, <3>1
    <3> QED BY <3>2 DEF MadeApart
  <2>2. CASE ~(ServeAct(c) /\ req[c].op \in Deletes)
    <3>1. UNCHANGED db
      BY <1>3, <2>2 DEF Serve, ServeLoad, ServeSelect, ServeAct, ServeDetail, FailRequest
    <3> QED BY <1>1, <3>1
  <2> QED BY <2>1, <2>2
<1>4. ASSUME NEW k \in Kind, Churn(k)
      PROVE  MadeApart'
  <2> DEFINE now == Cardinality(Item) + turns'
  <2>1. PICK i \in Item : db' = [db EXCEPT ![k][i] = IF @ = 0 THEN now ELSE 0]
    BY <1>4 DEF Churn
  <2>2. turns' = turns + 1 /\ turns \in Nat /\ Cardinality(Item) \in Nat
    BY <1>4, PagesExist, AdminConstants DEF Churn, Turn, Shape, RowsOK
  <2>3. \A j \in Kind : \A h \in Item : db[j][h] # now
    BY <1>r, <2>2
  <2>4. \A j \in Kind : \A h \in Item :
          \/ db'[j][h] = db[j][h]
          \/ db'[j][h] = 0
          \/ j = k /\ h = i /\ db'[j][h] = now
    BY <1>r, <2>1
  <2> HIDE DEF now
  <2> QED BY <2>3, <2>4 DEF MadeApart
<1>5. CASE Local /\ ~\E k \in Kind : Churn(k)
  <2>1. UNCHANGED db
    BY <1>5 DEF Local, EditFilter, TickRow, SelectOnCurrentPage, ClearOf, CloseDrawer, Ask, Cancel,
                OnlyList
  <2> QED BY <1>1, <2>1
<1> QED BY <1>1, <1>2, <1>3, <1>4, <1>5, StepKinds DEF vars

\* What a selection has stands while its kind's rows do.
LEMMA FreshStands ==
  ASSUME NEW k, NEW f, db'[k] = db[k], NEW r, FreshAs(r, k, f)
  PROVE  FreshAs(r, k, f)'
BY DEF FreshAs, Hits, Rank, Newer, PageOf

\* A slot whose selection is as it was, of a list whose filter and rows are.
LEMMA SlotStands ==
  ASSUME SelectInv, NEW d \in Slot, req'[d] = req[d], req[d].what = "select", req[d].fresh,
         list'[req[d].kind].filter = list[req[d].kind].filter, db'[req[d].kind] = db[req[d].kind]
  PROVE  FreshAs(req[d], req[d].kind, list[req[d].kind].filter)'
<1>1. PICK r, k, f : r = req[d] /\ k = r.kind /\ f = list[k].filter
  OBVIOUS
<1>2. FreshAs(r, k, f)
  BY <1>1 DEF SelectInv, FreshSelections
<1>3. FreshAs(r, k, f)'
  BY <1>1, <1>2, FreshStands
<1>4. r = req'[d] /\ f = list'[k].filter
  BY <1>1
<1> QED BY <1>1, <1>3, <1>4 DEF FreshAs, Hits, Rank, Newer, PageOf

\* A selection marked as disturbed is one of the kind marked.
LEMMA StaleFresh ==
  ASSUME NEW k, NEW rs \in [Slot -> Request], NEW d \in Slot,
         Stale(k, rs)[d].what = "select", Stale(k, rs)[d].fresh
  PROVE  rs[d].kind # k /\ Stale(k, rs)[d] = rs[d]
<1>1. CASE rs[d].what = "select" /\ rs[d].kind = k
  <2>1. rs[d] \in SelectSent \cup SelectServed
    BY <1>1, RequestKinds
  <2>2. Stale(k, rs)[d] = [rs[d] EXCEPT !.fresh = FALSE]
    BY <1>1 DEF Stale
  <2>3. [rs[d] EXCEPT !.fresh = FALSE].fresh = FALSE
    BY <2>1 DEF SelectSent, SelectServed
  <2> QED BY <2>2, <2>3
<1>2. CASE ~(rs[d].what = "select" /\ rs[d].kind = k)
  <2>1. Stale(k, rs)[d] = rs[d]
    BY <1>2 DEF Stale
  <2> QED BY <1>2, <2>1
<1> QED BY <1>1, <1>2

\* The backend's answers, and the failures, keep what undisturbed selections have.
LEMMA ServeFresh ==
  ASSUME SelectInv, NEW c \in Slot, Serve(c), NEW d \in Slot, req'[d].what = "select", req'[d].fresh
  PROVE  FreshAs(req[d], req[d].kind, list[req[d].kind].filter)'
<1>r. /\ req \in [Slot -> Request] /\ req[c] \in Request
      /\ db \in [Kind -> [Item -> 0 .. Cardinality(Item) + turns]]
  BY DEF SelectInv, Shape, RowsOK
<1>l. UNCHANGED list
  BY DEF Serve, ServeLoad, ServeSelect, ServeAct, ServeDetail, FailRequest
<1>1. CASE ServeAct(c)
  <2>1. /\ req[c].what = "act" /\ req[c].op \in Operations
        /\ KindOf(req[c].op) \in Kind
    BY <1>1, <1>r, RequestKinds, OperationKinds DEF ServeAct, ActAny
  <2>2. \A st \in {"ok", "failed"} : /\ [req EXCEPT ![c].st = st] \in [Slot -> Request]
                                     /\ [req EXCEPT ![c].st = st][c].what = "act"
                                     /\ \A e \in Slot \ {c} : [req EXCEPT ![c].st = st][e] = req[e]
    BY <1>r, <2>1, <1>1, AnswerShape DEF ServeAct
  <2>3. CASE req[c].op \in Deletes
    <3>1. PICK st \in {"ok", "failed"} :
            req' = Stale(KindOf(req[c].op), [req EXCEPT ![c].st = st])
      BY <1>1, <2>3 DEF ServeAct
    <3> DEFINE rs == [req EXCEPT ![c].st = st]
               k == KindOf(req[c].op)
    <3>2. /\ rs \in [Slot -> Request] /\ rs[c].what = "act"
          /\ \A e \in Slot \ {c} : rs[e] = req[e]
      BY <2>2
    <3>3. req' = Stale(k, rs)
      BY <3>1
    <3>4. \A j \in Kind \ {k} : db'[j] = db[j]
      BY <1>1, <1>r, <2>3 DEF ServeAct
    <3> HIDE DEF rs, k
    <3>5. rs[d].kind # k /\ req'[d] = rs[d]
      BY <3>2, <3>3, StaleFresh
    <3>6. d # c /\ req'[d] = req[d] /\ req[d].kind # k
      BY <3>2, <3>5
    <3>7. req[d].kind \in Kind
      BY <1>r, <3>6, RequestKinds DEF SelectSent, SelectServed, Selectable
    <3> QED BY <1>l, <3>4, <3>6, <3>7, SlotStands
  <2>4. CASE req[c].op \notin Deletes
    <3>1. UNCHANGED db /\ \E st \in {"ok", "failed"} : req' = [req EXCEPT ![c].st = st]
      BY <1>1, <2>4 DEF ServeAct
    <3>2. d # c /\ req'[d] = req[d]
      BY <2>2, <3>1
    <3> QED BY <1>l, <3>1, <3>2, SlotStands
  <2> QED BY <2>3, <2>4
<1>2. CASE ~ServeAct(c) /\ c # d
  <2>1. UNCHANGED db /\ req'[d] = req[d]
    BY <1>r, <1>2 DEF Serve, ServeLoad, ServeSelect, ServeDetail, FailRequest
  <2> QED BY <1>l, <2>1, SlotStands
<1>3. CASE ServeSelect(c) /\ c = d
  <2>1. PICK r, k, f : r = req[c] /\ k = r.kind /\ f = list[k].filter
    OBVIOUS
  <2>2. r.what = "select" /\ r.st = "sent" /\ UNCHANGED db
    BY <1>3, <2>1 DEF ServeSelect
  <2>3. PICK q : q = req'[c]
    OBVIOUS
  <2>4. /\ q.kind = k /\ q.acc = r.acc /\ q.offset = r.offset /\ q.st = "ok" /\ q.fresh = r.fresh
        /\ q.rows = PageOf(k, r.filter, r.offset, CROSS_PAGE_SELECT_SIZE)
    BY <1>3, <1>r, <2>1, <2>3 DEF ServeSelect
  <2>5. FreshAs(r, k, f)
    BY <1>3, <2>1, <2>2, <2>3, <2>4 DEF SelectInv, FreshSelections
  <2>6. FreshAs(q, k, f)
    BY <2>2, <2>4, <2>5 DEF FreshAs
  <2>7. FreshAs(q, k, f)'
    BY <2>2, <2>6, FreshStands
  <2>8. q = req'[d] /\ k = q.kind /\ f = list'[k].filter
    BY <1>3, <1>l, <2>1, <2>3, <2>4
  <2> QED BY <2>7, <2>8 DEF FreshAs, Hits, Rank, Newer, PageOf
<1>4. CASE FailRequest(c) /\ c = d
  <2>1. PICK r, k, f : r = req[c] /\ k = r.kind /\ f = list[k].filter
    OBVIOUS
  <2>2. PICK q : q = req'[c]
    OBVIOUS
  <2>3. q = [r EXCEPT !.st = "failed"] /\ r \in Request /\ r # Idle /\ r.st = "sent" /\ UNCHANGED db
    BY <1>4, <1>r, <2>1, <2>2 DEF FailRequest, Free
  <2>4. r.what = "select"
    BY <1>4, <2>2, <2>3, AnswerShape
  <2>5. r \in SelectSent
    BY <2>3, <2>4, RequestKinds
  <2>6. q.kind = k /\ q.acc = r.acc /\ q.offset = r.offset /\ q.st = "failed" /\ q.fresh = r.fresh
    BY <2>1, <2>3, <2>5 DEF SelectSent
  <2>7. FreshAs(r, k, f)
    BY <1>4, <2>1, <2>2, <2>4, <2>6 DEF SelectInv, FreshSelections
  <2>8. FreshAs(q, k, f)
    BY <2>6, <2>7 DEF FreshAs
  <2>9. FreshAs(q, k, f)'
    BY <2>3, <2>8, FreshStands
  <2>10. q = req'[d] /\ k = q.kind /\ f = list'[k].filter
    BY <1>4, <1>l, <2>1, <2>2, <2>6
  <2> QED BY <2>9, <2>10 DEF FreshAs, Hits, Rank, Newer, PageOf
<1>5. CASE (ServeLoad(c) \/ ServeDetail(c)) /\ c = d
  <2>1. ServeLoad(c) => req'[c].what = "load"
    BY <1>r DEF ServeLoad
  <2>2. ServeDetail(c) => req'[c].what = "detail"
    <3>1. ServeDetail(c) => req'[c] = [req[c] EXCEPT !.st = "ok"] /\ req[c].what = "detail"
      BY <1>r DEF ServeDetail
    <3> QED BY <1>r, <3>1, AnswerShape
  <2> QED BY <1>5, <2>1, <2>2
<1> QED BY <1>1, <1>2, <1>3, <1>4, <1>5 DEF Serve

\* What the user sends begins a selection with nothing, and disturbs none.
LEMMA SendsFresh ==
  ASSUME SelectInv, NEW c \in Slot, Sends(c), NEW d \in Slot, req'[d].what = "select", req'[d].fresh
  PROVE  FreshAs(req[d], req[d].kind, list[req[d].kind].filter)'
<1>r. req \in [Slot -> Request] /\ GoodLists(list) /\ \A k \in Kind : list[k].filter \in Filters
  BY DEF SelectInv, Shape, GoodLists, ListRecord
<1>1. UNCHANGED db
  BY DEF Sends, HandlePageChange, Refresh, RefreshServers, HandleTabChange, LoadOnly, Mount,
         SelectAllFiltered, OpenDetail, Save, Confirm
<1>2. ~Mount(c)
  <2>1. ASSUME Mount(c)
        PROVE  req'[d].what \in {"load", "idle"}
    BY <2>1 DEF Mount, LoadRequest, Idle
  <2> QED BY <2>1
<1>3. FiltersKept
  BY <1>2, SendsFlags DEF SelectInv
<1>4. CASE req'[d] = req[d]
  <2>1. req[d].kind \in Kind
    BY <1>4, <1>r, RequestKinds DEF SelectSent, SelectServed, Selectable
  <2> QED BY <1>1, <1>3, <1>4, <2>1, SlotStands DEF FiltersKept
<1>5. CASE d = c /\ \E k \in Selectable : SelectAllFiltered(c, k)
  <2>1. PICK k \in Kind : SelectAllFiltered(c, k)
    BY <1>5 DEF Selectable
  <2>2. PICK q, f : q = req'[c] /\ f = list[k].filter
    OBVIOUS
  <2>3. q = SelectRequest(k, f, 0, {}, TRUE)
    BY <1>r, <2>1, <2>2 DEF SelectAllFiltered
  <2>4. q.kind = k /\ q.acc = {} /\ q.offset = 0 /\ q.st = "sent" /\ q.filter = f
    BY <2>3 DEF SelectRequest
  <2>5. FreshAs(q, k, f)
    <3>1. \A i \in Hits(k, f) : Rank(k, f, i) \in Nat
      BY <1>r, <2>2, RanksCount DEF SelectInv
    <3> QED BY <2>4, <3>1 DEF FreshAs
  <2>6. FreshAs(q, k, f)'
    BY <1>1, <2>5, FreshStands
  <2>7. q = req'[d] /\ k = q.kind /\ f = list'[k].filter
    BY <1>3, <1>5, <2>2, <2>4 DEF FiltersKept
  <2> QED BY <2>6, <2>7 DEF FreshAs, Hits, Rank, Newer, PageOf
<1>6. CASE ~(req'[d] = req[d]) /\ ~(d = c /\ \E k \in Selectable : SelectAllFiltered(c, k))
  <2>1. \E r : req' = [req EXCEPT ![c] = r]
    BY <1>2 DEF Sends, HandlePageChange, Refresh, RefreshServers, HandleTabChange, LoadOnly, StartLoad,
                SelectAllFiltered, OpenDetail, Save, Confirm
  <2>2. d = c
    BY <1>6, <1>r, <2>1
  <2>3. \/ \E k, ls, page, next : StartLoad(c, ls, k, page, next)
        \/ \E op, ids : req' = [req EXCEPT ![c] = ActRequest(op, ids)]
        \/ \E k, i : req' = [req EXCEPT ![c] = DetailRequest(k, i)]
    BY <1>2, <1>6, <2>2 DEF Sends, HandlePageChange, Refresh, RefreshServers, HandleTabChange, LoadOnly,
                            OpenDetail, Save, Confirm
  <2>4. req'[c].what \in {"load", "act", "detail"}
    BY <1>r, <2>3 DEF StartLoad, LoadRequest, ActRequest, DetailRequest
  <2> QED BY <2>2, <2>4
<1> QED BY <1>4, <1>5, <1>6

\* A selection takes the page after those it has.
LEMMA PageTaken ==
  ASSUME Shape, MadeApart, NEW k \in Kind, NEW f \in Filters, NEW o \in Nat, NEW n \in Nat
  PROVE  {i \in Hits(k, f) : Rank(k, f, i) < o} \cup PageOf(k, f, o, n)
           = {i \in Hits(k, f) : Rank(k, f, i) < o + n}
<1> DEFINE H == Hits(k, f)
           R(i) == Rank(k, f, i)
<1>1. \A i \in H : R(i) \in Nat
  BY RanksCount
<1>2. PageOf(k, f, o, n) = {i \in H : R(i) \in o .. o + n - 1}
  BY PagesAreFull
<1> HIDE DEF H, R
<1> QED BY <1>1, <1>2 DEF H, R

\* The handling of answers keeps what undisturbed selections have: a full page
\* is added, and the next one asked for, with the filter as it is.
LEMMA HandlesFresh ==
  ASSUME SelectInv, NEW c \in Slot, Handles(c), NEW d \in Slot, req'[d].what = "select", req'[d].fresh
  PROVE  FreshAs(req[d], req[d].kind, list[req[d].kind].filter)'
<1>r. /\ req \in [Slot -> Request] /\ req[c] \in Request
      /\ \A k \in Kind : list[k].filter \in Filters
  BY DEF SelectInv, Shape, GoodLists, ListRecord
<1>1. UNCHANGED db
  BY DEF Handles, LoadAnswered, AfterLoad, SelectAnswered, ActAnswered, DetailAnswered
<1>2. FiltersKept
  <2>1. DetailAnswered(c) => FiltersKept
    BY DEF DetailAnswered, FiltersKept
  <2> QED BY <2>1, LoadBusy, SelectBusy, ActFlags DEF Handles, SelectInv
<1>3. CASE req'[d] = req[d]
  <2>1. req[d].kind \in Kind
    BY <1>3, <1>r, RequestKinds DEF SelectSent, SelectServed, Selectable
  <2> QED BY <1>1, <1>2, <1>3, <2>1, SlotStands DEF FiltersKept
<1>4. CASE d = c /\ SelectAnswered(c) /\ req[c].st = "ok" /\ ~LastPage(req[c])
  <2>1. PICK r, k, f, q : r = req[c] /\ k = r.kind /\ f = list[k].filter /\ q = req'[c]
    OBVIOUS
  <2>2. r \in SelectServed
    BY <1>4, <1>r, <2>1, RequestKinds DEF SelectAnswered
  <2>3. k \in Kind /\ f \in Filters /\ r.offset \in Nat /\ r.what = "select" /\ r.st = "ok"
    BY <1>r, <2>1, <2>2 DEF SelectServed, Selectable
  <2>4. q = SelectRequest(k, f, r.offset + Cardinality(r.rows), r.acc \cup r.rows, r.fresh)
    BY <1>4, <1>r, <2>1 DEF SelectAnswered
  <2>5. /\ q.kind = k /\ q.acc = r.acc \cup r.rows /\ q.offset = r.offset + Cardinality(r.rows)
        /\ q.st = "sent" /\ q.filter = f /\ q.fresh = r.fresh
    BY <2>4 DEF SelectRequest
  <2>6. FreshAs(r, k, f)
    BY <1>4, <2>1, <2>3, <2>5 DEF SelectInv, FreshSelections
  <2> DEFINE n == CROSS_PAGE_SELECT_SIZE
  <2>7. n \in Nat
    BY AdminConstants
  <2>8. r.rows = PageOf(k, f, r.offset, n) /\ r.acc = {i \in Hits(k, f) : Rank(k, f, i) < r.offset}
    BY <2>3, <2>6 DEF FreshAs
  <2>9. Cardinality(r.rows) \in 0 .. n
    BY <2>3, <2>7, <2>8, PagesAreFull DEF SelectInv
  <2>10. ~(Cardinality(r.rows) < n)
    BY <1>4, <2>1 DEF LastPage
  <2>11. Cardinality(r.rows) = n
    BY <2>7, <2>9, <2>10
  <2>12. r.acc \cup r.rows = {i \in Hits(k, f) : Rank(k, f, i) < r.offset + n}
    BY <2>3, <2>7, <2>8, PageTaken DEF SelectInv
  <2>13. FreshAs(q, k, f)
    BY <2>5, <2>11, <2>12 DEF FreshAs
  <2>14. FreshAs(q, k, f)'
    BY <1>1, <2>13, FreshStands
  <2>15. q = req'[d] /\ k = q.kind /\ f = list'[k].filter
    BY <1>2, <1>4, <2>1, <2>3, <2>5 DEF FiltersKept
  <2> QED BY <2>14, <2>15 DEF FreshAs, Hits, Rank, Newer, PageOf
<1>5. CASE /\ req'[d] # req[d]
           /\ ~(d = c /\ SelectAnswered(c) /\ req[c].st = "ok" /\ ~LastPage(req[c]))
  <2>1. /\ \E r : req' = [req EXCEPT ![c] = r]
    BY DEF Handles, LoadAnswered, AfterLoad, StartLoad, SelectAnswered, ActAnswered, DetailAnswered, Done
  <2>2. d = c
    BY <1>5, <1>r, <2>1
  <2>3. \/ \E k, ls, page, next : StartLoad(c, ls, k, page, next)
        \/ req' = [req EXCEPT ![c] = Idle]
    BY <1>5, <2>2 DEF Handles, LoadAnswered, AfterLoad, SelectAnswered, ActAnswered, DetailAnswered, Done
  <2>4. req'[c].what \in {"load", "idle"}
    BY <1>r, <2>3 DEF StartLoad, LoadRequest, Idle
  <2> QED BY <2>2, <2>4
<1> QED BY <1>3, <1>4, <1>5

\* A filter edited and rows added or removed mark the selections they disturb.
LEMMA LocalFresh ==
  ASSUME SelectInv, Local, NEW d \in Slot, req'[d].what = "select", req'[d].fresh
  PROVE  FreshAs(req[d], req[d].kind, list[req[d].kind].filter)'
<1>r. /\ req \in [Slot -> Request] /\ list \in [Kind -> ListRecord]
      /\ db \in [Kind -> [Item -> 0 .. Cardinality(Item) + turns]]
  BY DEF SelectInv, Shape, GoodLists, RowsOK
<1>k. req'[d] = req[d] => req[d].kind \in Kind
  BY <1>r, RequestKinds DEF SelectSent, SelectServed, Selectable
<1>1. ASSUME NEW k \in Kind, NEW f \in Filters, EditFilter(k, f)
      PROVE  FreshAs(req[d], req[d].kind, list[req[d].kind].filter)'
  <2>1. req' = Stale(k, req) /\ UNCHANGED db
    BY <1>1 DEF EditFilter, Stale
  <2>2. req[d].kind # k /\ req'[d] = req[d]
    BY <1>r, <2>1, StaleFresh
  <2>3. \A j \in Kind \ {k} : list'[j] = list[j]
    BY <1>1, <1>r DEF EditFilter
  <2> QED BY <1>k, <2>1, <2>2, <2>3, SlotStands
<1>2. ASSUME NEW k \in Kind, Churn(k)
      PROVE  FreshAs(req[d], req[d].kind, list[req[d].kind].filter)'
  <2>1. req' = Stale(k, req) /\ UNCHANGED list
    BY <1>2 DEF Churn
  <2>2. req[d].kind # k /\ req'[d] = req[d]
    BY <1>r, <2>1, StaleFresh
  <2>3. \A j \in Kind \ {k} : db'[j] = db[j]
    BY <1>2, <1>r DEF Churn
  <2> QED BY <1>k, <2>1, <2>2, <2>3, SlotStands
<1>3. CASE ~(\E k \in Kind, f \in Filters : EditFilter(k, f)) /\ ~(\E k \in Kind : Churn(k))
  <2>1. UNCHANGED <<db, req>>
    BY <1>3 DEF Local, TickRow, SelectOnCurrentPage, ClearOf, CloseDrawer, Ask, Cancel, OnlyList
  <2>2. FiltersKept
    BY <1>3, LocalFlags DEF SelectInv
  <2> QED BY <1>k, <2>1, <2>2, SlotStands DEF FiltersKept
<1> QED BY <1>1, <1>2, <1>3

\* Undisturbed selections have what they should, after every step.
LEMMA SelectStep ==
  ASSUME SelectInv, [Next]_vars
  PROVE  SelectInv'
<1>1. Shape' /\ BusyForAReason' /\ MadeApart'
  BY StepShape, BusyStep, ApartStep DEF SelectInv
<1>2. FreshSelections'
  <2> SUFFICES ASSUME NEW d \in Slot, req'[d].what = "select", req'[d].fresh
               PROVE  FreshAs(req[d], req[d].kind, list[req[d].kind].filter)'
    BY DEF FreshSelections
  <2>1. CASE UNCHANGED vars
    BY <2>1, SlotStands DEF vars
  <2>2. CASE Next
    <3>1. (\E c \in Slot : Sends(c) \/ Serve(c) \/ Handles(c)) \/ Local
      BY <2>2, StepKinds DEF SelectInv
    <3> QED BY <3>1, SendsFresh, ServeFresh, HandlesFresh, LocalFresh
  <2> QED BY <2>1, <2>2
<1> QED BY <1>1, <1>2 DEF SelectInv

\* An undisturbed selection across pages ends with every hit that is not on
\* screen and with nothing but hits, or with the page opened again.
LEMMA HitsSelected ==
  ASSUME SelectInv, [Next]_vars, NEW k \in Kind, NEW c \in Slot,
         req[c].what = "select", req[c].kind = k, req[c].fresh, req[c].st = "ok", req'[c] = Idle
  PROVE  LET hits == Hits(k, list[k].filter) IN
         \/ /\ ~list'[k].selecting /\ list'[k].selected \subseteq hits
            /\ hits \ list'[k].rows \subseteq list'[k].selected
         \/ list'[k] = [NewList EXCEPT !.page = list'[k].page, !.filter = list'[k].filter,
                                       !.loading = list'[k].loading]
<1> DEFINE f == list[k].filter
           hits == Hits(k, f)
<1>r. /\ req \in [Slot -> Request] /\ list \in [Kind -> ListRecord] /\ list[k] \in ListRecord
      /\ f \in Filters /\ Idle.what = "idle" /\ Shape /\ MadeApart
  BY DEF SelectInv, Shape, GoodLists, ListRecord, Idle
<1>1. ~KeepsAwaited
  BY <1>r DEF KeepsAwaited
<1>2. req' # req
  BY <1>r
<1>3. \/ \E d \in Slot : Mount(d) \/ SelectAnswered(d) \/ \E j \in Kind : LoadAnswered(d, j)
  BY <1>r, <1>1, <1>2, StepKinds, AwaitedKept, LocalKeeps DEF Handles, vars
<1>4. ASSUME NEW d \in Slot, Mount(d)
      PROVE  list'[k] = [NewList EXCEPT !.page = list'[k].page, !.filter = list'[k].filter,
                                        !.loading = list'[k].loading]
  <2>1. PICK p, g, b : p = query.page[k] /\ g = query.filter[k] /\ b = (k = query.tab)
    OBVIOUS
  <2>2. list'[k] = [page |-> p, filter |-> g, rows |-> {}, total |-> 0, loading |-> b,
                    selecting |-> FALSE, selected |-> {}, ticked |-> {}]
    BY <1>4, <2>1 DEF Mount
  <2> DEFINE F == {"page", "filter", "rows", "total", "loading", "selecting", "selected", "ticked"}
             N == [NewList EXCEPT !.page = list'[k].page, !.filter = list'[k].filter,
                                  !.loading = list'[k].loading]
  <2>3. DOMAIN list'[k] = F /\ list'[k] = [x \in F |-> list'[k][x]]
    BY <2>2
  <2>4. DOMAIN N = F /\ N = [x \in F |-> N[x]]
    BY DEF NewList
  <2>5. /\ N.page = list'[k].page /\ N.filter = list'[k].filter /\ N.loading = list'[k].loading
        /\ N.rows = {} /\ N.total = 0 /\ N.selecting = FALSE /\ N.selected = {} /\ N.ticked = {}
    BY DEF NewList
  <2>6. /\ list'[k].rows = {} /\ list'[k].total = 0 /\ list'[k].selecting = FALSE
        /\ list'[k].selected = {} /\ list'[k].ticked = {}
    BY <2>2
  <2> HIDE DEF N
  <2>7. \A x \in F : list'[k][x] = N[x]
    BY <2>5, <2>6 DEF F
  <2>8. list'[k] = N
    BY <2>3, <2>4, <2>7
  <2> QED BY <2>8 DEF N
<1>5. ASSUME NEW d \in Slot, NEW j \in Kind, LoadAnswered(d, j)
      PROVE  FALSE
  <2>1. req[d].what = "load" /\ \E r : req' = [req EXCEPT ![d] = r]
    BY <1>5 DEF LoadAnswered, AfterLoad, StartLoad, Done
  <2>2. req'[c] = req[c]
    BY <1>r, <2>1
  <2> QED BY <1>r, <2>2
<1>6. ASSUME NEW d \in Slot, SelectAnswered(d)
      PROVE  /\ ~list'[k].selecting /\ list'[k].selected \subseteq hits
             /\ hits \ list'[k].rows \subseteq list'[k].selected
  <2> DEFINE r == req[c]
             M == [list[k] EXCEPT !.selected = r.acc \cup r.rows]
             n == CROSS_PAGE_SELECT_SIZE
  <2>1. c = d
    <3>1. \E s : req' = [req EXCEPT ![d] = s]
      BY <1>6 DEF SelectAnswered, Done
    <3> QED BY <1>r, <3>1
  <2>2. r \in SelectServed
    BY <1>r, RequestKinds
  <2>3. r.offset \in Nat /\ r.acc \in SUBSET Item /\ r.rows \in SUBSET Item
    BY <2>2 DEF SelectServed
  <2>4. LastPage(r) /\ list' = [list EXCEPT ![k] = [ApplySelection(M) EXCEPT !.selecting = FALSE]]
    <3>1. LastPage(r)
      <4>1. SUFFICES ASSUME ~LastPage(r) PROVE FALSE
        OBVIOUS
      <4>2. req' = [req EXCEPT ![c] = SelectRequest(k, list[k].filter, r.offset + Cardinality(r.rows),
                                                    r.acc \cup r.rows, r.fresh)]
        BY <1>6, <2>1, <4>1 DEF SelectAnswered
      <4>3. req'[c].what = "select"
        BY <1>r, <4>2 DEF SelectRequest
      <4> QED BY <1>r, <4>3
    <3> QED BY <1>6, <1>r, <2>1, <3>1 DEF SelectAnswered
  <2>5. FreshAs(r, k, f)
    BY DEF SelectInv, FreshSelections
  <2>6. r.rows = PageOf(k, f, r.offset, n) /\ r.acc = {i \in hits : Rank(k, f, i) < r.offset}
    BY <2>5 DEF FreshAs
  <2>7. n \in Nat
    BY AdminConstants
  <2>8. \A i \in hits : Rank(k, f, i) < r.offset + n
    <3>1. Cardinality(r.rows) < n
      BY <2>4 DEF LastPage
    <3> QED BY <1>r, <2>3, <2>6, <2>7, <3>1, PagesAreFull
  <2>9. r.acc \cup r.rows = {i \in hits : Rank(k, f, i) < r.offset + n}
    BY <1>r, <2>3, <2>6, <2>7, PageTaken
  <2>10. r.acc \cup r.rows = hits
    <3> HIDE DEF hits
    <3> QED BY <2>8, <2>9
  <2>11. M \in ListRecord /\ M.selected = hits /\ M.rows = list[k].rows
    BY <1>r, <2>3, <2>10 DEF ListRecord
  <2> HIDE DEF M, hits
  <2>12. /\ ApplySelection(M) \in ListRecord
         /\ SameFrame(M, ApplySelection(M))
         /\ ApplySelection(M).selected \subseteq M.selected
         /\ M.selected \ M.rows \subseteq ApplySelection(M).selected
    BY <2>11, Applied
  <2>13. LET N == [ApplySelection(M) EXCEPT !.selecting = FALSE] IN
         /\ N.selecting = FALSE /\ N.selected = ApplySelection(M).selected
         /\ N.rows = ApplySelection(M).rows
    BY <2>12 DEF ListRecord
  <2>14. list'[k] = [ApplySelection(M) EXCEPT !.selecting = FALSE]
    BY <1>r, <2>4
  <2> QED BY <2>11, <2>12, <2>13, <2>14 DEF SameFrame
<1> QED BY <1>3, <1>4, <1>5, <1>6

\* A selection across pages that nothing disturbed selects every hit that is not
\* on screen, and nothing but hits: whatever the page size and however many hits
\* there are, no page is left out at a boundary.
THEOREM EveryHitSelected == Spec => SelectsEveryHit
<1>1. Init => SelectInv
  <2> SUFFICES ASSUME Init PROVE SelectInv
    OBVIOUS
  <2>1. Shape /\ MadeApart
    BY InitShape
  <2>2. \A c \in Slot : req[c].what # "select"
    BY DEF Init, LoadRequest, Idle
  <2>3. BusyForAReason
    BY InitBusy
  <2> QED BY <2>1, <2>2, <2>3 DEF SelectInv, FreshSelections
<1>2. SelectInv /\ [Next]_vars => SelectInv'
  BY SelectStep
<1>3. SelectInv /\ [Next]_vars =>
        [\A k \in Kind :
           LET hits == Hits(k, list[k].filter) IN
           (\E c \in Slot : /\ req[c].what = "select" /\ req[c].kind = k /\ req[c].fresh
                            /\ req[c].st = "ok" /\ req'[c] = Idle /\ list[k].selecting)
           => \/ ~list'[k].selecting /\ list'[k].selected \subseteq hits
                 /\ hits \ list'[k].rows \subseteq list'[k].selected
              \/ list'[k] = [NewList EXCEPT !.page = list'[k].page, !.filter = list'[k].filter,
                                            !.loading = list'[k].loading]]_vars
  BY HitsSelected
<1> QED BY <1>1, <1>2, <1>3, PTL DEF Spec, SelectsEveryHit

=============================================================================
