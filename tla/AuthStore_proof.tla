--------------------------- MODULE AuthStore_proof ---------------------------
(***************************************************************************)
(* Theorems about AuthStore, for any number of tabs, requests, sessions,   *)
(* accounts and pages: its types, that a tab with an old session has been  *)
(* told, that an account is on its way, and that the tabs together are one *)
(* shared session.                                                         *)
(***************************************************************************)
EXTENDS AuthStore, TLAPS

\* A guard that awaits knows where it is going.
Aimed == \A c \in Call : call[c].op = "guard" => call[c].to \in Page

\* Only an open tab is told of a change.
OpenAreTold == \A t \in Tab : told[t] => tab[t].open

\* An account is answered for a session only.
AskedAbout ==
  \A c \in Call : call[c].stage = "me" /\ call[c].st = "ok" => call[c].session \in Session

TypeInv == TypeOK /\ Aimed /\ OpenAreTold /\ AskedAbout

-----------------------------------------------------------------------------
(* What navigation leaves alone *)

\* Tab t goes on with the record x, but for its page and its form; of the
\* requests only c changes, and is free or the guard's question for the account.
Moves(c, t, x) ==
  /\ tab' \in [Tab -> TabRecord]
  /\ call' \in [Call -> CallRecord]
  /\ nav' \in [Tab -> Maybe(Call, NoCall)]
  /\ \A u \in Tab \ {t} : tab'[u] = tab[u]
  /\ tab'[t].open = x.open /\ tab'[t].session = x.session /\ tab'[t].user = x.user
  /\ \A d \in Call \ {c} : call'[d] = call[d]
  /\ \/ call'[c] = Idle
     \/ /\ call'[c].tab = t /\ call'[c].op = "guard" /\ call'[c].to \in Page
        /\ call'[c].stage = "me" /\ call'[c].st = "sent"

\* The types the lemmas below need.
Typed == tab \in [Tab -> TabRecord] /\ call \in [Call -> CallRecord] /\ nav \in [Tab -> Maybe(Call, NoCall)]

\* The guard lets a tab in where it wants to go, to the login or to the game.
LEMMA AdmittedIsPage ==
  ASSUME NEW x, NEW to \in Page
  PROVE  Admitted(x, to) \in Page
BY AuthConstants DEF Admitted

\* A request that is free, and a question for the account, are requests.
LEMMA CallTypes ==
  /\ Idle \in CallRecord
  /\ \A t \in Tab, op \in Ops, s \in Maybe(Session, NoSession), to \in Maybe(Page, NoPage) :
       MeCall(t, op, s, to) \in CallRecord
BY DEF Idle, MeCall, CallRecord, Maybe

\* The fields of a question for the account.
LEMMA MeCallFields ==
  ASSUME NEW t, NEW op, NEW s, NEW to
  PROVE  LET m == MeCall(t, op, s, to) IN
         /\ m.tab = t /\ m.op = op /\ m.session = s /\ m.to = to
         /\ m.stage = "me" /\ m.st = "sent"
BY DEF MeCall

\* The fields of a free request.
LEMMA IdleFields == Idle.st = "idle" /\ Idle.stage = "none" /\ Idle.op = "none" /\ Idle.session = NoSession
BY DEF Idle

\* A page is shown.
LEMMA LandMoves ==
  ASSUME Typed, NEW c \in Call, NEW t \in Tab, NEW x \in TabRecord,
         NEW p \in Page, NEW from \in Maybe(Page, NoPage), Land(c, t, x, p, from)
  PROVE  Moves(c, t, x)
<1> DEFINE y == [x EXCEPT !.page = p, !.redirect = from, !.form = IF p = x.page THEN @ ELSE {}]
<1>1. y \in TabRecord /\ y.open = x.open /\ y.session = x.session /\ y.user = x.user
  BY DEF TabRecord, Maybe
<1>2. tab' = [tab EXCEPT ![t] = y] /\ call' = [call EXCEPT ![c] = Idle] /\ nav' = [nav EXCEPT ![t] = NoCall]
  BY DEF Land
<1> HIDE DEF y
<1> QED BY <1>1, <1>2, CallTypes DEF Moves, Typed, Maybe

\* The guard waits for the account.
LEMMA AwaitMoves ==
  ASSUME Typed, NEW c \in Call, NEW t \in Tab, NEW x \in TabRecord, NEW to \in Page,
         Await(c, t, x, to)
  PROVE  Moves(c, t, x) /\ call'[c].stage = "me" /\ call'[c].tab = t
<1> DEFINE m == MeCall(t, "guard", x.session, to)
<1>1. x.session \in Maybe(Session, NoSession)
  BY DEF TabRecord
<1>2. m \in CallRecord
  BY <1>1, CallTypes DEF Ops, Maybe
<1>3. m.tab = t /\ m.op = "guard" /\ m.to = to /\ m.stage = "me" /\ m.st = "sent"
  BY MeCallFields
<1>4. tab' = [tab EXCEPT ![t] = x] /\ call' = [call EXCEPT ![c] = m] /\ nav' = [nav EXCEPT ![t] = c]
  BY DEF Await
<1> HIDE DEF m
<1> QED BY <1>2, <1>3, <1>4 DEF Moves, Typed, Maybe

\* A redirect is followed.
LEMMA PassMoves ==
  ASSUME Typed, NEW c \in Call, NEW t \in Tab, NEW x \in TabRecord, NEW to \in Page, Pass(c, t, x, to)
  PROVE  Moves(c, t, x)
BY AdmittedIsPage, LandMoves DEF Pass, Maybe

\* router.push.
LEMMA GoMoves ==
  ASSUME Typed, NEW c \in Call, NEW t \in Tab, NEW x \in TabRecord, NEW to \in Page, Go(c, t, x, to)
  PROVE  /\ Moves(c, t, x)
         /\ ~SameRoute(x, to) /\ NeedsUser(x) => call'[c].stage = "me" /\ call'[c].tab = t
<1>1. NoPage \in Maybe(Page, NoPage)
  BY DEF Maybe
<1>2. CASE SameRoute(x, to) /\ Land(c, t, x, to, NoPage)
  BY <1>1, <1>2, LandMoves
<1>3. CASE ~SameRoute(x, to) /\ NeedsUser(x) /\ Await(c, t, x, to)
  BY <1>3, AwaitMoves
<1>4. CASE ~SameRoute(x, to) /\ ~NeedsUser(x) /\ Pass(c, t, x, to)
  BY <1>4, PassMoves
<1> QED BY <1>2, <1>3, <1>4 DEF Go

\* A handler ends without navigating.
LEMMA RestMoves ==
  ASSUME Typed, NEW c \in Call, NEW t \in Tab, NEW x \in TabRecord, Rest(c, t, x)
  PROVE  Moves(c, t, x)
BY CallTypes DEF Rest, Moves, Typed

\* The guard goes on.
LEMMA ResumeMoves ==
  ASSUME Typed, NEW c \in Call, NEW t \in Tab, NEW x \in TabRecord, NEW to \in Page,
         Resume(c, t, x, to)
  PROVE  Moves(c, t, x)
BY RestMoves, AwaitMoves, PassMoves, AdmittedIsPage DEF Resume

\* The caller of fetchUser goes on; a form of the tab may be finished with it.
LEMMA ContinueMoves ==
  ASSUME Typed, Aimed, NEW c \in Call, NEW t \in Tab, NEW x \in TabRecord, Continue(c, t, x)
  PROVE  Moves(c, t, x)
<1> DEFINE y == [x EXCEPT !.form = @ \ {c}]
           to == IF x.redirect # NoPage THEN x.redirect ELSE "game"
<1>1. y \in TabRecord /\ y.open = x.open /\ y.session = x.session /\ y.user = x.user
  BY DEF TabRecord
<1>2. to \in Page
  BY AuthConstants DEF TabRecord, Maybe
<1>3. CASE call[c].op = "fetch" /\ Rest(c, t, x)
  BY <1>3, RestMoves
<1>4. CASE call[c].op = "guard" /\ Resume(c, t, x, call[c].to)
  BY <1>4, ResumeMoves DEF Aimed
<1>5. CASE Go(c, t, y, to)
  <2> HIDE DEF y, to
  <2>1. Moves(c, t, y)
    BY <1>1, <1>2, <1>5, GoMoves
  <2> QED BY <2>1, <1>1 DEF Moves
<1> QED BY <1>3, <1>4, <1>5 DEF Continue

-----------------------------------------------------------------------------
(* What a step about one request and one tab may change *)

\* Only the tab t and the request c change; t is open, and c is free or t's.
Touches(c, t) ==
  /\ tab' \in [Tab -> TabRecord]
  /\ call' \in [Call -> CallRecord]
  /\ nav' \in [Tab -> Maybe(Call, NoCall)]
  /\ \A u \in Tab \ {t} : tab'[u] = tab[u]
  /\ tab'[t].open = TRUE
  /\ \A d \in Call \ {c} : call'[d] = call[d]
  /\ \/ call'[c] = Idle
     \/ /\ call'[c].tab = t
        /\ call'[c].op = "guard" => call'[c].to \in Page
        /\ call'[c].stage = "me" /\ call'[c].st = "ok" => call'[c].session \in Session

\* The storage, the events and the sessions keep their types.
SharedTyped ==
  /\ stored' \in StoredRecord
  /\ told' \in [Tab -> BOOLEAN]
  /\ \A u \in Tab : told'[u] => tab[u].open
  /\ alive' \subseteq issued' /\ issued' \subseteq Session /\ retired' \subseteq Session

\* Such a step keeps the types.
LEMMA TouchType ==
  ASSUME TypeInv, NEW c \in Call, NEW t \in Tab, Touches(c, t), SharedTyped
  PROVE  TypeInv'
<1>1. ASSUME NEW d \in Call
      PROVE  /\ call'[d] = Idle \/ (call'[d].tab \in Tab /\ tab'[call'[d].tab].open)
             /\ call'[d].op = "guard" => call'[d].to \in Page
             /\ call'[d].stage = "me" /\ call'[d].st = "ok" => call'[d].session \in Session
  <2>1. CASE d = c
    BY <2>1, IdleFields DEF Touches
  <2>2. CASE d # c
    <3>1. call'[d] = call[d]
      BY <2>2 DEF Touches
    <3>2. call[d] = Idle \/ (call[d].tab \in Tab /\ tab[call[d].tab].open)
      BY DEF TypeInv, TypeOK, Free
    <3>3. call[d].op = "guard" => call[d].to \in Page
      BY DEF TypeInv, Aimed
    <3>4. call[d].stage = "me" /\ call[d].st = "ok" => call[d].session \in Session
      BY DEF TypeInv, AskedAbout
    <3> QED BY <3>1, <3>2, <3>3, <3>4 DEF Touches
  <2> QED BY <2>1, <2>2
<1>2. ASSUME NEW u \in Tab, told'[u] PROVE tab'[u].open
  BY <1>2 DEF Touches, SharedTyped
<1>3. TypeOK'
  BY <1>1 DEF Touches, SharedTyped, TypeOK, Free
<1> QED BY <1>1, <1>2, <1>3 DEF TypeInv, Aimed, OpenAreTold, AskedAbout

\* A tab that navigates touches itself and its request only.
LEMMA MovesTouch ==
  ASSUME NEW c \in Call, NEW t \in Tab, NEW x, x.open = TRUE, Moves(c, t, x)
  PROVE  Touches(c, t)
BY DEF Moves, Touches

\* A write of the storage.
LEMMA StoreShared ==
  ASSUME TypeInv, NEW t \in Tab, NEW new \in StoredRecord,
         NEW heard \in [Tab -> BOOLEAN], \A u \in Tab : heard[u] => tab[u].open,
         Store(t, new, heard), UNCHANGED <<issued, alive>>
  PROVE  SharedTyped
<1>1. retired' \subseteq Session
  BY DEF Store, TypeInv, TypeOK, StoredRecord, Maybe
<1>2. told' \in [Tab -> BOOLEAN] /\ \A u \in Tab : told'[u] => tab[u].open
  BY DEF Store, TypeInv, TypeOK, Changes
<1>3. stored' \in StoredRecord
  BY DEF Store
<1> QED BY <1>1, <1>2, <1>3 DEF SharedTyped, TypeInv, TypeOK

\* The storage is left alone.
LEMMA UntouchedShared ==
  ASSUME TypeInv, Untouched, UNCHANGED <<issued, alive>>
  PROVE  SharedTyped
BY DEF Untouched, SharedTyped, TypeInv, TypeOK, OpenAreTold

\* What is written at a sign-out and at a sign-in.
LEMMA StoredTypes ==
  /\ SignedOut \in StoredRecord /\ SignedOut.session = NoSession
  /\ \A s \in Session : [session |-> s, user |-> OwnerOf[s], detailed |-> FALSE] \in StoredRecord
<1>1. SignedOut \in StoredRecord /\ SignedOut.session = NoSession
  BY DEF SignedOut, StoredRecord, Maybe
<1>2. ASSUME NEW s \in Session
      PROVE  [session |-> s, user |-> OwnerOf[s], detailed |-> FALSE] \in StoredRecord
  BY AuthConstants DEF StoredRecord, Maybe
<1> QED BY <1>1, <1>2

\* What is written when an account is known: the session stays.
LEMMA ProfileTypes ==
  ASSUME TypeInv, NEW s \in Session
  PROVE  StoredProfile(s) \in StoredRecord /\ StoredProfile(s).session = stored.session
<1>1. OwnerOf[s] \in User
  BY AuthConstants
<1>2. stored \in StoredRecord
  BY DEF TypeInv, TypeOK
<1> QED BY <1>1, <1>2 DEF StoredProfile, StoredRecord, Maybe

\* The records a tab goes on with.
LEMMA TabTypes ==
  ASSUME NEW x \in TabRecord
  PROVE  /\ Cleared(x) \in TabRecord /\ Cleared(x).open = x.open
         /\ Cleared(x).session = NoSession /\ Cleared(x).user = NoUser
         /\ \A u \in User : LET y == [x EXCEPT !.user = u] IN
              y \in TabRecord /\ y.open = x.open /\ y.session = x.session /\ y.user = u
         /\ \A s \in Maybe(Session, NoSession) : LET y == [x EXCEPT !.session = s] IN
              y \in TabRecord /\ y.open = x.open /\ y.session = s /\ y.user = x.user
         /\ \A F \in SUBSET Call : LET y == [x EXCEPT !.form = F] IN
              y \in TabRecord /\ y.open = x.open /\ y.session = x.session /\ y.user = x.user
BY DEF Cleared, TabRecord, Maybe

\* A tab that is opened.
LEMMA OpenedType ==
  ASSUME TypeInv
  PROVE  LET x == [ClosedTab EXCEPT !.open = TRUE, !.session = Restored] IN
         /\ x \in TabRecord /\ x.open = TRUE /\ x.session = stored.session
         /\ x.user = NoUser /\ x.page = "blank"
<1>1. stored.session \in Maybe(Session, NoSession)
  BY DEF TypeInv, TypeOK, StoredRecord
<1> QED BY <1>1 DEF ClosedTab, Restored, TabRecord, Maybe

-----------------------------------------------------------------------------
(* The kinds of steps *)

\* A session the backend has given and no tab has taken up yet.
Unused(c) == call[c].stage = "api" /\ call[c].op \in SignInOps /\ call[c].st = "ok"

\* What the steps about a tab and a request have in common: a question for
\* the account is t's own, and an unused session is a new one.
Common(c, t) ==
  /\ Touches(c, t) /\ SharedTyped
  /\ call[c].stage # "me" \/ call[c].tab = t
  /\ issued \subseteq issued'
  /\ Unused(c)' => call'[c].session \in issued' \ issued

\* The tab goes on with the session it has.
Works(c, t) ==
  /\ Common(c, t)
  /\ tab[t].open /\ tab'[t].session = tab[t].session
  /\ stored'.session = stored.session /\ retired' = retired
  /\ \A u \in Tab : told[u] => told'[u]
  /\ NeedsUser(tab'[t]) =>
       NeedsUser(tab[t]) /\ (call[c].stage = "me" => call'[c].stage = "me" /\ call'[c].tab = t)

\* The tab takes the session of the storage over.
Takes(c, t) ==
  /\ Common(c, t)
  /\ tab'[t].session = stored.session
  /\ stored'.session = stored.session /\ retired' = retired
  /\ \A u \in Tab \ {t} : told[u] => told'[u]
  /\ NeedsUser(tab'[t]) => call'[c].stage = "me" /\ call'[c].tab = t

\* The tab writes a session of its own: none, or the one it was given.
Writes(c, t, s) ==
  /\ Common(c, t)
  /\ s = NoSession \/ (Unused(c) /\ s = call[c].session)
  /\ tab[t].open /\ tab'[t].session = s /\ stored'.session = s
  /\ issued' = issued
  /\ retired' = IF s = stored.session THEN retired ELSE retired \cup ({stored.session} \ {NoSession})
  /\ \A u \in Tab : told[u] => told'[u]
  /\ stored'.session # stored.session => \A u \in Tab \ {t} : tab[u].open => told'[u]
  /\ NeedsUser(tab'[t]) => call'[c].stage = "me" /\ call'[c].tab = t
  /\ ~Unused(c)'

\* What TypeInv says of a request that is not free.
LEMMA CallFacts ==
  ASSUME TypeInv, NEW c \in Call
  PROVE  /\ Typed /\ Aimed /\ call[c] \in CallRecord
         /\ call[c] # Idle => /\ call[c].tab \in Tab /\ tab[call[c].tab].open = TRUE
                              /\ tab[call[c].tab] \in TabRecord
         /\ Free(c) => call[c].stage = "none" /\ ~Unused(c)
<1>1. call[c] # Idle => call[c].tab \in Tab /\ tab[call[c].tab].open
  BY DEF TypeInv, TypeOK, Free
<1>2. \A t \in Tab : tab[t] \in TabRecord /\ tab[t].open \in BOOLEAN
  BY DEF TypeInv, TypeOK, TabRecord
<1> QED BY <1>1, <1>2, IdleFields DEF TypeInv, TypeOK, Typed, Free, Unused

\* The parts of a step that navigates.
LEMMA MovesCommon ==
  ASSUME NEW c \in Call, NEW t \in Tab, NEW x, x.open = TRUE, Moves(c, t, x), SharedTyped,
         call[c].stage # "me" \/ call[c].tab = t, issued \subseteq issued'
  PROVE  Common(c, t) /\ ~Unused(c)' /\ tab'[t].session = x.session /\ tab'[t].user = x.user
<1>1. ~Unused(c)'
  BY IdleFields DEF Moves, Unused
<1> QED BY <1>1, MovesTouch DEF Moves, Common

\* A tab is opened.
LEMMA OpenTakes ==
  ASSUME TypeInv, NEW t \in Tab, NEW c \in Call, NEW p \in Page, Open(t, c, p)
  PROVE  Takes(c, t)
<1> DEFINE x == [ClosedTab EXCEPT !.open = TRUE, !.session = Restored]
<1>1. /\ x \in TabRecord /\ x.open = TRUE /\ x.session = stored.session
      /\ x.user = NoUser /\ x.page = "blank"
  BY OpenedType
<1>2. Go(c, t, x, p) /\ Free(c) /\ UNCHANGED <<stored, told, issued, alive, retired>>
  BY DEF Open
<1>3. SharedTyped
  BY <1>2, UntouchedShared DEF Untouched
<1> HIDE DEF x
<1>4. p # "blank"
  BY AuthConstants DEF AllPages
<1>5. Moves(c, t, x) /\ (NeedsUser(x) => call'[c].stage = "me" /\ call'[c].tab = t)
  <2>1. Typed /\ ~SameRoute(x, p)
    BY <1>1, <1>4, CallFacts DEF SameRoute
  <2> QED BY <1>1, <1>2, <2>1, GoMoves
<1>6. call[c].stage # "me" /\ issued \subseteq issued'
  BY <1>2, CallFacts
<1>7. Common(c, t) /\ tab'[t].session = x.session /\ tab'[t].user = x.user
  BY <1>1, <1>3, <1>5, <1>6, MovesCommon
<1> QED BY <1>1, <1>2, <1>5, <1>7 DEF Takes, NeedsUser

\* A link is followed.
LEMMA NavigateWorks ==
  ASSUME TypeInv, NEW t \in Tab, NEW c \in Call, NEW p \in Page, Navigate(t, c, p)
  PROVE  Works(c, t)
<1>1. tab[t].open = TRUE /\ tab[t] \in TabRecord
  BY DEF Navigate, TypeInv, TypeOK, TabRecord
<1>2. Go(c, t, tab[t], p) /\ Free(c) /\ Untouched /\ UNCHANGED <<issued, alive>>
  BY DEF Navigate
<1>3. SharedTyped
  BY <1>2, UntouchedShared
<1>4. Moves(c, t, tab[t])
  BY <1>1, <1>2, GoMoves, CallFacts
<1>5. Common(c, t) /\ tab'[t].session = tab[t].session /\ tab'[t].user = tab[t].user
  BY <1>1, <1>2, <1>3, <1>4, CallFacts, MovesCommon
<1> QED BY <1>1, <1>2, <1>5, CallFacts DEF Works, NeedsUser, Untouched

\* A form is submitted.
LEMMA SubmitWorks ==
  ASSUME TypeInv, NEW t \in Tab, NEW c \in Call,
         SubmitLogout(t, c) \/ \E op \in SignInOps : SubmitSignIn(t, c, op)
  PROVE  Works(c, t)
<1> DEFINE m(op, s) == [st |-> "sent", stage |-> "api", op |-> op, tab |-> t, session |-> s, to |-> NoPage]
<1>1. \A op \in Ops \ {"guard"}, s \in Maybe(Session, NoSession) :
        /\ m(op, s) \in CallRecord /\ m(op, s).tab = t /\ m(op, s).op # "guard"
        /\ m(op, s).st = "sent"
  BY DEF CallRecord, Maybe
<1>2. SharedTyped
  BY UntouchedShared DEF SubmitLogout, SubmitSignIn
<1>3. tab[t] \in TabRecord /\ tab[t].open = TRUE /\ tab[t].session \in Maybe(Session, NoSession)
  BY DEF SubmitLogout, SubmitSignIn, TypeInv, TypeOK, TabRecord
<1>4. PICK op \in Ops \ {"guard"}, s \in Maybe(Session, NoSession) : call' = [call EXCEPT ![c] = m(op, s)]
  BY <1>3 DEF SubmitLogout, SubmitSignIn, Ops, SignInOps, Maybe
<1>5. PICK F \in SUBSET Call : tab' = [tab EXCEPT ![t] = [tab[t] EXCEPT !.form = F]]
  <2>1. CASE SubmitLogout(t, c)
    <3>1. tab[t].form \in SUBSET Call /\ [tab[t] EXCEPT !.form = tab[t].form] = tab[t]
      BY <1>3 DEF TabRecord
    <3> QED BY <2>1, <3>1 DEF SubmitLogout, TypeInv, TypeOK
  <2>2. CASE \E o \in SignInOps : SubmitSignIn(t, c, o)
    <3>1. tab[t].form \cup {c} \in SUBSET Call
      BY <1>3 DEF TabRecord
    <3> QED BY <2>2, <3>1 DEF SubmitSignIn
  <2> QED BY <2>1, <2>2
<1> DEFINE y == [tab[t] EXCEPT !.form = F]
<1>6. y \in TabRecord /\ y.open = TRUE /\ y.session = tab[t].session /\ y.user = tab[t].user
  BY <1>3, TabTypes
<1>7. m(op, s) \in CallRecord /\ m(op, s).tab = t /\ m(op, s).op # "guard" /\ m(op, s).st = "sent"
  BY <1>1
<1>8. /\ Free(c) /\ nav' = nav /\ issued' = issued
      /\ stored' = stored /\ told' = told /\ retired' = retired
  BY DEF SubmitLogout, SubmitSignIn, Untouched
<1> HIDE DEF m, y
<1>9. tab' = [tab EXCEPT ![t] = y] /\ call' = [call EXCEPT ![c] = m(op, s)]
  BY <1>4, <1>5 DEF y
<1>10. Touches(c, t) /\ call'[c] = m(op, s) /\ tab'[t] = y
  BY <1>6, <1>7, <1>8, <1>9 DEF Touches, TypeInv, TypeOK
<1>11. Common(c, t)
  BY <1>2, <1>7, <1>8, <1>10, CallFacts DEF Common, Unused
<1> QED BY <1>3, <1>6, <1>8, <1>10, <1>11, CallFacts DEF Works, NeedsUser

\* A tab syncs: on an event, or when it comes to the front.
LEMMA SyncTakes ==
  ASSUME TypeInv, NEW t \in Tab, NEW c \in Call, StorageEvent(t, c) \/ Focus(t, c)
  PROVE  Takes(c, t)
<1>1. PICK heard \in [Tab -> BOOLEAN] :
        /\ Sync(t, c, heard)
        /\ \A u \in Tab : heard[u] => tab[u].open
        /\ \A u \in Tab \ {t} : heard[u] = told[u]
  BY DEF StorageEvent, Focus, TypeInv, TypeOK, OpenAreTold
<1>2. tab[t] \in TabRecord /\ tab[t].open = TRUE
  BY DEF StorageEvent, Focus, TypeInv, TypeOK, OpenAreTold, TabRecord
<1>3. Free(c) /\ nav' = nav /\ issued' = issued /\ alive' = alive
  BY DEF StorageEvent, Focus
<1>4. CASE stored.session = NoSession
  <2>1. /\ tab' = [tab EXCEPT ![t] = Cleared(tab[t])] /\ call' = call
        /\ Store(t, SignedOut, heard)
    BY <1>1, <1>4 DEF Sync
  <2>2. SharedTyped
    BY <1>1, <1>3, <2>1, StoreShared, StoredTypes
  <2>3. Touches(c, t) /\ tab'[t] = Cleared(tab[t])
    BY <1>2, <1>3, <2>1, TabTypes DEF Touches, TypeInv, TypeOK, Free
  <2>4. stored'.session = stored.session /\ retired' = retired
        /\ \A u \in Tab : heard[u] => told'[u]
    BY <1>4, <2>1, StoredTypes DEF Store
  <2>5. Common(c, t)
    BY <1>3, <2>1, <2>2, <2>3, CallFacts DEF Common, Unused
  <2> QED BY <1>1, <1>2, <1>4, <2>3, <2>4, <2>5, TabTypes DEF Takes, NeedsUser
<1>5. CASE stored.session # NoSession
  <2> DEFINE y == [tab[t] EXCEPT !.session = stored.session]
             m == MeCall(t, "fetch", stored.session, NoPage)
  <2>1. stored.session \in Maybe(Session, NoSession) /\ stored \in StoredRecord
    BY DEF TypeInv, TypeOK, StoredRecord
  <2>2. y \in TabRecord /\ y.open = TRUE /\ y.session = stored.session
    BY <1>2, <2>1, TabTypes
  <2>3. m \in CallRecord /\ m.tab = t /\ m.stage = "me" /\ m.st = "sent" /\ m.op = "fetch"
    BY <2>1, CallTypes, MeCallFields DEF Ops, Maybe
  <2>4. /\ tab' = [tab EXCEPT ![t] = y] /\ call' = [call EXCEPT ![c] = m]
        /\ Store(t, stored, heard)
    BY <1>1, <1>5 DEF Sync
  <2> HIDE DEF y, m
  <2>5. SharedTyped
    BY <1>1, <1>3, <2>1, <2>4, StoreShared
  <2>6. Touches(c, t) /\ tab'[t] = y /\ call'[c] = m
    BY <1>3, <2>2, <2>3, <2>4 DEF Touches, TypeInv, TypeOK
  <2>7. stored'.session = stored.session /\ retired' = retired
        /\ \A u \in Tab : heard[u] => told'[u]
    BY <2>4 DEF Store
  <2>8. Common(c, t)
    BY <1>3, <2>3, <2>5, <2>6, CallFacts DEF Common, Unused
  <2> QED BY <1>1, <2>2, <2>3, <2>6, <2>7, <2>8 DEF Takes
<1> QED BY <1>4, <1>5

\* A request is answered or fails, and nothing else happens.
LEMMA ServeWorks ==
  ASSUME TypeInv, NEW c \in Call, Serve(c)
  PROVE  Works(c, call[c].tab)
<1> DEFINE t == call[c].tab
<1>1. call[c] # Idle /\ call[c] \in CallRecord /\ t \in Tab /\ tab[t].open = TRUE
  BY CallFacts, IdleFields DEF Serve, ServeSignIn, ServeLogout, ServeMe, Fail
<1>2. PICK st \in {"ok", "failed"}, s \in Maybe(Session, NoSession) :
        /\ call' = [call EXCEPT ![c] = [call[c] EXCEPT !.st = st, !.session = s]]
        /\ \/ s = call[c].session /\ issued' = issued /\ alive' \subseteq alive
              /\ ~(call[c].stage = "api" /\ call[c].op \in SignInOps /\ st = "ok")
              /\ (call[c].stage = "me" /\ st = "ok" => s \in Session)
           \/ s \in Session \ issued /\ call[c].stage = "api" /\ issued' = issued \cup {s} /\ alive' = alive \cup {s}
  <2>0. call[c].session \in Maybe(Session, NoSession)
    BY <1>1 DEF CallRecord
  <2>1. ASSUME NEW s \in Session, ServeSignIn(c, s)
        PROVE  /\ call' = [call EXCEPT ![c] = [call[c] EXCEPT !.st = "ok", !.session = s]]
               /\ s \in Session \ issued /\ call[c].stage = "api" /\ issued' = issued \cup {s} /\ alive' = alive \cup {s}
    BY <2>1 DEF ServeSignIn
  <2>2. ASSUME NEW st, call' = [call EXCEPT ![c].st = st]
        PROVE  call' = [call EXCEPT ![c] = [call[c] EXCEPT !.st = st, !.session = call[c].session]]
    <3>1. [call[c] EXCEPT !.st = st] = [call[c] EXCEPT !.st = st, !.session = call[c].session]
      BY <1>1 DEF CallRecord
    <3> QED BY <2>2, <3>1
  <2>3. CASE ServeLogout(c)
    <3>1. call' = [call EXCEPT ![c].st = "ok"]
      BY <2>3 DEF ServeLogout
    <3>2. /\ issued' = issued /\ alive' \subseteq alive
          /\ call[c].op \notin SignInOps /\ call[c].stage # "me"
      BY <2>3 DEF ServeLogout, SignInOps
    <3> QED BY <2>0, <2>2, <3>1, <3>2
  <2>4. CASE ServeMe(c)
    <3> DEFINE st == IF call[c].session \in alive THEN "ok" ELSE "failed"
    <3>1. call' = [call EXCEPT ![c].st = st]
      BY <2>4 DEF ServeMe
    <3>2. issued' = issued /\ alive' \subseteq alive /\ call[c].stage # "api" /\ st \in {"ok", "failed"}
          /\ (st = "ok" => call[c].session \in Session)
      BY <2>4 DEF ServeMe, TypeInv, TypeOK
    <3> HIDE DEF st
    <3> QED BY <2>0, <2>2, <3>1, <3>2
  <2>5. CASE Fail(c)
    <3>1. call' = [call EXCEPT ![c].st = "failed"]
      BY <2>5 DEF Fail
    <3>2. issued' = issued /\ alive' \subseteq alive
      BY <2>5 DEF Fail
    <3> QED BY <2>0, <2>2, <3>1, <3>2
  <2>6. CASE \E s \in Session : ServeSignIn(c, s)
    BY <2>1, <2>6 DEF Maybe
  <2> QED BY <2>3, <2>4, <2>5, <2>6 DEF Serve
<1> DEFINE m == [call[c] EXCEPT !.st = st, !.session = s]
<1>3. /\ m \in CallRecord /\ m.tab = t /\ m.op = call[c].op /\ m.to = call[c].to
      /\ m.stage = call[c].stage /\ m.st = st /\ m.session = s
  BY <1>1 DEF CallRecord
<1>4. tab' = tab /\ stored' = stored /\ told' = told /\ nav' = nav /\ retired' = retired
  BY DEF Serve, ServeSignIn, ServeLogout, ServeMe, Fail
<1>5. call' = [call EXCEPT ![c] = m]
  BY <1>2
<1> HIDE DEF m, t
<1>6. call'[c] = m /\ Touches(c, t)
  BY <1>1, <1>2, <1>3, <1>4, <1>5 DEF Touches, TypeInv, TypeOK, Aimed
<1>7. SharedTyped
  BY <1>2, <1>4 DEF SharedTyped, TypeInv, TypeOK, OpenAreTold
<1>8. call[c].tab = t
  BY DEF t
<1>9. issued \subseteq issued' /\ (Unused(c)' => call'[c].session \in issued' \ issued)
  BY <1>2, <1>3, <1>6 DEF Unused
<1>10. Common(c, t)
  BY <1>6, <1>7, <1>8, <1>9 DEF Common
<1> QED BY <1>1, <1>3, <1>4, <1>6, <1>8, <1>10 DEF Works

\* A sign-in was answered: the tab takes the session up.
LEMMA ReceiveSignInWrites ==
  ASSUME TypeInv, NEW c \in Call, ReceiveSignIn(c), call[c].session \in Session
  PROVE  Writes(c, call[c].tab, call[c].session)
<1> DEFINE t == call[c].tab
           s == call[c].session
           y == [tab[t] EXCEPT !.session = s]
           m == MeCall(t, call[c].op, s, NoPage)
           new == [session |-> s, user |-> OwnerOf[s], detailed |-> FALSE]
<1>1. call[c] # Idle /\ call[c] \in CallRecord /\ t \in Tab /\ tab[t].open = TRUE /\ tab[t] \in TabRecord
  BY CallFacts, IdleFields DEF ReceiveSignIn
<1>2. Unused(c) /\ call[c].op \in Ops /\ call[c].op # "guard"
  BY DEF ReceiveSignIn, Unused, Ops, SignInOps
<1>3. y \in TabRecord /\ y.open = TRUE /\ y.session = s
  BY <1>1, TabTypes DEF Maybe
<1>4. m \in CallRecord /\ m.tab = t /\ m.stage = "me" /\ m.st = "sent" /\ m.op # "guard"
  BY <1>1, <1>2, CallTypes, MeCallFields DEF Maybe
<1>5. new \in StoredRecord /\ new.session = s
  BY StoredTypes
<1>6. /\ tab' = [tab EXCEPT ![t] = y] /\ call' = [call EXCEPT ![c] = m]
      /\ Store(t, new, told) /\ nav' = nav /\ issued' = issued /\ alive' = alive
  BY DEF ReceiveSignIn
<1> HIDE DEF y, m, new
<1>7. SharedTyped
  BY <1>1, <1>5, <1>6, StoreShared DEF TypeInv, TypeOK, OpenAreTold
<1>8. Touches(c, t) /\ tab'[t] = y /\ call'[c] = m
  BY <1>1, <1>3, <1>4, <1>6 DEF Touches, TypeInv, TypeOK
<1>9. Common(c, t) /\ ~Unused(c)'
  BY <1>2, <1>4, <1>6, <1>7, <1>8 DEF Common, Unused
<1>10. /\ stored'.session = s
       /\ retired' = IF s = stored.session THEN retired ELSE retired \cup ({stored.session} \ {NoSession})
       /\ \A u \in Tab : told[u] => told'[u]
       /\ stored' # stored => \A u \in Tab \ {t} : tab[u].open => told'[u]
  BY <1>5, <1>6 DEF Store, Changes
<1> QED BY <1>1, <1>2, <1>3, <1>4, <1>6, <1>8, <1>9, <1>10 DEF Writes

\* A sign-in was refused.
LEMMA ReceiveRefusalWorks ==
  ASSUME TypeInv, NEW c \in Call, ReceiveRefusal(c)
  PROVE  Works(c, call[c].tab)
<1> DEFINE t == call[c].tab
           y == [tab[t] EXCEPT !.form = @ \ {c}]
<1>1. call[c] # Idle /\ t \in Tab /\ tab[t].open = TRUE /\ tab[t] \in TabRecord
  BY CallFacts, IdleFields DEF ReceiveRefusal
<1>2. tab[t].form \ {c} \in SUBSET Call
  BY <1>1 DEF TabRecord
<1>3. y \in TabRecord /\ y.open = TRUE /\ y.session = tab[t].session /\ y.user = tab[t].user
  BY <1>1, <1>2, TabTypes
<1>4. /\ tab' = [tab EXCEPT ![t] = y] /\ call' = [call EXCEPT ![c] = Idle] /\ nav' = nav
      /\ Untouched /\ issued' = issued /\ alive' = alive /\ call[c].stage = "api"
  BY DEF ReceiveRefusal
<1> HIDE DEF y
<1>5. SharedTyped
  BY <1>4, UntouchedShared
<1>6. Touches(c, t) /\ tab'[t] = y /\ call'[c] = Idle
  BY <1>1, <1>3, <1>4, CallTypes DEF Touches, TypeInv, TypeOK
<1>7. Common(c, t)
  BY <1>4, <1>5, <1>6, IdleFields DEF Common, Unused
<1> QED BY <1>1, <1>3, <1>4, <1>6, <1>7 DEF Works, NeedsUser, Untouched

\* The account was answered, and a session was asked about.
LEMMA ReceiveMeWorks ==
  ASSUME TypeInv, NEW c \in Call, ReceiveMe(c), call[c].session \in Session
  PROVE  Works(c, call[c].tab)
<1> DEFINE t == call[c].tab
           u == OwnerOf[call[c].session]
           y == [tab[t] EXCEPT !.user = u]
           new == StoredProfile(call[c].session)
<1>1. call[c] # Idle /\ t \in Tab /\ tab[t].open = TRUE /\ tab[t] \in TabRecord
  BY CallFacts, IdleFields DEF ReceiveMe
<1>2. u \in User /\ u # NoUser
  BY AuthConstants
<1>3. y \in TabRecord /\ y.open = TRUE /\ y.session = tab[t].session /\ y.user = u
  BY <1>1, <1>2, TabTypes
<1>4. new \in StoredRecord /\ new.session = stored.session
  BY ProfileTypes
<1>5. Continue(c, t, y) /\ Store(t, new, told) /\ issued' = issued /\ alive' = alive
  BY DEF ReceiveMe
<1> HIDE DEF y, u, new
<1>6. SharedTyped
  BY <1>1, <1>4, <1>5, StoreShared DEF TypeInv, TypeOK, OpenAreTold
<1>7. Moves(c, t, y)
  BY <1>1, <1>3, <1>5, CallFacts, ContinueMoves
<1>8. Common(c, t) /\ tab'[t].session = y.session /\ tab'[t].user = y.user
  BY <1>3, <1>1, <1>5, <1>6, <1>7, MovesCommon
<1>9. stored'.session = stored.session /\ retired' = retired /\ \A v \in Tab : told[v] => told'[v]
  BY <1>4, <1>5 DEF Store
<1> QED BY <1>1, <1>2, <1>3, <1>8, <1>9 DEF Works, NeedsUser

\* The tab signs out: the account could not be fetched, or the user wants to.
LEMMA SignOutWrites ==
  ASSUME TypeInv, NEW c \in Call, ReceiveMeFailure(c) \/ ReceiveLogout(c)
  PROVE  Writes(c, call[c].tab, NoSession)
<1> DEFINE t == call[c].tab
           y == Cleared(tab[t])
<1>1. call[c] # Idle /\ t \in Tab /\ tab[t].open = TRUE /\ tab[t] \in TabRecord
  BY CallFacts, IdleFields DEF ReceiveMeFailure, ReceiveLogout
<1>2. y \in TabRecord /\ y.open = TRUE /\ y.session = NoSession /\ y.user = NoUser
  BY <1>1, TabTypes
<1>3. /\ Continue(c, t, y) \/ Go(c, t, y, "login")
      /\ Store(t, SignedOut, told) /\ issued' = issued /\ alive' = alive
  BY DEF ReceiveMeFailure, ReceiveLogout
<1>4. SharedTyped
  BY <1>1, <1>3, StoreShared, StoredTypes DEF TypeInv, TypeOK, OpenAreTold
<1> HIDE DEF y
<1>5. "login" \in Page
  BY AuthConstants
<1>6. Moves(c, t, y)
  BY <1>1, <1>2, <1>3, <1>5, CallFacts, ContinueMoves, GoMoves
<1>7. Common(c, t) /\ ~Unused(c)' /\ tab'[t].session = y.session /\ tab'[t].user = y.user
  BY <1>1, <1>2, <1>3, <1>4, <1>6, MovesCommon
<1>8. /\ stored'.session = NoSession
      /\ retired' = IF NoSession = stored.session THEN retired ELSE retired \cup ({stored.session} \ {NoSession})
      /\ \A u \in Tab : told[u] => told'[u]
      /\ stored' # stored => \A u \in Tab \ {t} : tab[u].open => told'[u]
  BY <1>3, StoredTypes DEF Store, Changes
<1> QED BY <1>1, <1>2, <1>3, <1>7, <1>8 DEF Writes, NeedsUser

-----------------------------------------------------------------------------
(* Every step is of one of the kinds *)

\* No session comes back: what was in the storage is retired once, and every
\* session that a tab is still to take up is new, and its own.
Fresh ==
  /\ stored.session # NoSession => stored.session \in issued
  /\ retired \subseteq issued
  /\ stored.session \notin retired
  /\ \A c \in Call : Unused(c) => call[c].session \in issued \ (retired \cup {stored.session})
  /\ \A c, d \in Call : Unused(c) /\ Unused(d) /\ c # d => call[c].session # call[d].session

\* A step about one tab: it works, takes a session over, or writes one.
Kinds(c, t) == Works(c, t) \/ Takes(c, t) \/ \E s \in Maybe(Session, NoSession) : Writes(c, t, s)

\* The kinds are all there are, but for a tab that closes and a session that ends.
LEMMA StepKinds ==
  ASSUME TypeInv, Fresh, Next
  PROVE  \/ \E c \in Call, t \in Tab : Kinds(c, t)
         \/ \E t \in Tab : Close(t)
         \/ \E s \in Session : Expire(s)
<1>1. CASE \E t \in Tab, c \in Call : UserStep(t, c) \/ StorageEvent(t, c)
  <2>1. PICK t \in Tab, c \in Call : UserStep(t, c) \/ StorageEvent(t, c)
    BY <1>1
  <2>2. Works(c, t) \/ Takes(c, t)
    BY <2>1, OpenTakes, NavigateWorks, SubmitWorks, SyncTakes DEF UserStep
  <2> QED BY <2>2 DEF Kinds
<1>2. CASE \E c \in Call : Serve(c) \/ Receive(c)
  <2>1. PICK c \in Call : Serve(c) \/ Receive(c)
    BY <1>2
  <2> DEFINE t == call[c].tab
  <2>2. t \in Tab
    BY <2>1, CallFacts, IdleFields
       DEF Serve, ServeSignIn, ServeLogout, ServeMe, Fail, Receive, ReceiveSignIn,
           ReceiveRefusal, ReceiveMe, ReceiveMeFailure, ReceiveLogout
  <2>3. ASSUME ReceiveSignIn(c) PROVE \E s \in Maybe(Session, NoSession) : Writes(c, t, s)
    <3>1. Unused(c)
      BY <2>3 DEF ReceiveSignIn, Unused
    <3>2. call[c].session \in Session
      BY <3>1 DEF Fresh, TypeInv, TypeOK
    <3> QED BY <2>3, <3>2, ReceiveSignInWrites DEF Maybe
  <2>4. ASSUME ReceiveMe(c) PROVE Works(c, t)
    BY <2>4, ReceiveMeWorks DEF ReceiveMe, TypeInv, AskedAbout
  <2>5. ASSUME ReceiveMeFailure(c) \/ ReceiveLogout(c)
        PROVE  \E s \in Maybe(Session, NoSession) : Writes(c, t, s)
    BY <2>5, SignOutWrites DEF Maybe
  <2>6. ASSUME Serve(c) \/ ReceiveRefusal(c) PROVE Works(c, t)
    BY <2>6, ServeWorks, ReceiveRefusalWorks
  <2>7. Kinds(c, t)
    BY <2>1, <2>3, <2>4, <2>5, <2>6 DEF Receive, Kinds
  <2> QED BY <2>2, <2>7
<1> QED BY <1>1, <1>2 DEF Next

-----------------------------------------------------------------------------
(* The invariant *)

\* A step of a kind keeps the types.
LEMMA KindsType ==
  ASSUME TypeInv, NEW c \in Call, NEW t \in Tab, Kinds(c, t)
  PROVE  TypeInv' /\ Common(c, t)
BY TouchType DEF Kinds, Works, Takes, Writes, Common

\* A tab that closes takes its requests and its events along.
LEMMA CloseType ==
  ASSUME TypeInv, NEW t \in Tab, Close(t)
  PROVE  TypeInv'
<1>1. ClosedTab \in TabRecord /\ ClosedTab.open = FALSE
  BY DEF ClosedTab, TabRecord, Maybe
<1>2. /\ tab' = [tab EXCEPT ![t] = ClosedTab] /\ told' = [told EXCEPT ![t] = FALSE]
      /\ nav' = [nav EXCEPT ![t] = NoCall]
      /\ call' = [c \in Call |-> IF call[c].tab = t THEN Idle ELSE call[c]]
      /\ stored' = stored /\ issued' = issued /\ alive' = alive /\ retired' = retired
  BY DEF Close
<1>3. ASSUME NEW d \in Call
      PROVE  \/ call'[d] = Idle
             \/ call'[d] = call[d] /\ call[d] # Idle /\ call[d].tab \in Tab \ {t} /\ tab[call[d].tab].open
  BY <1>2 DEF TypeInv, TypeOK, Free
<1>4. TypeOK'
  <2>1. tab' \in [Tab -> TabRecord] /\ told' \in [Tab -> BOOLEAN] /\ nav' \in [Tab -> Maybe(Call, NoCall)]
    BY <1>1, <1>2 DEF TypeInv, TypeOK, Maybe
  <2>2. call' \in [Call -> CallRecord]
    BY <1>2, CallTypes DEF TypeInv, TypeOK
  <2>3. \A d \in Call : call'[d] = Idle \/ (call'[d].tab \in Tab /\ tab'[call'[d].tab].open)
    BY <1>2, <1>3 DEF TypeInv, TypeOK
  <2> QED BY <1>2, <2>1, <2>2, <2>3 DEF TypeInv, TypeOK, Free
<1>5. Aimed' /\ AskedAbout'
  BY <1>3, IdleFields DEF TypeInv, Aimed, AskedAbout
<1>6. OpenAreTold'
  BY <1>2 DEF TypeInv, TypeOK, OpenAreTold
<1> QED BY <1>4, <1>5, <1>6 DEF TypeInv

\* Such a step gives nobody an unused session.
LEMMA CloseFacts ==
  ASSUME TypeInv, NEW t \in Tab, Close(t)
  PROVE  /\ \A d \in Call : call'[d] = call[d] \/ (call'[d] = Idle /\ call[d].tab = t)
         /\ \A u \in Tab \ {t} : tab'[u] = tab[u] /\ told'[u] = told[u]
         /\ tab'[t].open = FALSE
         /\ stored' = stored /\ issued' = issued /\ retired' = retired
<1>1. ClosedTab.open = FALSE
  BY DEF ClosedTab
<1> QED BY <1>1 DEF Close, TypeInv, TypeOK

\* No session comes back.
LEMMA FreshStep ==
  ASSUME TypeInv, Fresh, NEW c \in Call, NEW t \in Tab, Kinds(c, t)
  PROVE  Fresh'
<1>1. \A d \in Call \ {c} : call'[d] = call[d]
  BY KindsType DEF Common, Touches
<1>2. issued \subseteq issued' /\ (Unused(c)' => call'[c].session \in issued' \ issued)
  BY KindsType DEF Common
<1>3. \A d \in Call \ {c} : Unused(d)' => Unused(d) /\ call'[d].session = call[d].session
  BY <1>1 DEF Unused
<1>4. NoSession \notin issued'
  BY KindsType, AuthConstants DEF TypeInv, TypeOK
<1>5. CASE stored'.session = stored.session /\ retired' = retired
  BY <1>2, <1>3, <1>4, <1>5 DEF Fresh
<1>6. ASSUME NEW s \in Maybe(Session, NoSession), Writes(c, t, s)
      PROVE  Fresh'
  <2>1. /\ stored'.session = s /\ issued' = issued /\ ~Unused(c)'
        /\ s = NoSession \/ (Unused(c) /\ s = call[c].session)
        /\ retired' = IF s = stored.session THEN retired ELSE retired \cup ({stored.session} \ {NoSession})
    BY <1>6 DEF Writes
  <2>2. s # NoSession => s \in issued \ (retired \cup {stored.session})
    BY <2>1 DEF Fresh
  <2>3. /\ retired' \subseteq issued /\ s \notin retired'
        /\ retired' \subseteq retired \cup {stored.session}
    BY <1>4, <2>1, <2>2 DEF Fresh
  <2>4. \A d \in Call : Unused(d)' =>
          call'[d].session \in issued \ (retired \cup {stored.session}) /\ call'[d].session # s
    BY <1>3, <1>4, <2>1 DEF Fresh
  <2>5. \A d, e \in Call : Unused(d)' /\ Unused(e)' /\ d # e => call'[d].session # call'[e].session
    BY <1>3, <2>1 DEF Fresh
  <2> QED BY <2>1, <2>2, <2>3, <2>4, <2>5 DEF Fresh
<1> QED BY <1>5, <1>6 DEF Kinds, Works, Takes

\* A tab with an old session has been told.
LEMMA ToldStep ==
  ASSUME TypeInv, ToldOfChange, NEW c \in Call, NEW t \in Tab, Kinds(c, t)
  PROVE  ToldOfChange'
<1>1. \A u \in Tab \ {t} : tab'[u] = tab[u]
  BY KindsType DEF Common, Touches
<1>2. CASE Works(c, t)
  BY <1>1, <1>2 DEF Works, ToldOfChange
<1>3. CASE Takes(c, t)
  BY <1>1, <1>3 DEF Takes, ToldOfChange
<1>4. ASSUME NEW s \in Maybe(Session, NoSession), Writes(c, t, s) PROVE ToldOfChange'
  BY <1>1, <1>4 DEF Writes, ToldOfChange
<1> QED BY <1>2, <1>3, <1>4 DEF Kinds

\* An account is on its way.
LEMMA ProfileStep ==
  ASSUME TypeInv, ProfileComing, NEW c \in Call, NEW t \in Tab, Kinds(c, t)
  PROVE  ProfileComing'
<1>1. /\ \A u \in Tab \ {t} : tab'[u] = tab[u]
      /\ \A d \in Call \ {c} : call'[d] = call[d]
      /\ call[c].stage # "me" \/ call[c].tab = t
  BY KindsType DEF Common, Touches
<1>2. ASSUME NEW u \in Tab, u # t, tab'[u].open, NeedsUser(tab'[u])
      PROVE  \E d \in Call : call'[d].tab = u /\ call'[d].stage = "me"
  <2>1. PICK d \in Call : call[d].tab = u /\ call[d].stage = "me"
    BY <1>1, <1>2 DEF ProfileComing
  <2> QED BY <1>1, <1>2, <2>1
<1>3. ASSUME NeedsUser(tab'[t]) PROVE \E d \in Call : call'[d].tab = t /\ call'[d].stage = "me"
  <2>1. CASE Works(c, t)
    <3>1. PICK d \in Call : call[d].tab = t /\ call[d].stage = "me"
      BY <1>3, <2>1 DEF Works, ProfileComing
    <3> QED BY <1>1, <1>3, <2>1, <3>1 DEF Works
  <2>2. CASE Takes(c, t)
    BY <1>3, <2>2 DEF Takes
  <2>3. CASE \E s \in Maybe(Session, NoSession) : Writes(c, t, s)
    BY <1>3, <2>3 DEF Writes
  <2> QED BY <2>1, <2>2, <2>3 DEF Kinds
<1> QED BY <1>2, <1>3 DEF ProfileComing

Inv == TypeInv /\ Fresh /\ ToldOfChange /\ ProfileComing

\* The invariant holds at first.
LEMMA InvInit == Init => Inv
<1> SUFFICES ASSUME Init PROVE Inv
  OBVIOUS
<1>1. PICK s \in Maybe(Session, NoSession) :
        /\ issued = {s} \ {NoSession}
        /\ stored = IF s = NoSession THEN SignedOut ELSE [session |-> s, user |-> OwnerOf[s], detailed |-> TRUE]
  BY DEF Init
<1>2. stored \in StoredRecord /\ stored.session = s
  BY <1>1, StoredTypes, AuthConstants DEF StoredRecord, Maybe
<1>3. /\ ClosedTab \in TabRecord /\ ClosedTab.open = FALSE
      /\ issued \subseteq Session
  BY <1>1 DEF ClosedTab, TabRecord, Maybe
<1>4. /\ alive \subseteq issued /\ tab = [t \in Tab |-> ClosedTab] /\ told = [t \in Tab |-> FALSE]
      /\ nav = [t \in Tab |-> NoCall] /\ call = [c \in Call |-> Idle] /\ retired = {}
  BY DEF Init
<1>5. TypeOK
  BY <1>2, <1>3, <1>4, CallTypes DEF TypeOK, Maybe, Free
<1>6. Aimed /\ OpenAreTold /\ AskedAbout
  BY <1>4, IdleFields DEF Aimed, OpenAreTold, AskedAbout
<1>7. Fresh
  BY <1>1, <1>2, <1>4, IdleFields DEF Fresh, Unused
<1>8. ToldOfChange /\ ProfileComing
  BY <1>3, <1>4 DEF ToldOfChange, ProfileComing
<1> QED BY <1>5, <1>6, <1>7, <1>8 DEF Inv, TypeInv

\* Every step keeps it.
LEMMA InvStep == Inv /\ [Next]_vars => Inv'
<1> SUFFICES ASSUME Inv, [Next]_vars PROVE Inv'
  OBVIOUS
<1>1. CASE UNCHANGED vars
  <2>1. TypeInv'
    BY <1>1 DEF Inv, vars, TypeInv, TypeOK, Aimed, OpenAreTold, AskedAbout, Free
  <2>2. Fresh' /\ ToldOfChange' /\ ProfileComing'
    BY <1>1 DEF Inv, vars, Fresh, Unused, ToldOfChange, ProfileComing
  <2> QED BY <2>1, <2>2 DEF Inv
<1>2. CASE \E c \in Call, t \in Tab : Kinds(c, t)
  BY <1>2, KindsType, FreshStep, ToldStep, ProfileStep DEF Inv
<1>3. CASE \E t \in Tab : Close(t)
  <2>1. PICK t \in Tab : Close(t)
    BY <1>3
  <2>2. TypeInv'
    BY <2>1, CloseType DEF Inv
  <2>3. /\ \A d \in Call : call'[d] = call[d] \/ (call'[d] = Idle /\ call[d].tab = t)
        /\ \A u \in Tab \ {t} : tab'[u] = tab[u] /\ told'[u] = told[u]
        /\ tab'[t].open = FALSE
        /\ stored' = stored /\ issued' = issued /\ retired' = retired
    BY <2>1, CloseFacts DEF Inv
  <2>4. Fresh'
    <3>1. \A d \in Call : Unused(d)' => Unused(d) /\ call'[d] = call[d]
      BY <2>3, IdleFields DEF Unused
    <3> QED BY <2>3, <3>1 DEF Inv, Fresh
  <2>5. ToldOfChange'
    BY <2>3 DEF Inv, ToldOfChange
  <2>6. ProfileComing'
    BY <2>3 DEF Inv, ProfileComing
  <2> QED BY <2>2, <2>4, <2>5, <2>6 DEF Inv
<1>4. CASE \E s \in Session : Expire(s)
  <2>1. /\ alive' \subseteq alive /\ stored' = stored /\ tab' = tab /\ told' = told /\ nav' = nav
        /\ call' = call /\ issued' = issued /\ retired' = retired
    BY <1>4 DEF Expire
  <2>2. TypeInv'
    BY <2>1 DEF Inv, TypeInv, TypeOK, Aimed, OpenAreTold, AskedAbout, Free
  <2>3. Fresh' /\ ToldOfChange' /\ ProfileComing'
    BY <2>1 DEF Inv, Fresh, Unused, ToldOfChange, ProfileComing
  <2> QED BY <2>2, <2>3 DEF Inv
<1> QED BY <1>1, <1>2, <1>3, <1>4, StepKinds DEF Inv

\* The invariant holds in every reachable state.
LEMMA InvAlways == Spec => []Inv
BY InvInit, InvStep, PTL DEF Spec

-----------------------------------------------------------------------------
(* The theorems *)

\* Every variable keeps its type, and a request belongs to an open tab.
THEOREM TypeCorrect == Spec => []TypeOK
<1>1. Inv => TypeOK
  BY DEF Inv, TypeInv
<1> QED BY <1>1, InvAlways, PTL

\* A tab that works with another session than the one in localStorage has a
\* storage event queued.
THEOREM TabsAreTold == Spec => []ToldOfChange
<1>1. Inv => ToldOfChange
  BY DEF Inv
<1> QED BY <1>1, InvAlways, PTL

\* A tab that has a session and shows no account is waiting for /me.
THEOREM AccountIsComing == Spec => []ProfileComing
<1>1. Inv => ProfileComing
  BY DEF Inv
<1> QED BY <1>1, InvAlways, PTL

\* What a step of a kind is to the shared session.
LEMMA KindsShared ==
  ASSUME TypeInv, Fresh, NEW c \in Call, NEW t \in Tab, Kinds(c, t)
  PROVE  [Shared!Next]_(Shared!vars)
<1> DEFINE view == [u \in Tab |-> IF tab[u].open THEN tab[u].session ELSE "closed"]
           new == [u \in Tab |-> IF tab'[u].open THEN tab'[u].session ELSE "closed"]
           used == retired \cup ({stored.session} \ {NoSession})
           used2 == retired' \cup ({stored'.session} \ {NoSession})
<1>1. tab'[t].open = TRUE /\ \A u \in Tab \ {t} : tab'[u] = tab[u]
  BY KindsType DEF Common, Touches
<1>2. new = [view EXCEPT ![t] = tab'[t].session]
  BY <1>1
<1>3. CASE Works(c, t)
  <2>1. tab[t].open /\ tab'[t].session = tab[t].session /\ stored'.session = stored.session /\ retired' = retired
    BY <1>3 DEF Works
  <2>2. new = view
    BY <1>1, <2>1
  <2> QED BY <2>1, <2>2 DEF Shared!vars
<1>4. CASE Takes(c, t)
  <2>1. tab'[t].session = stored.session /\ stored'.session = stored.session /\ retired' = retired
    BY <1>4 DEF Takes
  <2>2. CASE view[t] = stored.session
    <3>1. new = view
      BY <1>2, <2>1, <2>2
    <3> QED BY <2>1, <3>1 DEF Shared!vars
  <2>3. CASE view[t] # stored.session
    <3>1. Shared!Hear(t)
      BY <1>2, <2>1, <2>3 DEF Shared!Hear
    <3> QED BY <3>1 DEF Shared!Next
  <2> QED BY <2>2, <2>3
<1>5. ASSUME NEW s \in Maybe(Session, NoSession), Writes(c, t, s)
      PROVE  [Shared!Next]_(Shared!vars)
  <2>1. /\ tab[t].open /\ tab'[t].session = s /\ stored'.session = s
        /\ s = NoSession \/ (Unused(c) /\ s = call[c].session)
        /\ retired' = IF s = stored.session THEN retired ELSE retired \cup ({stored.session} \ {NoSession})
    BY <1>5 DEF Writes
  <2>2. view[t] # "closed"
    <3>1. tab[t].session \in Maybe(Session, NoSession)
      BY DEF TypeInv, TypeOK, TabRecord
    <3> QED BY <2>1, <3>1, AuthConstants DEF Maybe
  <2>3. s \in (Session \ used) \cup {NoSession} /\ s \in Session \cup {NoSession}
    BY <2>1 DEF Fresh, Maybe
  <2>4. used2 = used \cup ({s} \ {NoSession})
    BY <2>1
  <2>5. Shared!Write(t, s)
    BY <1>2, <2>1, <2>2, <2>3, <2>4 DEF Shared!Write
  <2> QED BY <2>3, <2>5 DEF Shared!Next
<1> QED BY <1>3, <1>4, <1>5 DEF Kinds

\* localStorage and the tabs' copies of the session implement the shared
\* session: no order of requests, answers, events and writes brings an old
\* session back or lets a tab take any but the shared one.
THEOREM TabsShareSession == Spec => ImplementsShared
<1>1. Init => Shared!Init
  <2> SUFFICES ASSUME Init PROVE Shared!Init
    OBVIOUS
  <2>1. Inv /\ retired = {} /\ tab = [t \in Tab |-> ClosedTab] /\ ClosedTab.open = FALSE
    BY InvInit DEF Init, ClosedTab
  <2>2. stored.session \in Session \cup {NoSession}
    BY <2>1 DEF Inv, TypeInv, TypeOK, StoredRecord, Maybe
  <2> QED BY <2>1, <2>2 DEF Shared!Init
<1>2. Inv /\ [Next]_vars => [Shared!Next]_(Shared!vars)
  <2> SUFFICES ASSUME Inv, [Next]_vars PROVE [Shared!Next]_(Shared!vars)
    OBVIOUS
  <2>1. CASE UNCHANGED vars
    BY <2>1 DEF vars, Shared!vars
  <2>2. CASE \E c \in Call, t \in Tab : Kinds(c, t)
    BY <2>2, KindsShared DEF Inv
  <2>3. CASE \E t \in Tab : Close(t)
    <3>1. PICK t \in Tab : Close(t)
      BY <2>3
    <3>2. /\ \A u \in Tab \ {t} : tab'[u] = tab[u]
          /\ tab'[t].open = FALSE /\ stored' = stored /\ retired' = retired
      BY <3>1, CloseFacts DEF Inv
    <3>3. Shared!Close(t)
      BY <3>2 DEF Shared!Close
    <3> QED BY <3>3 DEF Shared!Next
  <2>4. CASE \E s \in Session : Expire(s)
    BY <2>4 DEF Expire, Shared!vars
  <2> QED BY <2>1, <2>2, <2>3, <2>4, StepKinds DEF Inv
<1> QED BY <1>1, <1>2, InvAlways, PTL DEF Spec, ImplementsShared, Shared!SafeSpec
=============================================================================
