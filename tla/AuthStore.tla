------------------------------ MODULE AuthStore ------------------------------
(***************************************************************************)
(* The account store of the web portal (stores/auth.ts), with the forms    *)
(* and the navigation guard that call it, for the tabs of one browser.     *)
(*                                                                         *)
(* The tabs share localStorage (`stored`).  A write that changes it fires  *)
(* a storage event in every other open tab (`told`).  Every request is     *)
(* awaited: `call` holds a request from the moment it leaves until the     *)
(* tab acts on its answer, so answers come in any order, late, or never    *)
(* from a backend that has changed meanwhile.                              *)
(***************************************************************************)
EXTENDS Naturals, FiniteSets

CONSTANTS
  Tab, Call,             \* tabs; the requests that may be in flight at once
  Session, NoSession,    \* session ids; '' when there is none
  User, NoUser, Admin,   \* accounts; those with is_admin
  Guest,                 \* the accounts a guest login of this browser yields
  OwnerOf,               \* the account a session id belongs to
  Page, NoPage,          \* the routes, of those in AllPages
  NoTab, NoCall

AllPages == {"login", "register", "device", "game", "matches", "settings", "admin"}
GuestPages == {"login", "register"}
AuthPages == {"device", "matches", "settings", "admin"}

ASSUME AuthConstants ==
  /\ NoSession \notin Session /\ NoUser \notin User
  /\ NoTab \notin Tab /\ NoCall \notin Call
  /\ OwnerOf \in [Session -> User]
  /\ Admin \subseteq User /\ Guest \subseteq User
  /\ Page \subseteq AllPages /\ {"login", "game"} \subseteq Page
  /\ NoPage \notin AllPages /\ NoPage # "blank"
  /\ "closed" \notin Session \cup {NoSession}

SignInOps == {"login", "guest", "register"}
Ops == SignInOps \cup {"logout", "fetch", "guard"}

VARIABLES
  stored,    \* localStorage: session id, identity, whether /me's details are there
  tab,       \* a tab's store and page; form: the requests its form waits for
  told,      \* tab -> a storage event is queued
  nav,       \* tab -> the request its newest navigation waits for
  call,      \* request -> what it is and whether it has been answered
  issued,    \* sessions the backend has given out
  alive,     \* those that are neither revoked nor expired
  retired    \* those that were in localStorage and left it

vars == <<stored, tab, told, nav, call, issued, alive, retired>>

Maybe(S, none) == S \cup {none}

StoredRecord == [session : Maybe(Session, NoSession), user : Maybe(User, NoUser), detailed : BOOLEAN]
TabRecord == [open : BOOLEAN, session : Maybe(Session, NoSession), user : Maybe(User, NoUser),
              page : Maybe(Page, "blank"), redirect : Maybe(Page, NoPage), form : SUBSET Call]
CallRecord == [st : {"idle", "sent", "ok", "failed"}, stage : {"none", "api", "me"},
               op : Maybe(Ops, "none"), tab : Maybe(Tab, NoTab),
               session : Maybe(Session, NoSession), to : Maybe(Page, NoPage)]

Idle == [st |-> "idle", stage |-> "none", op |-> "none", tab |-> NoTab,
         session |-> NoSession, to |-> NoPage]

SignedOut == [session |-> NoSession, user |-> NoUser, detailed |-> FALSE]
ClosedTab == [open |-> FALSE, session |-> NoSession, user |-> NoUser,
              page |-> "blank", redirect |-> NoPage, form |-> {}]

-----------------------------------------------------------------------------
(* localStorage, seen from a tab *)

\* The browser tells the other tabs of a change, and none of a write that
\* leaves every key as it was; every key of the account is listened to.
ChangesToSignedIn(new) == new # stored /\ new.session # NoSession
Changes(new) == new # stored

\* Tab t writes; `heard` is told as the handler found it.
Store(t, new, heard) ==
  /\ stored' = new
  /\ told' = [u \in Tab |-> heard[u] \/ (u # t /\ tab[u].open /\ Changes(new))]
  /\ retired' = IF new.session = stored.session THEN retired
                ELSE retired \cup ({stored.session} \ {NoSession})

Untouched == UNCHANGED <<stored, told, retired>>

\* The session a tab starts with, as the page script reads it.
RestoredOrNull == IF stored.session = NoSession THEN NoUser ELSE stored.session
Restored == stored.session

\* clearAuthState, in the tab's own record.
Cleared(x) == [x EXCEPT !.session = NoSession, !.user = NoUser]

MeCall(t, op, s, to) ==
  [st |-> "sent", stage |-> "me", op |-> op, tab |-> t, session |-> s, to |-> to]

-----------------------------------------------------------------------------
(* Navigation: the router's guard before each route *)

NeedsUser(x) == x.session # NoSession /\ x.user = NoUser

\* Where the guard sends a tab that wants to go to a page.
Admitted(x, to) ==
  CASE to \in AuthPages /\ x.session = NoSession -> "login"
    [] to = "admin" /\ x.user \notin Admin -> "game"
    [] to \in GuestPages /\ x.session # NoSession -> "game"
    [] OTHER -> to

\* The guard awaits fetchUser; this navigation is now the tab's newest.
Await(c, t, x, to) ==
  /\ tab' = [tab EXCEPT ![t] = x]
  /\ call' = [call EXCEPT ![c] = MeCall(t, "guard", x.session, to)]
  /\ nav' = [nav EXCEPT ![t] = c]

\* The page is shown; the form of the page left behind is gone with it.
Land(c, t, x, p, from) ==
  /\ tab' = [tab EXCEPT ![t] = [x EXCEPT !.page = p, !.redirect = from,
                                         !.form = IF p = x.page THEN @ ELSE {}]]
  /\ call' = [call EXCEPT ![c] = Idle]
  /\ nav' = [nav EXCEPT ![t] = NoCall]

\* A redirect of the guard to /login remembers where the tab wanted to go.
Pass(c, t, x, to) ==
  LET p == Admitted(x, to) IN
  Land(c, t, x, p, IF p = "login" /\ to # "login" THEN to ELSE NoPage)

SameRoute(x, to) == to = x.page /\ x.redirect = NoPage

\* router.push
Go(c, t, x, to) ==
  \/ SameRoute(x, to) /\ Land(c, t, x, to, NoPage)
  \/ ~SameRoute(x, to) /\ NeedsUser(x) /\ Await(c, t, x, to)
  \/ ~SameRoute(x, to) /\ ~NeedsUser(x) /\ Pass(c, t, x, to)

Rest(c, t, x) ==
  /\ tab' = [tab EXCEPT ![t] = x]
  /\ call' = [call EXCEPT ![c] = Idle]
  /\ UNCHANGED nav

\* The guard after its await: superseded by a newer navigation, redirected
\* (which runs the guard again), or done.
Resume(c, t, x, to) ==
  \/ nav[t] # c /\ Rest(c, t, x)
  \/ nav[t] = c /\ Admitted(x, to) # to /\ NeedsUser(x) /\ Await(c, t, x, Admitted(x, to))
  \/ nav[t] = c /\ (Admitted(x, to) = to \/ ~NeedsUser(x)) /\ Pass(c, t, x, to)

-----------------------------------------------------------------------------
(* What the user does in a tab *)

Free(c) == call[c] = Idle

Open(t, c, p) ==
  /\ ~tab[t].open /\ Free(c)
  /\ Go(c, t, [ClosedTab EXCEPT !.open = TRUE, !.session = Restored], p)
  /\ UNCHANGED <<stored, told, issued, alive, retired>>

\* The tab is closed or reloaded: nothing in it acts on an answer any more.
Close(t) ==
  /\ tab[t].open
  /\ tab' = [tab EXCEPT ![t] = ClosedTab]
  /\ told' = [told EXCEPT ![t] = FALSE]
  /\ nav' = [nav EXCEPT ![t] = NoCall]
  /\ call' = [c \in Call |-> IF call[c].tab = t THEN Idle ELSE call[c]]
  /\ UNCHANGED <<stored, issued, alive, retired>>

\* A link or the address bar.
Navigate(t, c, p) ==
  /\ tab[t].open /\ Free(c)
  /\ Go(c, t, tab[t], p)
  /\ Untouched /\ UNCHANGED <<issued, alive>>

\* A form's button shows that it is busy until its handler is through; each
\* of the two buttons of the login page has a flag of its own.
Busy(t, op) == \E c \in tab[t].form : call[c].op = op

\* handleLogin, handleGuestLogin, handleRegister, up to the request.
SubmitSignIn(t, c, op) ==
  /\ tab[t].open /\ Free(c)
  /\ tab[t].page = (IF op = "register" THEN "register" ELSE "login")
  /\ ~Busy(t, op)
  /\ tab' = [tab EXCEPT ![t].form = @ \cup {c}]
  /\ call' = [call EXCEPT ![c] = [st |-> "sent", stage |-> "api", op |-> op, tab |-> t,
                                  session |-> NoSession, to |-> NoPage]]
  /\ Untouched /\ UNCHANGED <<nav, issued, alive>>

\* handleLogout of the menu every page but the account cards shows.
SubmitLogout(t, c) ==
  /\ tab[t].open /\ Free(c)
  /\ tab[t].page \in Page \ {"login", "register", "device"}
  /\ tab[t].session # NoSession
  /\ call' = [call EXCEPT ![c] = [st |-> "sent", stage |-> "api", op |-> "logout", tab |-> t,
                                  session |-> tab[t].session, to |-> NoPage]]
  /\ Untouched /\ UNCHANGED <<tab, nav, issued, alive>>

-----------------------------------------------------------------------------
(* The shared storage changed, or the tab comes to the front *)

SyncIgnoringSignOut(t, c, heard) ==
  /\ tab' = IF stored.session = NoSession THEN tab ELSE [tab EXCEPT ![t].session = stored.session]
  /\ call' = IF stored.session = NoSession THEN call
             ELSE [call EXCEPT ![c] = MeCall(t, "fetch", stored.session, NoPage)]
  /\ Store(t, stored, heard)

SyncWithoutFetch(t, c, heard) ==
  /\ tab' = [tab EXCEPT ![t] = IF stored.session = NoSession THEN Cleared(@)
                               ELSE [@ EXCEPT !.session = stored.session]]
  /\ call' = call
  /\ Store(t, stored, heard)

\* syncFromSharedStorage
Sync(t, c, heard) ==
  \/ /\ stored.session = NoSession
     /\ tab' = [tab EXCEPT ![t] = Cleared(@)]
     /\ Store(t, SignedOut, heard)
     /\ UNCHANGED call
  \/ /\ stored.session # NoSession
     /\ tab' = [tab EXCEPT ![t].session = stored.session]
     /\ call' = [call EXCEPT ![c] = MeCall(t, "fetch", stored.session, NoPage)]
     /\ Store(t, stored, heard)

StorageEvent(t, c) ==
  /\ told[t] /\ Free(c)
  /\ Sync(t, c, [told EXCEPT ![t] = FALSE])
  /\ UNCHANGED <<nav, issued, alive>>

Focus(t, c) ==
  /\ tab[t].open /\ Free(c)
  /\ Sync(t, c, told)
  /\ UNCHANGED <<nav, issued, alive>>

-----------------------------------------------------------------------------
(* The backend answers a request, or the request or its answer is lost *)

ServeSignIn(c, s) ==
  /\ call[c].st = "sent" /\ call[c].stage = "api" /\ call[c].op \in SignInOps
  /\ s \in Session \ issued
  /\ (OwnerOf[s] \in Guest) <=> (call[c].op = "guest")
  /\ issued' = issued \cup {s}
  /\ alive' = alive \cup {s}
  /\ call' = [call EXCEPT ![c].st = "ok", ![c].session = s]
  /\ UNCHANGED <<stored, tab, told, nav, retired>>

ServeLogout(c) ==
  /\ call[c].st = "sent" /\ call[c].stage = "api" /\ call[c].op = "logout"
  /\ alive' = alive \ {call[c].session}
  /\ call' = [call EXCEPT ![c].st = "ok"]
  /\ UNCHANGED <<stored, tab, told, nav, issued, retired>>

ServeMe(c) ==
  /\ call[c].st = "sent" /\ call[c].stage = "me"
  /\ call' = [call EXCEPT ![c].st = IF call[c].session \in alive THEN "ok" ELSE "failed"]
  /\ UNCHANGED <<stored, tab, told, nav, issued, alive, retired>>

\* Wrong credentials, or no answer.
Fail(c) ==
  /\ call[c].st = "sent"
  /\ call' = [call EXCEPT ![c].st = "failed"]
  /\ UNCHANGED <<stored, tab, told, nav, issued, alive, retired>>

\* The session times out, or an administrator disables the account.
Expire(s) ==
  /\ s \in alive
  /\ alive' = alive \ {s}
  /\ UNCHANGED <<stored, tab, told, nav, call, issued, retired>>

-----------------------------------------------------------------------------
(* A tab acts on an answer *)

\* applyAuthPayload: the identity, and blank details; then fetchUser.
ReceiveSignIn(c) ==
  LET t == call[c].tab
      s == call[c].session IN
  /\ call[c].stage = "api" /\ call[c].op \in SignInOps /\ call[c].st = "ok"
  /\ tab' = [tab EXCEPT ![t].session = s]
  /\ Store(t, [session |-> s, user |-> OwnerOf[s], detailed |-> FALSE], told)
  /\ call' = [call EXCEPT ![c] = MeCall(t, call[c].op, s, NoPage)]
  /\ UNCHANGED <<nav, issued, alive>>

ReceiveRefusal(c) ==
  LET t == call[c].tab IN
  /\ call[c].stage = "api" /\ call[c].op \in SignInOps /\ call[c].st = "failed"
  /\ tab' = [tab EXCEPT ![t].form = @ \ {c}]
  /\ call' = [call EXCEPT ![c] = Idle]
  /\ Untouched /\ UNCHANGED <<nav, issued, alive>>

\* What the caller of fetchUser does next.
Continue(c, t, x) ==
  \/ call[c].op = "fetch" /\ Rest(c, t, x)
  \/ call[c].op = "guard" /\ Resume(c, t, x, call[c].to)
  \/ /\ call[c].op \in SignInOps
     /\ Go(c, t, [x EXCEPT !.form = @ \ {c}],
           IF x.redirect # NoPage THEN x.redirect ELSE "game")

StoredProfileOnly(s) == [session |-> s, user |-> OwnerOf[s], detailed |-> TRUE]
StoredProfile(s) == [stored EXCEPT !.user = OwnerOf[s], !.detailed = TRUE]

\* fetchUser with an answer: the account is shown and stored, whatever the
\* tab's session has become meanwhile.
ReceiveMe(c) ==
  LET t == call[c].tab
      u == OwnerOf[call[c].session] IN
  /\ call[c].stage = "me" /\ call[c].st = "ok"
  /\ Continue(c, t, [tab[t] EXCEPT !.user = u])
  /\ Store(t, StoredProfile(call[c].session), told)
  /\ UNCHANGED <<issued, alive>>

\* fetchUser without one: the tab signs out, for every tab.
ReceiveMeFailure(c) ==
  LET t == call[c].tab IN
  /\ call[c].stage = "me" /\ call[c].st = "failed"
  /\ Continue(c, t, Cleared(tab[t]))
  /\ Store(t, SignedOut, told)
  /\ UNCHANGED <<issued, alive>>

\* logout after its request, whatever came of it.
ReceiveLogout(c) ==
  LET t == call[c].tab IN
  /\ call[c].stage = "api" /\ call[c].op = "logout" /\ call[c].st \in {"ok", "failed"}
  /\ Go(c, t, Cleared(tab[t]), "login")
  /\ Store(t, SignedOut, told)
  /\ UNCHANGED <<issued, alive>>

-----------------------------------------------------------------------------
Init ==
  /\ \E s \in Maybe(Session, NoSession) :
       /\ issued = {s} \ {NoSession}
       /\ stored = IF s = NoSession THEN SignedOut
                   ELSE [session |-> s, user |-> OwnerOf[s], detailed |-> TRUE]
  /\ alive \in SUBSET issued
  /\ tab = [t \in Tab |-> ClosedTab]
  /\ told = [t \in Tab |-> FALSE]
  /\ nav = [t \in Tab |-> NoCall]
  /\ call = [c \in Call |-> Idle]
  /\ retired = {}

UserStep(t, c) ==
  \/ \E p \in Page : Open(t, c, p) \/ Navigate(t, c, p)
  \/ \E op \in SignInOps : SubmitSignIn(t, c, op)
  \/ SubmitLogout(t, c)
  \/ Focus(t, c)

Serve(c) ==
  \/ \E s \in Session : ServeSignIn(c, s)
  \/ ServeLogout(c)
  \/ ServeMe(c)
  \/ Fail(c)

Receive(c) ==
  \/ ReceiveSignIn(c) \/ ReceiveRefusal(c)
  \/ ReceiveMe(c) \/ ReceiveMeFailure(c)
  \/ ReceiveLogout(c)

Next ==
  \/ \E t \in Tab : Close(t)
  \/ \E t \in Tab, c \in Call : UserStep(t, c) \/ StorageEvent(t, c)
  \/ \E c \in Call : Serve(c) \/ Receive(c)
  \/ \E s \in Session : Expire(s)

Spec == Init /\ [][Next]_vars

\* Requests are answered or time out, answers are acted on, and the browser
\* delivers its events; nobody is obliged to click.  Strong fairness for the
\* events: the bound on requests in flight may hold one back for a while.
FairSpec ==
  /\ Spec
  /\ \A c \in Call : WF_vars(Serve(c)) /\ WF_vars(Receive(c))
  /\ \A t \in Tab : SF_vars(\E c \in Call : StorageEvent(t, c))

-----------------------------------------------------------------------------
(* Properties *)

\* Every variable keeps its type, and a request belongs to an open tab.
TypeOK ==
  /\ stored \in StoredRecord
  /\ tab \in [Tab -> TabRecord]
  /\ told \in [Tab -> BOOLEAN]
  /\ nav \in [Tab -> Maybe(Call, NoCall)]
  /\ call \in [Call -> CallRecord]
  /\ alive \subseteq issued /\ issued \subseteq Session /\ retired \subseteq Session
  /\ \A c \in Call : Free(c) \/ (call[c].tab \in Tab /\ tab[call[c].tab].open)

\* A tab that works with another session than the one in localStorage has a
\* storage event queued that will make it sync: no order of writes, events
\* and late answers leaves a tab behind without its knowing (stores/auth.ts,
\* installBrowserSync).
ToldOfChange ==
  \A t \in Tab : tab[t].open /\ tab[t].session # stored.session => told[t]

\* A tab that has a session and shows no account is waiting for /me: no
\* handler adopts a session and leaves the menu without its account
\* (stores/auth.ts, fetchUser and its callers).
ProfileComing ==
  \A t \in Tab : tab[t].open /\ NeedsUser(tab[t]) =>
    \E c \in Call : call[c].tab = t /\ call[c].stage = "me"

\* A session that was signed out or replaced leaves every tab in the end
\* (docs/online/account_surface_consistency_audit.md, section 3).
SignOutReachesEveryTab ==
  \A s \in Session : s \in retired ~> \A t \in Tab : tab[t].session # s

\* The tabs together behave as one shared session.
Shared == INSTANCE SharedSession WITH
  Closed <- "closed",
  current <- stored.session,
  used <- retired \cup ({stored.session} \ {NoSession}),
  view <- [t \in Tab |-> IF tab[t].open THEN tab[t].session ELSE "closed"]

\* localStorage and the tabs' copies of the session implement the shared
\* session: no tab resurrects an old session, each follows the shared one.
ImplementsShared == Shared!SafeSpec

\* And a tab that is behind catches up.
FollowsShared == Shared!Fairness
=============================================================================
