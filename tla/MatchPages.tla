----------------------------- MODULE MatchPages -----------------------------
(***************************************************************************)
(* The pages of finished matches: the list (views/MatchesView.vue) and the *)
(* details of one match (views/MatchDetailView.vue), in one tab.           *)
(*                                                                         *)
(* The account store belongs to AuthStore; here it is an environment that  *)
(* may lose or replace the session at any moment, above all while a page   *)
(* waits for an answer.  A page's handler outlives the page: a request in  *)
(* flight (`ask`) remembers whether its page is still there.               *)
(***************************************************************************)
EXTENDS Naturals, Sequences, FiniteSets, SequencesExt

CONSTANTS
  Session, NoSession,
  Match, NoMatch,
  Ask,          \* bound: handlers waiting at once
  Snapshots,    \* match -> its map snapshots, oldest first
  NoSnapshot,
  Replayed,     \* the matches with a replay
  PartIn        \* session -> the matches its account took part in

SnapshotIds == UNION {ToSet(Snapshots[m]) : m \in Match}

ASSUME PagesConstants ==
  /\ NoSession \notin Session /\ NoMatch \notin Match
  /\ Snapshots \in [Match -> Seq(SnapshotIds)]
  /\ NoSnapshot \notin SnapshotIds
  /\ Replayed \subseteq Match /\ PartIn \in [Session -> SUBSET Match]

VARIABLES
  auth,     \* the account store: session, and whether the account is known
  route,    \* the address: [at, match], and where a login returns to
  entering, \* the guard has let the tab in, the page's script is being loaded
  page,     \* the page that is mounted, with its component's state
  ask       \* the handlers that wait for an answer

pageVars == <<auth, route, entering, page, ask>>

Ways == {"game", "login", "list", "detail"}
Place == [at : Ways, match : Match \cup {NoMatch}]
To(at, m) == [at |-> at, match |-> m]
Game == To("game", NoMatch)
Login == To("login", NoMatch)
Pages == {To("list", NoMatch)} \cup {To("detail", m) : m \in Match}

\* A component's state when it is set up; `matches` are the rows of the list,
\* or the match of the details.
Fresh(place) == [place |-> place, matches |-> {}, loading |-> FALSE, error |-> FALSE,
                 selected |-> NoSnapshot, replay |-> FALSE]

NoAsk == [st |-> "idle", op |-> "none", place |-> Game, session |-> NoSession, mounted |-> FALSE]
AskRecord == [st : {"idle", "sent", "ok", "failed"}, op : {"none", "me", "resume", "get", "replay"},
              place : Place, session : Session \cup {NoSession}, mounted : BOOLEAN]

IsLoggedIn == auth.session # NoSession
AskFree(a) == ask[a] = NoAsk

-----------------------------------------------------------------------------
(* Navigation, with what the router's guard does to it *)

\* The component is gone; its handlers go on without it.
Left == [a \in Ask |-> [ask[a] EXCEPT !.mounted = FALSE]]

\* A page of matches asks for a session; /login and /game are entered at once.
Goto(to, asks) ==
  IF to \in Pages /\ IsLoggedIn
  THEN /\ route' = [route EXCEPT !.place = to]
       /\ IF page.place.at = to.at   \* the router reuses the component
          THEN UNCHANGED <<entering, page>> /\ ask' = asks
          ELSE /\ entering' = to
               /\ page' = Fresh(Game)
               /\ ask' = [a \in Ask |-> [asks[a] EXCEPT !.mounted = FALSE]]
  ELSE LET shown == IF to \in Pages THEN Login ELSE to IN
       /\ route' = [place |-> shown, back |-> IF to \in Pages THEN to ELSE Game]
       /\ entering' = Game
       /\ page' = Fresh(shown)
       /\ ask' = [a \in Ask |-> [asks[a] EXCEPT !.mounted = FALSE]]

\* A link, a row of the list, or the history of the tab.
Navigate(to) ==
  /\ to # route.place
  /\ auth.known \/ ~IsLoggedIn
  /\ Goto(to, ask)
  /\ UNCHANGED auth

\* router.replace to the login with the page's own address, from a handler.
\* The guard sends a tab that has a session by now on to the game.
ToLogin(place, asks) ==
  LET shown == IF IsLoggedIn THEN Game ELSE Login IN
  /\ route' = [place |-> shown, back |-> IF IsLoggedIn THEN Game ELSE place]
  /\ entering' = Game
  /\ page' = Fresh(shown)
  /\ ask' = [a \in Ask |-> [asks[a] EXCEPT !.mounted = FALSE]]

-----------------------------------------------------------------------------
(* onMounted of both pages *)

Sent(op, place, session, mounted) ==
  [st |-> "sent", op |-> op, place |-> place, session |-> session, mounted |-> mounted]

\* The list or the match is asked for, with the session of this moment.
Load(a, place, mounted, shown) ==
  /\ IsLoggedIn
  /\ page' = IF mounted THEN [shown EXCEPT !.loading = TRUE, !.error = FALSE] ELSE shown
  /\ ask' = [ask EXCEPT ![a] = Sent("get", place, auth.session, mounted)]
  /\ UNCHANGED <<auth, route>>

\* The store may have changed since the guard looked at it.
Mount(a) ==
  /\ entering # Game /\ AskFree(a)
  /\ \/ ~IsLoggedIn /\ ToLogin(entering, ask) /\ UNCHANGED auth
     \/ /\ IsLoggedIn /\ ~auth.known
        /\ page' = Fresh(entering)
        /\ ask' = [ask EXCEPT ![a] = Sent("me", entering, auth.session, TRUE)]
        /\ entering' = Game
        /\ UNCHANGED <<auth, route>>
     \/ /\ auth.known /\ Load(a, entering, TRUE, Fresh(entering))
        /\ entering' = Game

\* fetchUser came back: the account is known, or the session is gone.
\* (The store is updated whatever its session is by now: AuthStore.)
Fetched(a) ==
  /\ ask[a].op = "me" /\ ask[a].st \in {"ok", "failed"}
  /\ auth' = IF ask[a].st = "ok" THEN [auth EXCEPT !.known = TRUE]
             ELSE [session |-> NoSession, known |-> FALSE]
  /\ ask' = [ask EXCEPT ![a].st = "sent", ![a].op = "resume"]
  /\ UNCHANGED <<route, entering, page>>

\* What follows the await, in the same turn or a few microtasks later.
Resume(a) ==
  /\ ask[a].op = "resume"
  /\ \/ /\ ~IsLoggedIn
        /\ ToLogin(ask[a].place, [ask EXCEPT ![a] = NoAsk])
        /\ UNCHANGED auth
     \/ Load(a, ask[a].place, ask[a].mounted, page) /\ UNCHANGED entering

SnapshotNamedAfterMatch(m) == IF Snapshots[m] = <<>> THEN NoSnapshot ELSE m
LastSnapshot(m) == IF Snapshots[m] = <<>> THEN NoSnapshot ELSE Last(Snapshots[m])

FailedSilently(shown, m) ==
  [shown EXCEPT !.loading = FALSE, !.matches = {}, !.selected = NoSnapshot]
FailedWhileLoading(shown, m) ==
  [shown EXCEPT !.matches = {}, !.selected = NoSnapshot, !.error = (m # NoMatch)]

\* Without an answer the list is empty, and the details give a reason.
Failed(shown, m) ==
  [shown EXCEPT !.loading = FALSE, !.matches = {}, !.selected = NoSnapshot, !.error = (m # NoMatch)]

\* The answer is shown, by the component that asked for it.
Loaded(a) ==
  LET m == ask[a].place.match
      mine == PartIn[ask[a].session] IN
  /\ ask[a].op = "get" /\ ask[a].st \in {"ok", "failed"}
  /\ page' = IF ~ask[a].mounted THEN page
             ELSE IF ask[a].st = "failed" THEN Failed(page, m)
             ELSE IF m = NoMatch THEN [page EXCEPT !.loading = FALSE, !.matches = mine]
             ELSE [page EXCEPT !.loading = FALSE, !.matches = {m}, !.selected = LastSnapshot(m)]
  /\ ask' = [ask EXCEPT ![a] = NoAsk]
  /\ UNCHANGED <<auth, route, entering>>

-----------------------------------------------------------------------------
(* The details of a match: replay, snapshots, downloads *)

Mounted(at) == page.place.at = at /\ entering = Game

LoadReplay(a) ==
  /\ Mounted("detail") /\ ~page.loading /\ AskFree(a)
  /\ page.matches \cap Replayed # {} /\ ~page.replay
  /\ \/ ~IsLoggedIn /\ ToLogin(page.place, ask)
     \/ /\ IsLoggedIn
        /\ ask' = [ask EXCEPT ![a] = Sent("replay", page.place, auth.session, TRUE)]
        /\ UNCHANGED <<route, entering, page>>
  /\ UNCHANGED auth

ReplayLoaded(a) ==
  /\ ask[a].op = "replay" /\ ask[a].st \in {"ok", "failed"}
  /\ page' = IF ask[a].mounted THEN [page EXCEPT !.replay = (ask[a].st = "ok")] ELSE page
  /\ ask' = [ask EXCEPT ![a] = NoAsk]
  /\ UNCHANGED <<auth, route, entering>>

SelectSnapshot(s) ==
  /\ Mounted("detail")
  /\ \E m \in page.matches : s \in ToSet(Snapshots[m])
  /\ page' = [page EXCEPT !.selected = s]
  /\ UNCHANGED <<auth, route, entering, ask>>

-----------------------------------------------------------------------------
(* The environment: the backend, and the account store *)

\* /me and the pages' requests; a match is only given to its participants.
Answer(a) ==
  /\ ask[a].st = "sent" /\ ask[a].op # "resume"
  /\ \E st \in {"ok", "failed"} :
       /\ st = "ok" /\ ask[a].place.match # NoMatch /\ ask[a].op # "me" =>
            /\ ask[a].place.match \in PartIn[ask[a].session]
            /\ ask[a].op = "replay" => ask[a].place.match \in Replayed
       /\ ask' = [ask EXCEPT ![a].st = st]
  /\ UNCHANGED <<auth, route, entering, page>>

\* Another tab signs out or in (syncFromSharedStorage: the session is taken
\* over at once, the account is fetched later), or this one does.
AuthChanges ==
  /\ \/ auth' = [session |-> NoSession, known |-> FALSE]
     \/ \E s \in Session : s # auth.session /\ auth' = [auth EXCEPT !.session = s]
     \/ IsLoggedIn /\ ~auth.known /\ auth' = [auth EXCEPT !.known = TRUE]
  /\ auth' # auth
  /\ UNCHANGED <<route, entering, page, ask>>

-----------------------------------------------------------------------------
PagesInit ==
  /\ auth \in [session : Session \cup {NoSession}, known : {FALSE}]
  /\ route = [place |-> Game, back |-> Game]
  /\ entering = Game
  /\ page = Fresh(Game)
  /\ ask = [a \in Ask |-> NoAsk]

Handle(a) == Mount(a) \/ Fetched(a) \/ Resume(a) \/ Loaded(a) \/ ReplayLoaded(a)

PagesNext ==
  \/ \E to \in Pages \cup {Game} : Navigate(to)
  \/ \E a \in Ask : Handle(a) \/ Answer(a) \/ LoadReplay(a)
  \/ \E s \in SnapshotIds : SelectSnapshot(s)
  \/ AuthChanges

\* Requests are answered or time out and handlers run.
PagesFairness == \A a \in Ask : WF_pageVars(Handle(a)) /\ WF_pageVars(Answer(a))

-----------------------------------------------------------------------------
(* Properties *)

\* Every variable keeps its type; a chosen snapshot is one of the match's.
PagesTypeOK ==
  /\ auth \in [session : Session \cup {NoSession}, known : BOOLEAN]
  /\ route \in [place : Place, back : Place]
  /\ entering \in Pages \cup {Game}
  /\ page.place \in Place /\ page.matches \subseteq Match
  /\ page.loading \in BOOLEAN /\ page.error \in BOOLEAN /\ page.replay \in BOOLEAN
  /\ page.selected \in SnapshotIds \cup {NoSnapshot}
  /\ ask \in [Ask -> AskRecord]

\* The details show a match, or say why not, or a handler that will decide is
\* at work: no order of answers, sign-outs and visits leaves a blank page
\* (MatchDetailView.vue, onMounted).
MatchOrReason ==
  Mounted("detail") /\ page.matches = {} /\ ~page.error =>
    \E a \in Ask : ask[a].mounted /\ ask[a].op \in {"me", "resume", "get"}

\* A page that shows it is loading stops doing so (both onMounted).
LoadingEnds == page.loading ~> ~page.loading
=============================================================================
