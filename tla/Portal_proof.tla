---------------------------- MODULE Portal_proof ----------------------------
(***************************************************************************)
(* Proofs about the pages of matches and the forms of an account, for any  *)
(* number of matches, sessions, names, addresses and handlers at once.     *)
(*                                                                         *)
(* PagesInv ties a handler to the page it was started on: as long as it is *)
(* mounted, that page is the one shown.  FormsInv ties it to its form: a   *)
(* form that waits has one handler, and one that does not has none.  Of    *)
(* the report of a match: what the tables of match-stats.ts look up, for   *)
(* any score and any players.                                              *)
(***************************************************************************)
EXTENDS MCPortal, TLAPS

-----------------------------------------------------------------------------
(* The pages of matches *)

PagesSpec == PagesInit /\ [][PagesNext]_pageVars

PageRecord == [place : Pages \cup {Game, Login}, matches : SUBSET Match, loading : BOOLEAN,
               error : BOOLEAN, selected : SnapshotIds \cup {NoSnapshot}, replay : BOOLEAN]
AuthRecord == [session : Session \cup {NoSession}, known : BOOLEAN]
RouteRecord == [place : Pages \cup {Game, Login}, back : Pages \cup {Game, Login}]

\* A handler that is at work is on behalf of a page of matches, and one that
\* has asked for a match or a replay has asked with a session.
Busy(r) ==
  /\ r.op # "none" => r.place \in Pages
  /\ r.op \in {"get", "replay"} => r.session \in Session
  /\ r.op = "none" => ~r.mounted

AskShape == ask \in [Ask -> AskRecord] /\ \A a \in Ask : Busy(ask[a])

PagesShape ==
  /\ auth \in AuthRecord
  /\ route \in RouteRecord
  /\ entering \in Pages \cup {Game}
  /\ page \in PageRecord
  /\ AskShape

\* While the script of a page is loaded none is shown, and a handler that is
\* mounted belongs to the page that is.
HandlersAtHome ==
  /\ entering # Game => page.place = Game
  /\ \A a \in Ask : ask[a].mounted => page.place = ask[a].place

PagesInv == PagesShape /\ HandlersAtHome /\ MatchOrReason

\* The places of a tab are places, and those of matches are no others.
LEMMA PlaceFacts ==
  /\ Pages \subseteq Place /\ Game \in Place /\ Login \in Place
  /\ Game \notin Pages /\ Login \notin Pages /\ Game # Login
  /\ \A p \in Pages : p.at \in {"list", "detail"}
  /\ \A p \in Pages : p.at = "detail" => p.match \in Match /\ p.match # NoMatch
  /\ \A p \in Pages : p.match # NoMatch => p.match \in Match
  /\ Game.at = "game" /\ Login.at = "login"
<1>1. NoMatch \notin Match
  BY PagesConstants
<1>2. \A p \in Pages : \/ p = [at |-> "list", match |-> NoMatch]
                       \/ \E m \in Match : p = [at |-> "detail", match |-> m]
  BY DEF Pages, To
<1>3. Game = [at |-> "game", match |-> NoMatch] /\ Login = [at |-> "login", match |-> NoMatch]
  BY DEF Game, Login, To
<1>4. Pages \subseteq Place /\ Game \in Place /\ Login \in Place
  BY <1>2, <1>3 DEF Place, Ways
<1>5. /\ \A p \in Pages : p.at \in {"list", "detail"}
      /\ \A p \in Pages : p.at = "detail" => p.match \in Match /\ p.match # NoMatch
      /\ \A p \in Pages : p.match # NoMatch => p.match \in Match
  BY <1>1, <1>2
<1> QED BY <1>3, <1>4, <1>5

\* A snapshot that is chosen when a match is shown is one of the match's.
LEMMA LastSnapshotType ==
  ASSUME NEW m \in Match
  PROVE  LastSnapshot(m) \in SnapshotIds \cup {NoSnapshot}
<1>1. CASE Snapshots[m] = <<>>
  BY <1>1 DEF LastSnapshot
<1>2. CASE Snapshots[m] # <<>>
  <2>1. Snapshots[m] \in Seq(SnapshotIds)
    BY PagesConstants
  <2>2. Len(Snapshots[m]) \in 1 .. Len(Snapshots[m])
    BY <1>2, <2>1
  <2> QED BY <1>2, <2>1, <2>2 DEF LastSnapshot, Last
<1> QED BY <1>1, <1>2

\* A page that is set up is a page, with nothing on it.
LEMMA FreshType ==
  ASSUME NEW p \in Pages \cup {Game, Login}
  PROVE  /\ Fresh(p) \in PageRecord /\ Fresh(p).place = p /\ Fresh(p).matches = {}
BY DEF Fresh, PageRecord

\* The handlers go on without their page.
LEMMA UnmountedType ==
  ASSUME NEW asks \in [Ask -> AskRecord], \A a \in Ask : Busy(asks[a])
  PROVE  LET left == [a \in Ask |-> [asks[a] EXCEPT !.mounted = FALSE]]
         IN /\ left \in [Ask -> AskRecord]
            /\ \A a \in Ask : Busy(left[a]) /\ ~left[a].mounted
BY DEF AskRecord, Busy

\* A handler that sends a request.
LEMMA SentType ==
  ASSUME NEW op \in {"me", "get", "replay"}, NEW p \in Pages, NEW s \in Session \cup {NoSession},
         NEW mounted \in BOOLEAN, op # "me" => s \in Session
  PROVE  /\ Sent(op, p, s, mounted) \in AskRecord /\ Busy(Sent(op, p, s, mounted))
         /\ Sent(op, p, s, mounted).mounted = mounted /\ Sent(op, p, s, mounted).place = p
         /\ Sent(op, p, s, mounted).op = op
BY PlaceFacts DEF Sent, AskRecord, Busy

\* A handler that is free.
LEMMA NoAskType == NoAsk \in AskRecord /\ Busy(NoAsk) /\ ~NoAsk.mounted /\ NoAsk.op = "none"
BY PlaceFacts DEF NoAsk, AskRecord, Busy

\* A tab that is sent to the login leaves its handlers behind.
LEMMA ToLoginKeeps ==
  ASSUME PagesInv, NEW p \in Pages, NEW asks \in [Ask -> AskRecord],
         \A a \in Ask : Busy(asks[a]), ToLogin(p, asks), auth' \in AuthRecord
  PROVE  PagesInv'
<1> USE DEF PagesInv
<1>1. PICK shown \in {Game, Login} :
        /\ route' \in RouteRecord
        /\ page' = Fresh(shown)
        /\ entering' = Game
        /\ ask' = [a \in Ask |-> [asks[a] EXCEPT !.mounted = FALSE]]
  BY DEF ToLogin, RouteRecord
<1>2. page' \in PageRecord /\ page'.place = shown
  BY <1>1, FreshType
<1>3. AskShape' /\ \A a \in Ask : ~ask'[a].mounted
  BY <1>1, UnmountedType DEF AskShape
<1>4. PagesShape'
  BY <1>1, <1>2, <1>3 DEF PagesShape
<1>5. HandlersAtHome'
  BY <1>1, <1>3 DEF HandlersAtHome
<1>6. MatchOrReason'
  BY <1>1, <1>2, PlaceFacts DEF MatchOrReason, Mounted
<1> QED BY <1>4, <1>5, <1>6

\* A link, or the guard's redirection of it.
LEMMA NavigateKeeps ==
  ASSUME PagesInv, NEW to \in Pages \cup {Game}, Navigate(to)
  PROVE  PagesInv'
<1> USE DEF PagesInv
<1>0. /\ Goto(to, ask) /\ auth' = auth
      /\ ask \in [Ask -> AskRecord] /\ \A a \in Ask : Busy(ask[a])
  BY DEF Navigate, PagesShape, AskShape
<1> DEFINE left == [a \in Ask |-> [ask[a] EXCEPT !.mounted = FALSE]]
<1>1. left \in [Ask -> AskRecord] /\ \A a \in Ask : Busy(left[a]) /\ ~left[a].mounted
  BY <1>0, UnmountedType
<1>2. CASE to \in Pages /\ IsLoggedIn /\ page.place.at = to.at
  <2>1. /\ route' = [route EXCEPT !.place = to]
        /\ entering' = entering /\ page' = page /\ ask' = ask
    BY <1>0, <1>2 DEF Goto
  <2>2. PagesShape'
    BY <1>0, <2>1, <1>2 DEF PagesShape, RouteRecord, AskShape
  <2> QED BY <2>1, <2>2 DEF HandlersAtHome, MatchOrReason, Mounted
<1>3. CASE to \in Pages /\ IsLoggedIn /\ page.place.at # to.at
  <2>1. /\ route' = [route EXCEPT !.place = to]
        /\ entering' = to /\ page' = Fresh(Game) /\ ask' = left
    BY <1>0, <1>3 DEF Goto
  <2>2. page' \in PageRecord /\ page'.place = Game
    BY <2>1, FreshType
  <2>3. PagesShape'
    BY <1>0, <1>1, <1>3, <2>1, <2>2 DEF PagesShape, RouteRecord, AskShape
  <2>4. HandlersAtHome'
    BY <1>1, <2>1, <2>2 DEF HandlersAtHome
  <2> QED BY <2>2, <2>3, <2>4, PlaceFacts DEF MatchOrReason, Mounted
<1>4. CASE ~(to \in Pages /\ IsLoggedIn)
  <2>1. PICK shown \in {Game, Login} :
          /\ route' \in RouteRecord
          /\ entering' = Game /\ page' = Fresh(shown) /\ ask' = left
    BY <1>0, <1>4 DEF Goto, RouteRecord
  <2>2. page' \in PageRecord /\ page'.place = shown
    BY <2>1, FreshType
  <2>3. PagesShape'
    BY <1>0, <1>1, <2>1, <2>2 DEF PagesShape, AskShape
  <2>4. HandlersAtHome'
    BY <1>1, <2>1, <2>2 DEF HandlersAtHome
  <2> QED BY <2>2, <2>3, <2>4, PlaceFacts DEF MatchOrReason, Mounted
<1> QED BY <1>2, <1>3, <1>4

\* The list or the match is asked for.
LEMMA LoadKeeps ==
  ASSUME PagesInv, NEW a \in Ask, NEW p \in Pages, NEW mounted \in BOOLEAN, NEW shown \in PageRecord,
         Load(a, p, mounted, shown), entering' = Game,
         mounted => shown.place = p,
         \A b \in Ask : ask[b].mounted /\ b # a => shown.place = ask[b].place,
         ~mounted => shown = page /\ entering = Game /\ ~ask[a].mounted
  PROVE  PagesInv'
<1> USE DEF PagesInv
<1>1. /\ page' = IF mounted THEN [shown EXCEPT !.loading = TRUE, !.error = FALSE] ELSE shown
      /\ ask' = [ask EXCEPT ![a] = Sent("get", p, auth.session, mounted)]
      /\ auth.session \in Session /\ auth' = auth /\ route' = route
  BY DEF Load, IsLoggedIn, PagesShape, AuthRecord
<1>2. page' \in PageRecord /\ page'.place = shown.place
  BY <1>1 DEF PageRecord
<1>3. /\ ask' \in [Ask -> AskRecord] /\ \A b \in Ask : Busy(ask'[b])
      /\ ask'[a].mounted = mounted /\ ask'[a].place = p /\ ask'[a].op = "get"
      /\ \A b \in Ask : b # a => ask'[b] = ask[b]
  BY <1>1, SentType DEF PagesShape, AskShape
<1>4. PagesShape'
  BY <1>1, <1>2, <1>3 DEF PagesShape, AskShape
<1>5. HandlersAtHome'
  BY <1>2, <1>3 DEF HandlersAtHome
<1>6. MatchOrReason'
  <2>1. CASE mounted
    BY <2>1, <1>3 DEF MatchOrReason
  <2>2. CASE ~mounted
    BY <2>2, <1>1, <1>3 DEF MatchOrReason, Mounted
  <2> QED BY <2>1, <2>2
<1> QED BY <1>4, <1>5, <1>6

\* onMounted.
LEMMA MountKeeps ==
  ASSUME PagesInv, NEW a \in Ask, Mount(a)
  PROVE  PagesInv'
<1> USE DEF PagesInv
<1>0. /\ entering \in Pages /\ page.place = Game
      /\ \A b \in Ask : ~ask[b].mounted
      /\ Fresh(entering) \in PageRecord /\ Fresh(entering).place = entering
  BY FreshType, PlaceFacts DEF Mount, PagesShape, HandlersAtHome, AskShape, Busy
<1>1. CASE ~IsLoggedIn /\ ToLogin(entering, ask) /\ UNCHANGED auth
  BY <1>0, <1>1, ToLoginKeeps DEF PagesShape, AskShape
<1>2. CASE /\ IsLoggedIn /\ ~auth.known
           /\ page' = Fresh(entering)
           /\ ask' = [ask EXCEPT ![a] = Sent("me", entering, auth.session, TRUE)]
           /\ entering' = Game
           /\ UNCHANGED <<auth, route>>
  <2>1. /\ ask' \in [Ask -> AskRecord] /\ \A b \in Ask : Busy(ask'[b])
        /\ ask'[a].mounted /\ ask'[a].place = entering /\ ask'[a].op = "me"
        /\ \A b \in Ask : b # a => ~ask'[b].mounted
    <3> DEFINE r == Sent("me", entering, auth.session, TRUE)
    <3>1. /\ r \in AskRecord /\ Busy(r)
          /\ r.mounted /\ r.place = entering /\ r.op = "me"
      <4>1. auth.session \in Session \cup {NoSession}
        BY DEF PagesShape, AuthRecord
      <4> QED BY <1>0, <4>1, PlaceFacts DEF Sent, AskRecord, Busy
    <3>2. ask \in [Ask -> AskRecord] /\ \A b \in Ask : Busy(ask[b])
      BY DEF PagesShape, AskShape
    <3>3. ask' = [ask EXCEPT ![a] = r]
      BY <1>2
    <3> HIDE DEF r
    <3> QED BY <1>0, <3>1, <3>2, <3>3
  <2>2. PagesShape'
    BY <1>0, <1>2, <2>1 DEF PagesShape, AskShape
  <2>3. HandlersAtHome'
    BY <1>0, <1>2, <2>1 DEF HandlersAtHome
  <2> QED BY <2>1, <2>2, <2>3 DEF MatchOrReason
<1>3. CASE auth.known /\ Load(a, entering, TRUE, Fresh(entering)) /\ entering' = Game
  BY <1>0, <1>3, LoadKeeps
<1> QED BY <1>1, <1>2, <1>3 DEF Mount

\* fetchUser came back.
LEMMA FetchedKeeps ==
  ASSUME PagesInv, NEW a \in Ask, Fetched(a)
  PROVE  PagesInv'
<1> USE DEF PagesInv
<1>1. auth' \in AuthRecord
  BY DEF Fetched, PagesShape, AuthRecord
<1>2. /\ ask' \in [Ask -> AskRecord]
      /\ \A b \in Ask : Busy(ask'[b]) /\ ask'[b].mounted = ask[b].mounted
                        /\ ask'[b].place = ask[b].place
      /\ ask[a].op = "me" /\ ask'[a].op = "resume" /\ \A b \in Ask : b # a => ask'[b] = ask[b]
  BY DEF Fetched, PagesShape, AskShape, AskRecord, Busy
<1>3. PagesShape'
  BY <1>1, <1>2 DEF Fetched, PagesShape, AskShape
<1>4. HandlersAtHome'
  BY <1>2 DEF Fetched, HandlersAtHome
<1>5. MatchOrReason'
  BY <1>2 DEF Fetched, MatchOrReason, Mounted
<1> QED BY <1>3, <1>4, <1>5

\* What follows the await.
LEMMA ResumeKeeps ==
  ASSUME PagesInv, NEW a \in Ask, Resume(a)
  PROVE  PagesInv'
<1> USE DEF PagesInv
<1>0. /\ ask[a].op = "resume" /\ ask[a].place \in Pages /\ ask[a].mounted \in BOOLEAN
      /\ page \in PageRecord
  BY DEF Resume, PagesShape, AskShape, AskRecord, Busy
<1>1. CASE ~IsLoggedIn /\ ToLogin(ask[a].place, [ask EXCEPT ![a] = NoAsk]) /\ UNCHANGED auth
  <2>1. /\ [ask EXCEPT ![a] = NoAsk] \in [Ask -> AskRecord]
        /\ \A b \in Ask : Busy([ask EXCEPT ![a] = NoAsk][b])
    BY NoAskType DEF PagesShape, AskShape
  <2> QED BY <1>0, <1>1, <2>1, ToLoginKeeps DEF PagesShape
<1>2. CASE Load(a, ask[a].place, ask[a].mounted, page) /\ UNCHANGED entering
  <2>1. CASE entering = Game
    BY <1>0, <1>2, <2>1, LoadKeeps DEF HandlersAtHome
  <2>2. CASE entering # Game
    \* Its page is gone: the request is sent all the same.
    <3>1. page.place = Game /\ ~ask[a].mounted
      BY <1>0, <2>2, PlaceFacts DEF HandlersAtHome
    <3>2. /\ page' = page /\ auth' = auth /\ route' = route /\ entering' = entering
          /\ ask' = [ask EXCEPT ![a] = Sent("get", ask[a].place, auth.session, ask[a].mounted)]
          /\ auth.session \in Session
      BY <1>2, <3>1 DEF Load, IsLoggedIn, PagesShape, AuthRecord
    <3>3. /\ ask' \in [Ask -> AskRecord] /\ \A b \in Ask : Busy(ask'[b])
          /\ ~ask'[a].mounted /\ \A b \in Ask : b # a => ask'[b] = ask[b]
      BY <1>0, <3>1, <3>2, SentType DEF PagesShape, AskShape
    <3>4. PagesShape'
      BY <3>2, <3>3 DEF PagesShape, AskShape
    <3> QED BY <2>2, <3>2, <3>3, <3>4 DEF HandlersAtHome, MatchOrReason, Mounted
  <2> QED BY <2>1, <2>2
<1> QED BY <1>1, <1>2 DEF Resume

\* The answer is shown.
LEMMA LoadedKeeps ==
  ASSUME PagesInv, NEW a \in Ask, Loaded(a)
  PROVE  PagesInv'
<1> USE DEF PagesInv
<1> DEFINE m == ask[a].place.match
<1>0. /\ ask[a].op = "get" /\ ask[a].place \in Pages /\ ask[a].session \in Session
      /\ page \in PageRecord
      /\ auth' = auth /\ route' = route /\ entering' = entering
      /\ ask' = [ask EXCEPT ![a] = NoAsk]
  BY DEF Loaded, PagesShape, AskShape, Busy
<1>1. /\ ask' \in [Ask -> AskRecord] /\ \A b \in Ask : Busy(ask'[b])
      /\ ~ask'[a].mounted /\ \A b \in Ask : b # a => ask'[b] = ask[b]
  BY <1>0, NoAskType DEF PagesShape, AskShape
<1>2. m # NoMatch => m \in Match
  BY <1>0, PlaceFacts
<1>3. PartIn[ask[a].session] \subseteq Match
  BY <1>0, PagesConstants
<1>4. CASE ~ask[a].mounted
  <2>1. page' = page
    BY <1>4 DEF Loaded
  <2>2. PagesShape' /\ HandlersAtHome'
    BY <1>0, <1>1, <2>1 DEF PagesShape, AskShape, HandlersAtHome
  <2> QED BY <1>0, <1>1, <1>4, <2>1, <2>2 DEF MatchOrReason, Mounted
<1>5. CASE ask[a].mounted
  <2>1. /\ page' \in PageRecord /\ page'.place = page.place
        /\ m # NoMatch => page'.matches # {} \/ page'.error
    <3>1. CASE ask[a].st = "failed"
      BY <1>0, <1>5, <3>1 DEF Loaded, Failed, PageRecord
    <3>2. CASE ask[a].st # "failed" /\ m = NoMatch
      BY <1>0, <1>3, <1>5, <3>2 DEF Loaded, PageRecord
    <3>3. CASE ask[a].st # "failed" /\ m # NoMatch
      BY <1>0, <1>2, <1>5, <3>3, LastSnapshotType DEF Loaded, PageRecord
    <3> QED BY <3>1, <3>2, <3>3
  <2>2. PagesShape' /\ HandlersAtHome'
    BY <1>0, <1>1, <2>1 DEF PagesShape, AskShape, HandlersAtHome
  <2>3. page'.place = ask[a].place
    BY <1>5, <2>1 DEF HandlersAtHome
  <2> QED BY <1>0, <2>1, <2>2, <2>3, PlaceFacts DEF MatchOrReason, Mounted
<1> QED BY <1>4, <1>5

\* The replay of a match is asked for, and comes or does not.
LEMMA ReplayKeeps ==
  ASSUME PagesInv, NEW a \in Ask, LoadReplay(a) \/ ReplayLoaded(a)
  PROVE  PagesInv'
<1> USE DEF PagesInv
<1>1. CASE LoadReplay(a)
  <2>0. page.place \in Pages /\ page.place.at = "detail" /\ entering = Game /\ page.matches # {}
        /\ auth' = auth
    BY <1>1, PlaceFacts DEF LoadReplay, Mounted, PagesShape, PageRecord
  <2>1. CASE ToLogin(page.place, ask)
    BY <2>0, <2>1, ToLoginKeeps DEF PagesShape, AskShape
  <2>2. CASE /\ IsLoggedIn
             /\ ask' = [ask EXCEPT ![a] = Sent("replay", page.place, auth.session, TRUE)]
             /\ UNCHANGED <<route, entering, page>>
    <3>1. /\ ask' \in [Ask -> AskRecord] /\ \A b \in Ask : Busy(ask'[b])
          /\ ask'[a].place = page.place /\ \A b \in Ask : b # a => ask'[b] = ask[b]
      <4> DEFINE r == Sent("replay", page.place, auth.session, TRUE)
      <4>1. r \in AskRecord /\ Busy(r) /\ r.place = page.place
        <5>1. auth.session \in Session
          BY <2>2 DEF PagesShape, AuthRecord, IsLoggedIn
        <5> QED BY <2>0, <5>1, PlaceFacts DEF Sent, AskRecord, Busy
      <4>2. ask \in [Ask -> AskRecord] /\ \A b \in Ask : Busy(ask[b])
        BY DEF PagesShape, AskShape
      <4>3. ask' = [ask EXCEPT ![a] = r]
        BY <2>2
      <4> HIDE DEF r
      <4> QED BY <4>1, <4>2, <4>3
    <3>2. PagesShape' /\ HandlersAtHome'
      BY <2>0, <2>2, <3>1 DEF PagesShape, AskShape, HandlersAtHome
    <3> QED BY <2>0, <2>2, <3>2 DEF MatchOrReason
  <2> QED BY <1>1, <2>1, <2>2 DEF LoadReplay
<1>2. CASE ReplayLoaded(a)
  <2>1. /\ page' \in PageRecord /\ page'.place = page.place /\ page'.matches = page.matches
        /\ page'.error = page.error
    BY <1>2 DEF ReplayLoaded, PagesShape, PageRecord
  <2>2. /\ ask' \in [Ask -> AskRecord] /\ \A b \in Ask : Busy(ask'[b])
        /\ ask[a].op = "replay" /\ ~ask'[a].mounted /\ \A b \in Ask : b # a => ask'[b] = ask[b]
    BY <1>2, NoAskType DEF ReplayLoaded, PagesShape, AskShape
  <2>3. PagesShape' /\ HandlersAtHome'
    BY <1>2, <2>1, <2>2 DEF ReplayLoaded, PagesShape, AskShape, HandlersAtHome
  <2> QED BY <1>2, <2>1, <2>2, <2>3 DEF ReplayLoaded, MatchOrReason, Mounted
<1> QED BY <1>1, <1>2

\* Another snapshot is looked at.
LEMMA SelectSnapshotKeeps ==
  ASSUME PagesInv, NEW s \in SnapshotIds, SelectSnapshot(s)
  PROVE  PagesInv'
<1> USE DEF PagesInv
<1>1. /\ page' \in PageRecord /\ page'.place = page.place /\ page'.matches = page.matches
      /\ page'.error = page.error
      /\ UNCHANGED <<auth, route, entering, ask>>
  BY DEF SelectSnapshot, PagesShape, PageRecord
<1> QED BY <1>1 DEF PagesShape, AskShape, HandlersAtHome, MatchOrReason, Mounted

\* The backend answers; the account store changes.
LEMMA EnvironmentKeeps ==
  ASSUME PagesInv, AuthChanges \/ \E a \in Ask : Answer(a)
  PROVE  PagesInv'
<1> USE DEF PagesInv
<1>1. CASE AuthChanges
  <2>1. auth' \in AuthRecord
    <3>1. CASE auth' = [session |-> NoSession, known |-> FALSE]
      BY <3>1 DEF AuthRecord
    <3>2. CASE \E s \in Session : auth' = [auth EXCEPT !.session = s]
      BY <3>2 DEF PagesShape, AuthRecord
    <3>3. CASE auth' = [auth EXCEPT !.known = TRUE]
      BY <3>3 DEF PagesShape, AuthRecord
    <3> QED BY <1>1, <3>1, <3>2, <3>3 DEF AuthChanges
  <2> QED BY <1>1, <2>1 DEF AuthChanges, PagesShape, AskShape, HandlersAtHome, MatchOrReason, Mounted
<1>2. CASE \E a \in Ask : Answer(a)
  <2>0. PICK a \in Ask : Answer(a)
    BY <1>2
  <2>1. /\ ask' \in [Ask -> AskRecord]
        /\ \A b \in Ask : /\ Busy(ask'[b]) /\ ask'[b].mounted = ask[b].mounted
                          /\ ask'[b].place = ask[b].place /\ ask'[b].op = ask[b].op
    BY <2>0 DEF Answer, PagesShape, AskShape, AskRecord, Busy
  <2>2. UNCHANGED <<auth, route, entering, page>>
    BY <2>0 DEF Answer
  <2> QED BY <2>1, <2>2 DEF PagesShape, AskShape, HandlersAtHome, MatchOrReason, Mounted
<1> QED BY <1>1, <1>2

\* A tab starts on the page of the game, with nothing asked.
LEMMA PagesStart == PagesInit => PagesInv
<1> SUFFICES ASSUME PagesInit PROVE PagesInv
  OBVIOUS
<1>1. page \in PageRecord /\ page.place = Game
  BY FreshType DEF PagesInit
<1>2. AskShape /\ \A a \in Ask : ~ask[a].mounted
  BY NoAskType DEF PagesInit, AskShape
<1>3. PagesShape
  BY <1>1, <1>2 DEF PagesInit, PagesShape, AuthRecord, RouteRecord
<1> QED BY <1>1, <1>2, <1>3, PlaceFacts DEF PagesInit, PagesInv, HandlersAtHome, MatchOrReason, Mounted

\* No step of the pages breaks the invariant.
LEMMA PagesStep == PagesInv /\ [PagesNext]_pageVars => PagesInv'
<1> SUFFICES ASSUME PagesInv, [PagesNext]_pageVars PROVE PagesInv'
  OBVIOUS
<1>1. CASE \E to \in Pages \cup {Game} : Navigate(to)
  BY <1>1, NavigateKeeps
<1>2. CASE \E a \in Ask : Handle(a) \/ Answer(a) \/ LoadReplay(a)
  BY <1>2, MountKeeps, FetchedKeeps, ResumeKeeps, LoadedKeeps, ReplayKeeps, EnvironmentKeeps DEF Handle
<1>3. CASE \E s \in SnapshotIds : SelectSnapshot(s)
  BY <1>3, SelectSnapshotKeeps
<1>4. CASE AuthChanges
  BY <1>4, EnvironmentKeeps
<1>5. CASE UNCHANGED pageVars
  BY <1>5 DEF pageVars, PagesInv, PagesShape, AskShape, HandlersAtHome, MatchOrReason, Mounted
<1> QED BY <1>1, <1>2, <1>3, <1>4, <1>5 DEF PagesNext

\* The invariant is stronger than the type invariant the runs check.
LEMMA PagesTyped == PagesInv => PagesTypeOK
BY PlaceFacts DEF PagesInv, PagesShape, AskShape, PagesTypeOK, PageRecord, RouteRecord, AuthRecord

\* The pages keep their invariant in every behaviour.
LEMMA PagesInvariant == PagesSpec => []PagesInv
BY PagesStart, PagesStep, PTL DEF PagesSpec

\* The details show a match, or say why not, or a handler that will decide is
\* at work, whatever the order of answers, visits and sign-outs
\* (MatchDetailView.vue, onMounted).
THEOREM DetailsNeverBlank == PagesSpec => []MatchOrReason
<1>1. PagesInv => MatchOrReason
  BY DEF PagesInv
<1> QED BY <1>1, PagesInvariant, PTL

-----------------------------------------------------------------------------
(* The forms of an account *)

FormsSpec == FormsInit /\ [][FormsNext]_formVars

Refetching == {"display_name", "email", "bind_email"}

\* What a handler at work is for, and the text it was given.
Purpose(r) ==
  /\ r.stage = "none" => r.op = "none"
  /\ r.op = "none" => ~r.mounted
  /\ r.stage = "api" => r.op \in Form
  /\ r.stage = "me" => r.op = "mount" \/ r.op \in Form \cap Refetching
  /\ r.op = "display_name" => r.val \in Name
  /\ r.op \in {"email", "bind_email"} => r.val \in Email

FormsShape == FormsTypeOK /\ \A c \in Call : Purpose(call[c])

\* A form with a handler on its page waits.
Waiting == \A c \in Call : call[c].mounted /\ call[c].op \in Form => form[call[c].op].loading

\* No form has two.
Alone == \A c, d \in Call :
           call[c].mounted /\ call[d].mounted /\ call[c].op = call[d].op /\ call[c].op \in Form
             => c = d

\* An answer that says yes to a form on its page tells of a change that was made.
Carried == \A c \in Call :
             call[c].mounted /\ call[c].stage = "api" /\ call[c].st = "ok" => done[call[c].op]

FormsInv == FormsShape /\ Waiting /\ Alone /\ Carried /\ SuccessIsTrue

\* The text fields are those of three forms.
LEMMA FieldFacts ==
  /\ DOMAIN FieldOf = Refetching
  /\ FieldOf["display_name"] = "name" /\ FieldOf["email"] = "email" /\ FieldOf["bind_email"] = "bind"
  /\ \A f \in Form : f \in AllForms /\ f # "mount" /\ f # "none"
BY FormsConstants DEF FieldOf, Refetching, AllForms, AccountForm

\* An empty page.
LEMMA BlankType ==
  /\ Blank \in [Form -> FormState] /\ NoInput \in Inputs
  /\ \A f \in Form : Blank[f].says # "success"
BY DEF Blank, FormState, NoInput, Inputs

\* A handler that is free.
LEMMA NoCallType ==
  /\ Purpose(NoCall) /\ ~NoCall.mounted /\ NoCall.op = "none"
  /\ NoCall.st = "idle" /\ NoCall.stage = "none" /\ NoCall \in CallRecord
BY DEF NoCall, Purpose, CallRecord

\* The invariant when every handler has lost its page, but for one that is not
\* a form's.
LEMMA LeftKeeps ==
  ASSUME FormsInv,
         FormsShape',
         form' = Blank, done' = done,
         \A c \in Call : call'[c].mounted => call'[c].op \notin Form /\ call'[c].stage # "api"
  PROVE  FormsInv'
<1>1. Waiting' /\ Alone' /\ Carried'
  BY DEF Waiting, Alone, Carried
<1>2. SuccessIsTrue'
  BY BlankType DEF SuccessIsTrue
<1> QED BY <1>1, <1>2 DEF FormsInv

\* Handlers without their page.
LEMMA UnmountedForms ==
  ASSUME FormsShape
  PROVE  /\ Unmounted \in [Call -> CallRecord]
         /\ \A c \in Call : Purpose(Unmounted[c]) /\ ~Unmounted[c].mounted
<1>1. \A c \in Call : call[c] \in CallRecord /\ Purpose(call[c])
  BY DEF FormsShape, FormsTypeOK
<1>2. \A c \in Call : /\ [call[c] EXCEPT !.mounted = FALSE] \in CallRecord
                      /\ Purpose([call[c] EXCEPT !.mounted = FALSE])
                      /\ ~[call[c] EXCEPT !.mounted = FALSE].mounted
  BY <1>1 DEF CallRecord, Purpose
<1> QED BY <1>2 DEF Unmounted

\* A page is entered.
LEMMA EnterKeeps ==
  ASSUME FormsInv, NEW p \in {"settings", "device"}, NEW c \in Call, Enter(p, c)
  PROVE  FormsInv'
<1> DEFINE r == [NoCall EXCEPT !.st = "sent", !.op = "mount", !.stage = "me",
                               !.signed = TRUE, !.mounted = TRUE]
<1>0. FormsShape
  BY DEF FormsInv
<1>1. /\ Unmounted \in [Call -> CallRecord]
      /\ \A d \in Call : Purpose(Unmounted[d]) /\ ~Unmounted[d].mounted
  BY <1>0, UnmountedForms
<1>2. r \in CallRecord /\ Purpose(r) /\ r.op = "mount" /\ r.stage = "me"
  BY FieldFacts DEF NoCall, CallRecord, Purpose
<1>3. call' = IF p = "settings" THEN [Unmounted EXCEPT ![c] = r] ELSE Unmounted
  BY DEF Enter
<1> HIDE DEF r
<1>4. /\ call' \in [Call -> CallRecord] /\ \A d \in Call : Purpose(call'[d])
      /\ \A d \in Call : call'[d].mounted => call'[d].op = "mount" /\ call'[d].stage = "me"
  BY <1>1, <1>2, <1>3
<1>5. FormsShape'
  BY <1>0, <1>4, BlankType DEF Enter, FormsShape, FormsTypeOK
<1> QED BY <1>4, <1>5, LeftKeeps, FieldFacts DEF Enter

\* A page is left, or the account signs in again.
LEMMA LeaveOrSignInKeeps ==
  ASSUME FormsInv, Leave \/ SignIn
  PROVE  FormsInv'
<1>0. FormsShape
  BY DEF FormsInv
<1>1. CASE Leave
  <2>1. /\ call' \in [Call -> CallRecord]
        /\ \A d \in Call : Purpose(call'[d]) /\ ~call'[d].mounted
    BY <1>0, <1>1, UnmountedForms DEF Leave
  <2>2. FormsShape'
    BY <1>0, <1>1, <2>1, BlankType DEF Leave, FormsShape, FormsTypeOK
  <2> QED BY <1>1, <2>1, <2>2, LeftKeeps DEF Leave
<1>2. CASE SignIn
  BY <1>0, <1>2 DEF SignIn, FormsInv, FormsShape, FormsTypeOK, Waiting, Alone, Carried, SuccessIsTrue
<1> QED BY <1>1, <1>2

\* A text is typed, or a form refuses what was typed.
LEMMA TypeOrRefuseKeeps ==
  ASSUME FormsInv, NEW f \in Form, Refuse(f) \/ \E text \in Name \cup Email : Type(f, text)
  PROVE  FormsInv'
<1> USE DEF FormsInv
<1>1. CASE \E text \in Name \cup Email : Type(f, text)
  <2>0. PICK text \in Name \cup Email : Type(f, text)
    BY <1>1
  <2>1. input' \in Inputs
    BY <2>0, FieldFacts DEF Type, FormsShape, FormsTypeOK, Inputs, Refetching
  <2> QED BY <2>0, <2>1 DEF Type, FormsShape, FormsTypeOK, Waiting, Alone, Carried, SuccessIsTrue
<1>2. CASE Refuse(f)
  <2>1. /\ form' \in [Form -> FormState] /\ form'[f].says = "error"
        /\ \A g \in Form : g # f => form'[g] = form[g]
        /\ ~form[f].loading /\ UNCHANGED <<account, user, session, screen, input, done, call>>
    BY <1>2 DEF Refuse, Says, FormsShape, FormsTypeOK, FormState
  <2>2. FormsShape'
    BY <2>1 DEF FormsShape, FormsTypeOK
  <2>3. Waiting'
    BY <2>1 DEF Waiting
  <2>4. SuccessIsTrue'
    BY <2>1 DEF SuccessIsTrue
  <2> QED BY <2>1, <2>2, <2>3, <2>4 DEF Alone, Carried
<1> QED BY <1>1, <1>2

\* A form is sent: nobody else works for it, for it does not wait.
LEMMA SubmitKeeps ==
  ASSUME FormsInv, NEW f \in Form, NEW c \in Call, Submit(f, c)
  PROVE  FormsInv'
<1> USE DEF FormsInv
<1> DEFINE r == [NoCall EXCEPT !.st = "sent", !.op = f, !.stage = "api",
                               !.val = TextOf(f), !.signed = session, !.mounted = TRUE]
<1>1. /\ ~form[f].loading /\ call' = [call EXCEPT ![c] = r]
      /\ form' = [form EXCEPT ![f] = [loading |-> TRUE, says |-> "nothing"]]
      /\ done' = [done EXCEPT ![f] = FALSE]
      /\ UNCHANGED <<account, user, session, screen, input>>
  BY DEF Submit, Says
<1>2. /\ TextOf(f) \in Name \cup Email \cup {""}
      /\ f = "display_name" => TextOf(f) \in Name
      /\ f \in {"email", "bind_email"} => TextOf(f) \in Email
  BY FieldFacts DEF Submit, TextOf, Refetching, FormsShape, FormsTypeOK, Inputs
<1>3. session \in BOOLEAN
  BY DEF FormsShape, FormsTypeOK
<1>4. /\ r \in CallRecord /\ Purpose(r)
      /\ r.op = f /\ r.stage = "api" /\ r.st = "sent" /\ r.mounted
  BY <1>2, <1>3, FieldFacts DEF NoCall, CallRecord, Purpose
<1> HIDE DEF r
<1>5. /\ call' \in [Call -> CallRecord] /\ call'[c] = r
      /\ \A d \in Call : d # c => call'[d] = call[d]
      /\ form' \in [Form -> FormState] /\ form'[f].loading /\ form'[f].says = "nothing"
      /\ \A g \in Form : g # f => form'[g] = form[g]
      /\ done' \in [Form -> BOOLEAN] /\ \A g \in Form : g # f => done'[g] = done[g]
  BY <1>1, <1>4 DEF FormsShape, FormsTypeOK, FormState
<1>6. \A d \in Call : call[d].mounted => call[d].op # f
  BY <1>1 DEF Waiting
<1>7. FormsShape'
  BY <1>1, <1>4, <1>5 DEF FormsShape, FormsTypeOK
<1>8. Waiting' /\ Alone'
  BY <1>4, <1>5, <1>6 DEF Waiting, Alone
<1>9. Carried'
  <2> SUFFICES ASSUME NEW d \in Call, call'[d].mounted, call'[d].stage = "api", call'[d].st = "ok"
               PROVE  done'[call'[d].op]
    BY DEF Carried
  <2>1. d # c
    BY <1>4, <1>5
  <2>2. call'[d] = call[d] /\ call[d].op # f /\ call[d].op \in Form /\ done[call[d].op]
    BY <2>1, <1>5, <1>6 DEF Carried, FormsShape, Purpose
  <2> QED BY <2>2, <1>5
<1>10. SuccessIsTrue'
  BY <1>5 DEF SuccessIsTrue
<1> QED BY <1>7, <1>8, <1>9, <1>10

\* The backend carries a request out; a form on its page is told of later.
LEMMA ServeKeeps ==
  ASSUME FormsInv, NEW c \in Call, Serve(c)
  PROVE  FormsInv'
<1> USE DEF FormsInv
<1> DEFINE op == call[c].op
<1>0. /\ call[c] \in CallRecord /\ Purpose(call[c]) /\ call[c].stage = "api" /\ call[c].st = "sent"
      /\ op \in Form /\ op \in AllForms /\ account \in Account
  BY FieldFacts DEF Serve, FormsShape, FormsTypeOK, Purpose
<1>1. account' \in Account
  <2>1. account' = Changed(c)
    BY DEF Serve
  <2>2. CASE op = "display_name"
    BY <1>0, <2>1, <2>2 DEF Changed, Account, Purpose
  <2>3. CASE op = "email"
    BY <1>0, <2>1, <2>3 DEF Changed, Account, Purpose
  <2>4. CASE op = "bind_email"
    BY <1>0, <2>1, <2>4 DEF Changed, Account, Purpose
  <2>5. CASE op \in {"password", "device"}
    BY <1>0, <2>1, <2>5 DEF Changed, Account
  <2> QED BY <1>0, <2>2, <2>3, <2>4, <2>5 DEF AllForms, AccountForm
<1>2. PICK st \in {"ok", "failed"} : call' = [call EXCEPT ![c].st = st]
  BY DEF Serve
<1>3. /\ call' \in [Call -> CallRecord] /\ \A d \in Call : d # c => call'[d] = call[d]
      /\ Purpose(call'[c]) /\ call'[c].op = op /\ call'[c].mounted = call[c].mounted
      /\ call'[c].stage = "api"
  BY <1>0, <1>2 DEF FormsShape, FormsTypeOK, CallRecord, Purpose
<1>4. /\ done' \in [Form -> BOOLEAN] /\ \A g \in Form : done[g] => done'[g]
      /\ call[c].mounted => done'[op]
  BY <1>0 DEF Serve, FormsShape, FormsTypeOK
<1>5. UNCHANGED <<user, session, screen, input, form>>
  BY DEF Serve
<1>6. FormsShape'
  BY <1>1, <1>3, <1>4, <1>5 DEF FormsShape, FormsTypeOK
<1>7. Waiting' /\ Alone'
  BY <1>3, <1>5 DEF Waiting, Alone
<1>8. Carried'
  <2> SUFFICES ASSUME NEW d \in Call, call'[d].mounted, call'[d].stage = "api", call'[d].st = "ok"
               PROVE  done'[call'[d].op]
    BY DEF Carried
  <2>1. CASE d = c
    BY <2>1, <1>3, <1>4
  <2>2. CASE d # c
    <3>1. call'[d] = call[d] /\ call[d].op \in Form /\ done[call[d].op]
      BY <2>2, <1>3 DEF Carried, FormsShape, Purpose
    <3> QED BY <3>1, <1>4
  <2> QED BY <2>1, <2>2
<1>9. SuccessIsTrue'
  BY <1>4, <1>5 DEF SuccessIsTrue
<1> QED BY <1>6, <1>7, <1>8, <1>9

\* The account is read, or a request fails: no form is concerned yet.
LEMMA AnswerKeeps ==
  ASSUME FormsInv, NEW c \in Call, ServeMe(c) \/ Fail(c)
  PROVE  FormsInv'
<1> USE DEF FormsInv
<1>0. call[c] \in CallRecord /\ Purpose(call[c]) /\ account \in Account
  BY DEF FormsShape, FormsTypeOK
<1>1. /\ call' \in [Call -> CallRecord] /\ \A d \in Call : d # c => call'[d] = call[d]
      /\ Purpose(call'[c]) /\ call'[c].op = call[c].op /\ call'[c].mounted = call[c].mounted
      /\ call'[c].stage = "api" => call'[c].st # "ok"
  <2>1. CASE ServeMe(c)
    BY <1>0, <2>1 DEF ServeMe, FormsShape, FormsTypeOK, CallRecord, Purpose
  <2>2. CASE Fail(c)
    BY <1>0, <2>2 DEF Fail, FormsShape, FormsTypeOK, CallRecord, Purpose
  <2> QED BY <2>1, <2>2
<1>2. UNCHANGED <<account, user, session, screen, input, form, done>>
  BY DEF ServeMe, Fail
<1>3. FormsShape'
  BY <1>1, <1>2 DEF FormsShape, FormsTypeOK
<1>4. Waiting' /\ Alone' /\ Carried'
  BY <1>1, <1>2 DEF Waiting, Alone, Carried
<1> QED BY <1>2, <1>3, <1>4 DEF SuccessIsTrue

\* A handler that ends, or goes on to fetch the account, with what its form says.
LEMMA GoesOnKeeps ==
  ASSUME FormsInv, FormsShape', NEW c \in Call,
         \A d \in Call : d # c => call'[d] = call[d],
         call'[c].mounted =>
           call[c].mounted /\ call'[c].op = call[c].op /\ call'[c].stage # "api"
             /\ (call[c].op \in Form => form'[call[c].op].loading),
         done' = done,
         \A g \in Form : g # call[c].op \/ ~call[c].mounted => form'[g] = form[g],
         \A g \in Form : form'[g].says = "success" => done[g]
  PROVE  FormsInv'
<1> USE DEF FormsInv
<1>1. Waiting'
  <2> SUFFICES ASSUME NEW d \in Call, call'[d].mounted, call'[d].op \in Form
               PROVE  form'[call'[d].op].loading
    BY DEF Waiting
  <2>1. CASE d = c
    BY <2>1
  <2>2. CASE d # c
    <3>1. call'[d] = call[d] /\ form[call[d].op].loading
      BY <2>2 DEF Waiting
    <3>2. call[d].op # call[c].op \/ ~call[c].mounted
      BY <2>2, <3>1 DEF Alone
    <3> QED BY <3>1, <3>2
  <2> QED BY <2>1, <2>2
<1>2. Alone'
  BY DEF Alone
<1>3. Carried'
  BY DEF Carried
<1> QED BY <1>1, <1>2, <1>3 DEF SuccessIsTrue

\* A request of a form came back.
LEMMA FormAnsweredKeeps ==
  ASSUME FormsInv, NEW c \in Call, Succeed(c) \/ FailForm(c)
  PROVE  FormsInv'
<1> DEFINE op == call[c].op
<1>0. /\ FormsShape /\ call[c] \in CallRecord /\ Purpose(call[c]) /\ call[c].stage = "api"
      /\ op \in Form /\ session \in BOOLEAN /\ form \in [Form -> FormState]
  BY DEF Succeed, FailForm, FormsInv, FormsShape, FormsTypeOK, Purpose
<1>1. CASE Succeed(c)
  <2> DEFINE refetch == op \in DOMAIN FieldOf
             r == IF refetch THEN [call[c] EXCEPT !.st = (IF session THEN "sent" ELSE "failed"),
                                                  !.stage = "me"] ELSE NoCall
  <2>1. /\ form' = IF call[c].mounted
                   THEN [form EXCEPT ![op] = [loading |-> refetch, says |-> "success"]] ELSE form
        /\ call' = [call EXCEPT ![c] = r]
        /\ call[c].st = "ok"
        /\ UNCHANGED <<account, user, session, screen, input, done>>
    BY <1>1 DEF Succeed, Shows
  <2>2. /\ r \in CallRecord /\ Purpose(r)
        /\ r.mounted => refetch /\ call[c].mounted /\ r.op = op /\ r.stage # "api"
    <3>1. CASE refetch
      <4>1. PICK st \in {"sent", "failed"} : r = [call[c] EXCEPT !.st = st, !.stage = "me"]
        BY <3>1
      <4>2. op \in Refetching
        BY <3>1, FieldFacts
      <4> HIDE DEF r
      <4> QED BY <1>0, <3>1, <4>1, <4>2 DEF CallRecord, Purpose
    <3>2. CASE ~refetch
      BY <3>2, NoCallType
    <3> QED BY <3>1, <3>2
  <2>3. /\ form' \in [Form -> FormState]
        /\ \A g \in Form : g # op \/ ~call[c].mounted => form'[g] = form[g]
        /\ call[c].mounted => form'[op].loading = refetch
    BY <1>0, <2>1 DEF FormState
  <2>4. call[c].mounted => done[op]
    BY <1>0, <2>1 DEF FormsInv, Carried
  <2>5. \A g \in Form : form'[g].says = "success" => done[g]
    BY <1>0, <2>1, <2>3, <2>4 DEF FormsInv, SuccessIsTrue
  <2> HIDE DEF r
  <2>6. /\ call' \in [Call -> CallRecord] /\ call'[c] = r
        /\ \A d \in Call : d # c => call'[d] = call[d]
    BY <1>0, <2>1, <2>2 DEF FormsShape, FormsTypeOK
  <2>7. FormsShape'
    BY <1>0, <2>1, <2>2, <2>3, <2>6 DEF FormsShape, FormsTypeOK
  <2> QED BY <1>0, <2>1, <2>2, <2>3, <2>5, <2>6, <2>7, GoesOnKeeps
<1>2. CASE FailForm(c)
  <2>1. /\ form' = IF call[c].mounted
                   THEN [form EXCEPT ![op] = [loading |-> FALSE, says |-> "error"]] ELSE form
        /\ call' = [call EXCEPT ![c] = NoCall]
        /\ UNCHANGED <<account, user, session, screen, input, done>>
    BY <1>2 DEF FailForm, Complain, Shows
  <2>2. /\ form' \in [Form -> FormState]
        /\ \A g \in Form : g # op \/ ~call[c].mounted => form'[g] = form[g]
        /\ \A g \in Form : form'[g].says = "success" => form'[g] = form[g]
    BY <1>0, <2>1 DEF FormState
  <2>3. \A g \in Form : form'[g].says = "success" => done[g]
    BY <2>2 DEF FormsInv, SuccessIsTrue
  <2>4. /\ call' \in [Call -> CallRecord] /\ call'[c] = NoCall
        /\ \A d \in Call : d # c => call'[d] = call[d]
    BY <1>0, <2>1, NoCallType DEF FormsShape, FormsTypeOK
  <2>5. FormsShape'
    BY <1>0, <2>1, <2>2, <2>4, NoCallType DEF FormsShape, FormsTypeOK
  <2> QED BY <2>1, <2>2, <2>3, <2>4, <2>5, NoCallType, GoesOnKeeps
<1> QED BY <1>1, <1>2

\* The account was fetched, or could not be.
LEMMA RefetchedKeeps ==
  ASSUME FormsInv, NEW c \in Call, Refetched(c)
  PROVE  FormsInv'
<1> DEFINE op == call[c].op
           u == IF call[c].st = "ok" THEN call[c].reply ELSE NoUser
<1>0. /\ FormsShape /\ call[c] \in CallRecord /\ Purpose(call[c]) /\ call[c].stage = "me"
      /\ op = "mount" \/ op \in Form \cap Refetching
      /\ form \in [Form -> FormState] /\ input \in Inputs /\ session \in BOOLEAN
  BY DEF Refetched, FormsInv, FormsShape, FormsTypeOK, Purpose
<1>1. /\ user' = u /\ session' = (session /\ call[c].st = "ok")
      /\ input' = IF call[c].mounted THEN Rewritten(c, u) ELSE input
      /\ form' = IF call[c].mounted /\ op # "mount"
                 THEN [form EXCEPT ![op].loading = FALSE] ELSE form
      /\ call' = [call EXCEPT ![c] = NoCall]
      /\ UNCHANGED <<account, screen, done>>
  BY DEF Refetched
<1>2. u \in Account \cup {NoUser}
  BY <1>0 DEF CallRecord
<1>3. input' \in Inputs
  <2> DEFINE name == IF u = NoUser THEN "" ELSE u.name
             email == IF u = NoUser THEN "" ELSE Text(u.email, "")
  <2>1. name \in Name \cup {""} /\ email \in Email \cup {""}
    BY <1>2 DEF Account, Text
  <2>2. CASE op = "mount"
    BY <1>0, <1>1, <2>1, <2>2 DEF Rewritten, Inputs
  <2>3. CASE op = "bind_email"
    BY <1>0, <1>1, <2>1, <2>3 DEF Rewritten, Inputs
  <2>4. CASE op = "display_name"
    BY <1>0, <1>1, <2>1, <2>4 DEF Rewritten, Inputs, Purpose
  <2>5. CASE op = "email"
    BY <1>0, <1>1, <2>1, <2>5 DEF Rewritten, Inputs
  <2> QED BY <1>0, <2>2, <2>3, <2>4, <2>5 DEF Refetching
<1>4. /\ form' \in [Form -> FormState]
      /\ \A g \in Form : g # op \/ ~call[c].mounted => form'[g] = form[g]
      /\ \A g \in Form : form'[g].says = form[g].says
  BY <1>0, <1>1 DEF FormState
<1>5. /\ call' \in [Call -> CallRecord] /\ call'[c] = NoCall
      /\ \A d \in Call : d # c => call'[d] = call[d]
  BY <1>0, <1>1, NoCallType DEF FormsShape, FormsTypeOK
<1>6. FormsShape'
  BY <1>0, <1>1, <1>2, <1>3, <1>4, <1>5, NoCallType DEF FormsShape, FormsTypeOK
<1>7. \A g \in Form : form'[g].says = "success" => done[g]
  BY <1>4 DEF FormsInv, SuccessIsTrue
<1> QED BY <1>1, <1>4, <1>5, <1>6, <1>7, NoCallType, GoesOnKeeps

\* Nobody has sent anything, and no form says anything.
LEMMA FormsStart == FormsInit => FormsInv
<1> SUFFICES ASSUME FormsInit PROVE FormsInv
  OBVIOUS
<1>1. /\ \A c \in Call : call[c] = NoCall
      /\ call \in [Call -> CallRecord] /\ form = Blank /\ done \in [Form -> BOOLEAN]
  BY NoCallType DEF FormsInit
<1>2. FormsShape
  BY <1>1, BlankType, NoCallType DEF FormsInit, FormsShape, FormsTypeOK
<1>3. Waiting /\ Alone /\ Carried
  BY <1>1, NoCallType DEF Waiting, Alone, Carried
<1> QED BY <1>1, <1>2, <1>3, BlankType DEF FormsInv, SuccessIsTrue

\* No step of the forms breaks the invariant.
LEMMA FormsStep == FormsInv /\ [FormsNext]_formVars => FormsInv'
<1> SUFFICES ASSUME FormsInv, [FormsNext]_formVars PROVE FormsInv'
  OBVIOUS
<1>1. CASE \E p \in {"settings", "device"}, c \in Call : Enter(p, c)
  BY <1>1, EnterKeeps
<1>2. CASE Leave \/ SignIn
  BY <1>2, LeaveOrSignInKeeps
<1>3. CASE \E f \in Form, text \in Name \cup Email : Type(f, text)
  BY <1>3, TypeOrRefuseKeeps
<1>4. CASE \E f \in Form : Refuse(f)
  BY <1>4, TypeOrRefuseKeeps
<1>5. CASE \E f \in Form, c \in Call : Submit(f, c)
  BY <1>5, SubmitKeeps
<1>6. CASE \E c \in Call : Backend(c)
  BY <1>6, ServeKeeps, AnswerKeeps DEF Backend
<1>7. CASE \E c \in Call : Handler(c)
  BY <1>7, FormAnsweredKeeps, RefetchedKeeps DEF Handler
<1>8. CASE UNCHANGED formVars
  BY <1>8 DEF formVars, FormsInv, FormsShape, FormsTypeOK, Waiting, Alone, Carried, SuccessIsTrue
<1> QED BY <1>1, <1>2, <1>3, <1>4, <1>5, <1>6, <1>7, <1>8 DEF FormsNext

\* The forms keep their invariant in every behaviour.
LEMMA FormsInvariant == FormsSpec => []FormsInv
BY FormsStart, FormsStep, PTL DEF FormsSpec

\* A form that says it succeeded has had its request carried out: no answer of
\* another form, of an earlier visit or of the account's fetch is taken for its
\* own (SettingsView.vue, DeviceAuthView.vue).
THEOREM SuccessAlwaysTrue == FormsSpec => []SuccessIsTrue
<1>1. FormsInv => SuccessIsTrue
  BY DEF FormsInv
<1> QED BY <1>1, FormsInvariant, PTL

-----------------------------------------------------------------------------
(* The pages and the forms in one tab *)

Part == part \in {"matches", "forms", "report"}

\* The tab stays with one of its parts.
LEMMA PartKept == Spec => []Part
<1>1. Init => Part
  BY DEF Init, Part
<1>2. Part /\ [Next]_vars => Part'
  BY DEF Part, Next, vars
<1> QED BY <1>1, <1>2, PTL DEF Spec

\* The pages move as they do alone.
LEMMA PagesMove == Spec => PagesSpec
<1>1. Init => PagesInit
  BY DEF Init
<1>2. [Next]_vars => [PagesNext]_pageVars
  BY DEF Next, vars, pageVars
<1> QED BY <1>1, <1>2, PTL DEF Spec, PagesSpec

\* The forms move as they do alone.
LEMMA FormsMove == Spec => FormsSpec
<1>1. Init => FormsInit
  BY DEF Init
<1>2. [Next]_vars => [FormsNext]_formVars
  BY DEF Next, vars, formVars
<1> QED BY <1>1, <1>2, PTL DEF Spec, FormsSpec

\* Every variable of the match pages and of the forms keeps its type, for any
\* number of matches, sessions and handlers; a chosen snapshot is one of the
\* match's, and a text field never holds null (MatchDetailView.vue,
\* SettingsView.vue).
THEOREM PortalTypes == Spec => []TypeOK
<1>1. PagesInv /\ FormsInv /\ Part => TypeOK
  BY PagesTyped DEF TypeOK, FormsInv, FormsShape, Part
<1> QED BY <1>1, PartKept, PagesMove, FormsMove, PagesInvariant, FormsInvariant, PTL

-----------------------------------------------------------------------------
(* The report of a match *)

\* Of several records and names, the first record that has one of them, and
\* the first name it has, is what is read (match-stats.ts, pickNumber, pickCountMap).
LEMMA FirstIsPicked ==
  ASSUME NEW records, NEW aliases, DOMAIN records \subseteq Nat, DOMAIN aliases \subseteq Nat,
         NEW p \in Found(records, aliases),
         \A q \in Found(records, aliases) : Before(p, q)
  PROVE  Picked(records, aliases) = ValueAt(records[p[1]], <<aliases[p[2]]>>)
<1> DEFINE found == Found(records, aliases)
           first == CHOOSE x \in found : \A q \in found : Before(x, q)
<1>1. first \in found /\ \A q \in found : Before(first, q)
  OBVIOUS
<1>2. \A x \in found : x = <<x[1], x[2]>> /\ x[1] \in Nat /\ x[2] \in Nat
  BY DEF Found
<1>3. first = p
  <2>1. Before(first, p) /\ Before(p, first)
    BY <1>1
  <2>2. first[1] = p[1] /\ first[2] = p[2]
    BY <1>1, <1>2, <2>1 DEF Before
  <2> QED BY <1>1, <1>2, <2>2
<1> QED BY <1>3 DEF Picked

\* A key is looked up where it stands first.
LEMMA FoundFirst ==
  ASSUME NEW maps, DOMAIN maps \subseteq Nat, NEW i \in DOMAIN maps, NEW key \in DOMAIN maps[i],
         \A j \in DOMAIN maps : j < i => key \notin DOMAIN maps[j]
  PROVE  key \in DOMAIN FirstOf(maps) /\ FirstOf(maps)[key] = maps[i][key]
<1> DEFINE having == {j \in DOMAIN maps : key \in DOMAIN maps[j]}
<1>1. i \in having /\ having \subseteq Int /\ \A j \in having : i <= j
  OBVIOUS
<1> HIDE DEF having
<1>2. Min(having) = i
  <2> DEFINE least == CHOOSE x \in having : \A y \in having : x =< y
  <2>1. least \in having /\ \A y \in having : least =< y
    BY <1>1
  <2>2. Min(having) = least
    BY DEF Min
  <2> HIDE DEF least
  <2>3. least =< i /\ i =< least /\ least \in Int
    BY <1>1, <2>1
  <2> QED BY <2>2, <2>3
<1>3. key \in UNION {DOMAIN maps[j] : j \in DOMAIN maps}
  OBVIOUS
<1> QED BY <1>2, <1>3 DEF FirstOf, having

\* A statistic that stands under one of its names only, beside the score or
\* within it, is counted as it stands: by whatever name, unless the free-form
\* metrics name it too (match-stats.ts, buildMetricMap).
THEOREM AnyNameCounts ==
  ASSUME NEW score, NEW m \in DOMAIN NumberAliases, NEW i \in 1..2,
         NEW j \in DOMAIN NumberAliases[m], NEW n \in Nat \ {0},
         Found(<<score.stats, score.fields>>, NumberAliases[m]) = {<<i, j>>},
         ValueAt(<<score.stats, score.fields>>[i], <<NumberAliases[m][j]>>) = Num(n),
         <<m>> \notin DOMAIN LastByKey(Counted(Picked(<<score.stats, score.fields>>, MapAliases.metrics).of))
  PROVE  <<m>> \in DOMAIN MetricMap(score) /\ MetricMap(score)[<<m>>] = n
<1> DEFINE records == <<score.stats, score.fields>>
           numbers == Positive([k \in {<<x>> : x \in DOMAIN NumberAliases} |->
                             PickNumber(records, NumberAliases[k[1]])])
           extra == LastByKey(Counted(Picked(records, MapAliases.metrics).of))
<1>1. DOMAIN NumberAliases[m] \subseteq Nat
  BY DEF NumberAliases
<1>2. Picked(records, NumberAliases[m]) = Num(n)
  <2>1. \A q \in Found(records, NumberAliases[m]) : Before(<<i, j>>, q)
    BY <1>1 DEF Before
  <2>2. DOMAIN records \subseteq Nat
    OBVIOUS
  <2> QED BY <1>1, <2>1, <2>2, FirstIsPicked
<1>3. PickNumber(records, NumberAliases[m]) = n
  BY <1>2 DEF PickNumber, NonNegativeInt, Num
<1>4. <<m>> \in DOMAIN numbers /\ numbers[<<m>>] = n
  BY <1>3 DEF Positive
<1> HIDE DEF numbers, extra
<1>5. \E a, b, c, d, e, f : MetricMap(score) = FirstOf(<<extra, numbers, a, b, c, d, e, f>>)
  BY DEF MetricMap, extra, numbers
<1>6. ASSUME NEW a, NEW b, NEW c, NEW d, NEW e, NEW f,
             MetricMap(score) = FirstOf(<<extra, numbers, a, b, c, d, e, f>>)
      PROVE  <<m>> \in DOMAIN MetricMap(score) /\ MetricMap(score)[<<m>>] = n
  <2> DEFINE maps == <<extra, numbers, a, b, c, d, e, f>>
  <2>1. maps[2] = numbers /\ maps[1] = extra /\ DOMAIN maps = 1..8
    OBVIOUS
  <2> HIDE DEF maps
  <2>2. <<m>> \notin DOMAIN maps[1]
    BY <2>1 DEF extra
  <2>3. FirstOf(maps)[<<m>>] = maps[2][<<m>>] /\ <<m>> \in DOMAIN FirstOf(maps)
    <3>1. \A x \in DOMAIN maps : x < 2 => <<m>> \notin DOMAIN maps[x]
      BY <2>1, <2>2
    <3>2. <<m>> \in DOMAIN maps[2] /\ 2 \in DOMAIN maps /\ DOMAIN maps \subseteq Nat
      BY <1>4, <2>1
    <3> QED BY <3>1, <3>2, FoundFirst
  <2> QED BY <1>4, <1>6, <2>1, <2>3 DEF maps
<1> QED BY <1>5, <1>6

\* The table of a match has a row for each statistic of some player and no
\* other, and in it a number for each player: his own, or zero if his report
\* does not speak of it and his context does not expect it (match-stats.ts,
\* buildPlayerStatMatrixRows).
THEOREM TableIsComplete ==
  ASSUME NEW players, \A p, q \in players : p.userId = q.userId => p = q
  PROVE  /\ DOMAIN PlayerStatMatrix(players) =
              UNION {DOMAIN PlayerStatRows(p.score, p.context) : p \in players}
         /\ \A key \in DOMAIN PlayerStatMatrix(players), p \in players :
              LET own == MetricMap(p.score) IN
              PlayerStatMatrix(players)[key][p.userId] = IF key \in DOMAIN own THEN own[key] ELSE 0
<1> DEFINE Own(p) == MetricMap(p.score)
           Rows(p) == PlayerStatRows(p.score, p.context)
           rows == [p \in players |-> Rows(p)]
<1>1. ASSUME NEW p
      PROVE  /\ DOMAIN Own(p) \subseteq DOMAIN Rows(p)
             /\ \A k \in DOMAIN Rows(p) :
                  Rows(p)[k] = IF k \in DOMAIN Own(p) THEN Own(p)[k] ELSE 0
  <2> DEFINE zeros == [key \in ExpectedMetricKeys(p.context) |-> 0]
             maps == <<Own(p), zeros>>
  <2>1. Rows(p) = FirstOf(maps)
    BY DEF PlayerStatRows
  <2>2. DOMAIN maps = 1..2 /\ maps[1] = Own(p) /\ maps[2] = zeros
    OBVIOUS
  <2> HIDE DEF maps, Own
  <2>3. DOMAIN FirstOf(maps) = DOMAIN Own(p) \cup DOMAIN zeros
    <3> HIDE DEF zeros
    <3> QED BY <2>2 DEF FirstOf
  <2>4. ASSUME NEW k \in DOMAIN Own(p) PROVE FirstOf(maps)[k] = Own(p)[k]
    <3>1. \A x \in DOMAIN maps : x < 1 => k \notin DOMAIN maps[x]
      BY <2>2
    <3>2. k \in DOMAIN maps[1] /\ 1 \in DOMAIN maps /\ DOMAIN maps \subseteq Nat
      BY <2>2
    <3> QED BY <2>2, <3>1, <3>2, FoundFirst
  <2>5. ASSUME NEW k \in DOMAIN zeros, k \notin DOMAIN Own(p) PROVE FirstOf(maps)[k] = 0
    <3>1. FirstOf(maps)[k] = zeros[k]
      <4> HIDE DEF zeros
      <4>1. \A x \in DOMAIN maps : x < 2 => k \notin DOMAIN maps[x]
        BY <2>2, <2>5
      <4>2. k \in DOMAIN maps[2] /\ 2 \in DOMAIN maps /\ DOMAIN maps \subseteq Nat
        BY <2>2
      <4> QED BY <2>2, <4>1, <4>2, FoundFirst
    <3> QED BY <3>1
  <2> QED BY <2>1, <2>3, <2>4, <2>5
<1>2. ASSUME NEW p \in players PROVE (CHOOSE q \in players : q.userId = p.userId) = p
  OBVIOUS
<1> HIDE DEF Rows, Own
<1>3. PlayerStatMatrix(players) =
        [key \in UNION {DOMAIN rows[p] : p \in players} |->
           [id \in {p.userId : p \in players} |->
              LET p == CHOOSE p \in players : p.userId = id IN
              IF key \in DOMAIN rows[p] THEN rows[p][key] ELSE 0]]
  BY DEF PlayerStatMatrix, Rows
<1>4. DOMAIN PlayerStatMatrix(players) = UNION {DOMAIN Rows(p) : p \in players}
  BY <1>3
<1>5. ASSUME NEW key \in DOMAIN PlayerStatMatrix(players), NEW p \in players
      PROVE  PlayerStatMatrix(players)[key][p.userId] =
               IF key \in DOMAIN Own(p) THEN Own(p)[key] ELSE 0
  <2>1. PlayerStatMatrix(players)[key][p.userId] =
          IF key \in DOMAIN rows[p] THEN rows[p][key] ELSE 0
    BY <1>2, <1>3
  <2> QED BY <1>1, <2>1
<1> QED BY <1>4, <1>5 DEF Own, Rows

=============================================================================
