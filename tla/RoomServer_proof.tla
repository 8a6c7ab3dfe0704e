-------------------------- MODULE RoomServer_proof --------------------------
(***************************************************************************)
(* Proofs about RoomServer, for any number of users, seats, connections    *)
(* and tokens, normal and resume rooms alike.                              *)
(***************************************************************************)
EXTENDS RoomServer, Room_proof

-----------------------------------------------------------------------------
(* Type correctness.  TypeOK alone is not inductive: a join looks for a     *)
(* seat below the player count, so a room that exists must have a count     *)
(* that its table can seat.                                                 *)

TypeInv == TypeOK /\ RoomOK(room)

\* What the fields of a connect token range over.
LEMMA TokenTypes ==
  ASSUME NEW t \in Tokens
  PROVE  /\ t.user \in Users /\ t.gen \in Gens /\ t.seat \in Seats \cup {NoSeat}
         /\ t.role \in Roles \cup {"spectator"}
BY TokensAssumption DEF Gens

\* The state a join leaves is well typed when the room is.
LEMMA JoinedType ==
  ASSUME TypeInv, NEW p \in Peers, NEW t \in Tokens, NEW q, Joined(p, t, q), RoomOK(room')
  PROVE  TypeInv'
BY TokenTypes DEF TypeInv, TypeOK, Joined, Speaks, RoomOK

\* A room that has just been created has a seat for its host.
LEMMA CreateOK ==
  ASSUME NEW p \in Peers, NEW t \in Tokens, t.role = "host", NEW n \in PlayerCounts,
         NEW q \in Settled(IF ResumeMode THEN AddWaiting(NewRoom(ResumeMode, n), p, t.user, "host", t.gen)
                                         ELSE AddPeer(NewRoom(ResumeMode, n), p, t.user, t.gen))
  PROVE  RoomOK(q)
<1> DEFINE r == NewRoom(ResumeMode, n)
<1>1. n \in 1..NumSeats /\ ResumeMode \in BOOLEAN
  BY PlayerCountsAssumption, ResumeModeAssumption
<1>2. RoomOK(r)
  BY <1>1, NewRoomOK
<1>3. CASE ResumeMode
  <2>1. RoomOK(AddWaiting(r, p, t.user, "host", t.gen))
    BY <1>2, TokenTypes, AddWaitingOK DEF Roles
  <2> QED BY <1>3, <2>1, SettledOK
<1>4. CASE ~ResumeMode
  <2>1. PeerIds(r) = {} /\ Occupied(r) = {} /\ r.status = "Lobby" /\ r.desired = n /\ r.resume = FALSE
    BY <1>4 DEF NewRoom, EmptyRoom, PeerIds, SeatPeers, WaitPeers, Spectators, Occupied,
                FreeSlot, NoMember
  <2>2. Cardinality(Occupied(r)) = 0
    BY <2>1, FS_EmptySet
  <2>3. CanAddPeer(r, p)
    BY <1>1, <2>1, <2>2, NumSeatsAssumption DEF CanAddPeer, HasPeer, IsFull
  <2>4. RoomOK(AddPeer(r, p, t.user, t.gen))
    BY <1>2, <2>3, TokenTypes, AddPeerOK
  <2> QED BY <1>4, <2>4, SettledOK
<1> QED BY <1>3, <1>4

\* The seat of a member token, given or found by its user, is one of the table.
LEMMA GameSeatType ==
  ASSUME TypeInv, NEW t \in Tokens
  PROVE  GameSeat(t) \in Seats \cup {NoSeat}
BY TokenTypes, ResumeSeatType DEF GameSeat, TypeInv

\* What becomes of a room when a member leaves or loses his connection.
LEMMA LeftOK ==
  ASSUME NEW r, RoomOK(r), NEW p \in Peers, NEW q \in Left(r, p) \cup Dropped(r, p)
  PROVE  RoomOK(q)
BY RemovePeerOK, DisconnectPeerOK, SettledOK, EmptyRoomOK DEF Left, Dropped, OrRemoved

\* A cancelled start leaves a well-formed room.
LEMMA CancelledOK ==
  ASSUME TypeInv, NEW r \in Cancelled
  PROVE  RoomOK(r)
<1>1. room.status = "Starting" => RoomOK(AbortStart(room))
  BY AbortStartLive DEF TypeInv, Live
<1> QED BY <1>1, RebuiltOK DEF Cancelled, TypeInv

\* A game that ends leaves a well-formed room.
LEMMA MayEndOK ==
  ASSUME NEW r, Live(r), NEW q \in MayEnd(r)
  PROVE  RoomOK(q)
BY StatusLive DEF MayEnd, Live, Statuses

\* A grace key names a seat or a waiting user of the room.
LEMMA GraceKeysType ==
  ASSUME NEW r, RoomOK(r), NEW p \in Peers
  PROVE  GraceKeys(r, p) \subseteq Keys
<1>1. UsersOf(r, p) # {} => LowestSeat(UsersOf(r, p)) \in Users
  BY PlaceOf
<1>2. ActorOf(r, p) \in Seats \cup {NoSeat}
  BY ActorType
<1> QED BY <1>1, <1>2 DEF GraceKeys, Keys

\* schedule keeps tickets and timers well typed.
LEMMA ScheduleType ==
  ASSUME TypeInv, NEW K \in SUBSET Keys, Schedule(K)
  PROVE  ticket' \in [Keys -> Nat] /\ timers' \in Seq(Timer)
<1>1. CASE K = {}
  BY <1>1 DEF Schedule, TypeInv, TypeOK
<1>2. CASE K # {}
  <2> DEFINE k == CHOOSE x \in K : TRUE
  <2>1. k \in Keys
    BY <1>2
  <2> HIDE DEF k
  <2>2. ticket[k] + 1 \in Nat
    BY <2>1 DEF TypeInv, TypeOK
  <2>3. [key |-> k, ticket |-> ticket[k] + 1] \in Timer
    BY <2>1, <2>2 DEF Timer
  <2>4. /\ ticket' = [ticket EXCEPT ![k] = ticket[k] + 1]
        /\ timers' = Append(timers, [key |-> k, ticket |-> ticket[k] + 1])
    BY <1>2 DEF Schedule, k
  <2> QED BY <2>1, <2>2, <2>3, <2>4 DEF TypeInv, TypeOK
<1> QED BY <1>1, <1>2

\* Every accepted hello puts a well-formed room in place of the old one.
LEMMA HelloType ==
  ASSUME TypeInv, NEW p \in Peers, NEW t \in Tokens, Hello(p, t)
  PROVE  TypeInv'
<1>0. RoomOK(room) /\ t.user \in Users /\ t.gen \in Gens /\ t.seat \in Seats \cup {NoSeat}
  BY TokenTypes DEF TypeInv
<1>1. CASE \E n \in PlayerCounts : HelloCreate(p, t, n)
  <2> PICK n \in PlayerCounts : HelloCreate(p, t, n)
    BY <1>1
  <2>1. RoomOK(room')
    BY CreateOK DEF HelloCreate
  <2> QED BY <2>1, JoinedType DEF HelloCreate
<1>2. CASE HelloReconnect(p, t)
  <2>1. GameSeat(t) \in Seats
    BY <1>2, GameSeatType DEF HelloReconnect
  <2>2. RoomOK(room')
    BY <1>0, <1>2, <2>1, ReconnectOK, SettledOK DEF HelloReconnect
  <2> QED BY <1>2, <2>2, JoinedType DEF HelloReconnect
<1>3. CASE HelloWait(p, t)
  <2>1. RoomOK(room')
    BY <1>0, <1>3, AddWaitingOK, SettledOK DEF HelloWait, IsMemberToken
  <2> QED BY <1>3, <2>1, JoinedType DEF HelloWait
<1>4. CASE HelloReclaim(p, t)
  <2>1. RoomOK(room')
    BY <1>0, <1>4, ReclaimOK, SettledOK DEF HelloReclaim
  <2> QED BY <1>4, <2>1, JoinedType DEF HelloReclaim
<1>5. CASE HelloSeat(p, t)
  <2>1. RoomOK(room')
    BY <1>0, <1>5, AddPeerAtSeatOK, SettledOK DEF HelloSeat
  <2> QED BY <1>5, <2>1, JoinedType DEF HelloSeat
<1>6. CASE HelloSpectate(p, t)
  <2> PICK old \in ReplacedSpectators(t.user) :
         room' \in Shown(AddSpectator(room, p, t.user, old)) /\ Joined(p, t, old)
    BY <1>6 DEF HelloSpectate
  <2>1. RoomOK(room')
    BY <1>0, AddSpectatorOK, ShownOK
  <2> QED BY <2>1, JoinedType
<1>7. CASE HelloRejected(p, t)
  <2>1. RoomOK(room')
    BY <1>0, <1>7, ShownOK DEF HelloRejected
  <2> QED BY <1>7, <2>1 DEF HelloRejected, Speaks, TypeInv, TypeOK, RoomOK, NoUser
<1> QED
  BY <1>1, <1>2, <1>3, <1>4, <1>5, <1>6, <1>7 DEF Hello

\* A request of a connection that is in the room, or is about to join it.
LEMMA RequestType ==
  ASSUME TypeInv, NEW p \in Peers, Request(p)
  PROVE  TypeInv'
<1>0. RoomOK(room)
  BY DEF TypeInv
<1>1. CASE JoinRoom(p)
  <2>1. profile[p] \in Users
    BY <1>1 DEF JoinRoom, TypeInv, TypeOK
  <2>2. RoomOK(room')
    BY <1>0, <1>1, <2>1, AddPeerOK, AddSpectatorOK, SettledOK, ShownOK DEF JoinRoom, Gens
  <2>3. members' \subseteq Peers /\ profile' \in [Peers -> Users \cup {NoUser}]
    BY <1>1 DEF JoinRoom, TypeInv, TypeOK
  <2> QED BY <1>1, <2>2, <2>3 DEF JoinRoom, TypeInv, TypeOK, RoomOK
<1>2. CASE \E n \in PlayerCounts : UpdateRoomConfig(p, n)
  <2> PICK n \in PlayerCounts : UpdateRoomConfig(p, n)
    BY <1>2
  <2>1. n \in 1..NumSeats /\ n \in Nat
    BY PlayerCountsAssumption, NumSeatsAssumption
  <2>2. RoomOK([room EXCEPT !.desired = n])
    BY <1>0, <2>1 DEF RoomOK, RoomRecord
  <2>3. RoomOK(room')
    BY <2>2, ShownOK DEF UpdateRoomConfig
  <2> QED BY <2>3 DEF UpdateRoomConfig, TypeInv, TypeOK, RoomOK
<1>3. CASE AssignRoomSeat(p)
  <2>1. RoomOK(room')
    BY <1>0, <1>3, AssignOK, UnassignOK, SettledOK DEF AssignRoomSeat, CanAssign
  <2> QED BY <1>3, <2>1 DEF AssignRoomSeat, TypeInv, TypeOK, RoomOK
<1>4. CASE StartGame(p)
  <2>1. RoomOK(BeginStart(room))
    BY <1>0, <1>4, BeginStartLive DEF StartGame, CanStart, Live
  <2>2. RoomOK(room')
    BY <1>4, <2>1, ShownOK DEF StartGame
  <2> QED BY <1>4, <2>2 DEF StartGame, TypeInv, TypeOK, RoomOK
<1>5. CASE BootstrapReady(p)
  <2> DEFINE r == [room EXCEPT !.ready = @ \cup {p}]
  <2>1. room.ready \cup {p} \in SUBSET Peers /\ Live(room)
    BY <1>0, <1>5 DEF BootstrapReady, InRoom, Exists, Live, RoomOK, RoomRecord
  <2>2. Live(r)
    BY <2>1, ReadyLive
  <2>3. RoomOK(CommitStart(r)) /\ RoomOK(r)
    BY <2>2, CommitStartLive DEF Live
  <2>4. RoomOK(room')
    BY <1>5, <2>3, SettledOK DEF BootstrapReady
  <2> QED BY <1>5, <2>4 DEF BootstrapReady, TypeInv, TypeOK, RoomOK
<1>6. CASE BootstrapFailed(p)
  <2>1. RoomOK(AbortStart(room))
    BY <1>0, <1>6, AbortStartLive DEF BootstrapFailed, InRoom, Exists, Live
  <2>2. RoomOK(room')
    BY <1>6, <2>1, RebuiltOK DEF BootstrapFailed
  <2> QED BY <1>6, <2>2 DEF BootstrapFailed, TypeInv, TypeOK, RoomOK
<1>7. CASE LeaveRoom(p)
  <2>1. RoomOK(room')
    BY <1>0, <1>7, CancelledOK, LeftOK DEF LeaveRoom
  <2> QED BY <1>7, <2>1 DEF LeaveRoom, TypeInv, TypeOK, RoomOK
<1>8. CASE ForfeitAndLeave(p)
  <2> DEFINE a == ActorOf(room, p)
  <2>1. CASE room.status = "InGame" /\ a # NoSeat /\ ~Forfeited(room, a)
    <3>1. a \in Seats /\ <<"actor", a>> \in Keys
      BY <1>0, <2>1, ActorType DEF Keys
    <3>2. Live(Forfeit(room, a))
      BY <1>0, <2>1, <3>1, ForfeitLive DEF Live
    <3>3. RoomOK(room')
      BY <1>8, <2>1, <3>2, MayEndOK, LeftOK DEF ForfeitAndLeave
    <3>4. ticket' = [ticket EXCEPT ![<<"actor", a>>] = 0]
      BY <1>8, <2>1 DEF ForfeitAndLeave
    <3>5. ticket' \in [Keys -> Nat]
      <4> HIDE DEF a
      <4> QED BY <3>1, <3>4 DEF TypeInv, TypeOK
    <3> QED BY <1>8, <3>3, <3>5 DEF ForfeitAndLeave, TypeInv, TypeOK, RoomOK
  <2>2. CASE ~(room.status = "InGame" /\ a # NoSeat /\ ~Forfeited(room, a))
    <3>1. RoomOK(room') /\ ticket' = ticket
      BY <1>0, <1>8, <2>2, LeftOK DEF ForfeitAndLeave
    <3> QED BY <1>8, <3>1 DEF ForfeitAndLeave, TypeInv, TypeOK, RoomOK
  <2> QED BY <2>1, <2>2
<1>9. CASE ActionRequest(p)
  <2>1. Live(room) /\ ActorOf(room, p) \in Seats
    BY <1>0, <1>9, ActorType DEF ActionRequest, Live
  <2>2. RoomOK(room')
    BY <1>9, <2>1, ForfeitLive, MayEndOK DEF ActionRequest, MayEnd
  <2> QED BY <1>9, <2>2 DEF ActionRequest, TypeInv, TypeOK, RoomOK
<1>10. CASE Rollback(p)
  <2> PICK i \in 0..Len(room.forfeits)-1 :
         room' \in Shown([room EXCEPT !.forfeits = SubSeq(@, 1, i)])
    BY <1>10 DEF Rollback
  <2>1. room.forfeits \in Seq(Seats) /\ Live(room)
    BY <1>0, <1>10 DEF Rollback, Live, RoomOK, RoomRecord
  <2>2. SubSeq(room.forfeits, 1, i) \in Seq(Seats)
    BY <2>1
  <2>3. RoomOK([room EXCEPT !.forfeits = SubSeq(@, 1, i)])
    BY <2>1, <2>2, ForfeitsLive DEF Live
  <2>4. RoomOK(room')
    BY <2>3, ShownOK
  <2> QED BY <1>10, <2>4 DEF Rollback, TypeInv, TypeOK, RoomOK
<1> QED
  BY <1>1, <1>2, <1>3, <1>4, <1>5, <1>6, <1>7, <1>8, <1>9, <1>10 DEF Request

\* A lost connection frees or keeps its place and may start a grace timer.
LEMMA DisconnectedType ==
  ASSUME TypeInv, NEW p \in Peers, PeerDisconnected(p)
  PROVE  TypeInv'
<1>1. CASE InRoom(p)
  <2> PICK r \in Cancelled :
         /\ room' \in IF r.status \in {"Lobby", "InGame"} THEN Dropped(r, p) ELSE Left(r, p)
         /\ Schedule(IF room'.status = "None" THEN {} ELSE GraceKeys(r, p))
    BY <1>1 DEF PeerDisconnected
  <2>1. RoomOK(r)
    BY CancelledOK
  <2>2. RoomOK(room')
    BY <2>1, LeftOK
  <2> DEFINE K == IF room'.status = "None" THEN {} ELSE GraceKeys(r, p)
  <2>3. K \in SUBSET Keys /\ Schedule(K)
    BY <2>1, GraceKeysType
  <2> HIDE DEF K
  <2>4. ticket' \in [Keys -> Nat] /\ timers' \in Seq(Timer)
    BY <2>3, ScheduleType
  <2> QED BY <2>2, <2>4 DEF PeerDisconnected, TypeInv, TypeOK, RoomOK
<1>2. CASE ~InRoom(p)
  BY <1>2 DEF PeerDisconnected, TypeInv, TypeOK
<1> QED BY <1>1, <1>2

\* A timer releases the place, or makes the player forfeit, its key names.
LEMMA TimerType ==
  ASSUME TypeInv, TimerFires
  PROVE  TypeInv'
<1> DEFINE k == Head(timers).key
<1>0. timers \in Seq(Timer) /\ timers # << >>
  BY DEF TimerFires, TypeInv, TypeOK
<1>1. k \in Keys /\ Tail(timers) \in Seq(Timer)
  <2>1. Head(timers) \in Timer /\ Tail(timers) \in Seq(Timer)
    BY <1>0
  <2> QED BY <2>1 DEF Timer
<1>2. /\ k[1] = "waiting" => k[2] \in Users
      /\ k[1] \in {"seat", "actor"} => k[2] \in Seats
  BY <1>1 DEF Keys
<1> HIDE DEF k
<1>3. LobbyTimeout(k) => RoomOK(room')
  BY <1>2, DropWaitingOK, FreeSeatOK, SettledOK, EmptyRoomOK
  DEF LobbyTimeout, OrRemoved, TypeInv, RoomOK
<1>4. GameTimeout(k) => RoomOK(room')
  <2>1. CASE k[1] = "actor" /\ room.status = "InGame"
    <3>1. Live(Forfeit(room, k[2]))
      BY <1>2, <2>1, ForfeitLive DEF TypeInv, Live
    <3> QED BY <3>1, MayEndOK, ShownOK DEF GameTimeout, TypeInv, RoomOK
  <2>2. CASE ~(k[1] = "actor" /\ room.status = "InGame")
    BY <2>2 DEF GameTimeout, TypeInv, RoomOK
  <2> QED BY <2>1, <2>2
<1>5. RoomOK(room')
  BY <1>3, <1>4 DEF TimerFires, TypeInv, RoomOK, k
<1>6. ticket' \in [Keys -> Nat]
  BY <1>1 DEF TimerFires, TypeInv, TypeOK, k
<1> QED BY <1>1, <1>5, <1>6 DEF TimerFires, TypeInv, TypeOK, RoomOK, k

\* TypeInv is preserved by every step.
LEMMA TypeInvStep == TypeInv /\ [Next]_vars => TypeInv'
<1> SUFFICES ASSUME TypeInv, [Next]_vars
             PROVE  TypeInv'
  OBVIOUS
<1>1. ASSUME NEW p \in Peers, NEW t \in Tokens, Hello(p, t)
      PROVE  TypeInv'
  BY <1>1, HelloType
<1>2. ASSUME NEW p \in Peers, Request(p) \/ PeerDisconnected(p)
      PROVE  TypeInv'
  BY <1>2, RequestType, DisconnectedType
<1>3. CASE TimerFires
  BY <1>3, TimerType
<1>4. CASE RoomListed
  BY <1>4, ShownOK DEF RoomListed, TypeInv, TypeOK, RoomOK
<1>5. CASE RemoteEnded
  BY <1>5, EmptyRoomOK DEF RemoteEnded, TypeInv, TypeOK, RoomOK
<1>6. CASE UNCHANGED vars
  BY <1>6 DEF vars, TypeInv, TypeOK, RoomOK
<1> QED BY <1>1, <1>2, <1>3, <1>4, <1>5, <1>6 DEF Next

\* Whatever the order of messages, disconnections and timers, every variable
\* stays within its type: a seat or member record is never built from a seat,
\* user or generation that does not exist (server.gd, room.gd).
THEOREM TypeCorrect == Spec => []TypeOK
<1>1. Init => TypeInv
  BY EmptyRoomOK DEF Init, TypeInv, TypeOK, RoomOK
<1>2. TypeInv => TypeOK
  BY DEF TypeInv
<1> QED BY <1>1, <1>2, TypeInvStep, PTL DEF Spec

-----------------------------------------------------------------------------
(* Where the connections are.  Neither OnePlace nor NoPhantomPeer is        *)
(* inductive alone: that a connection which leaves is out of the room       *)
(* altogether needs it to be at one place, and that one which joins gets no *)
(* second place needs it not to be in the room yet.                         *)

PlaceInv == TypeInv /\ Fit(room) /\ NoPhantomPeer

\* A game that ends moves no connection.
LEMMA MayEndShrinks ==
  ASSUME NEW r, Live(r), NEW q \in MayEnd(r)
  PROVE  RoomOK(q) /\ Shrinks(r, q)
<1>1. RoomOK(q)
  BY MayEndOK
<1>2. q.slot = r.slot /\ q.waiting = r.waiting /\ q.spectator = r.spectator
      /\ (q.status = "None" => r.status = "None")
  BY DEF MayEnd, Live, RoomOK, RoomRecord
<1> QED BY <1>1, <1>2 DEF Shrinks

\* A connection joins, e is replaced: the room and peer_to_room agree on it.
LEMMA AdmitsPlaces ==
  ASSUME PlaceInv, TypeInv', NEW p, NEW e, Admits(room, room', p, e),
         members' = (members \ {e}) \cup {p}
  PROVE  PlaceInv'
<1>1. Fit(room') /\ PeerIds(room') \subseteq members'
  BY DEF PlaceInv, Admits, NoPhantomPeer
<1> QED BY <1>1 DEF PlaceInv, NoPhantomPeer

\* Connections X go, from the room and from peer_to_room.
LEMMA LosesPlaces ==
  ASSUME PlaceInv, TypeInv', NEW X, Fit(room'), PeerIds(room') \subseteq PeerIds(room) \ X,
         members' = members \ X
  PROVE  PlaceInv'
<1>1. PeerIds(room') \subseteq members'
  BY DEF PlaceInv, NoPhantomPeer
<1> QED BY <1>1 DEF PlaceInv, NoPhantomPeer

\* No connection moves.
LEMMA SamePlaces ==
  ASSUME PlaceInv, TypeInv', NEW q, RoomOK(q), Shrinks(room, q),
         room' \in Settled(q) \cup Shown(q) \cup {q}, members' = members
  PROVE  PlaceInv'
<1>1. Shrinks(room, room')
  BY SettledShrinks, ShrinksTransitive
<1>2. Fit(room') /\ PeerIds(room') \subseteq PeerIds(room)
  BY <1>1, ShrinksFit DEF PlaceInv, TypeInv
<1> QED BY <1>2 DEF PlaceInv, NoPhantomPeer

\* No room holds no connection.
LEMMA EmptyRoomFit == Fit(EmptyRoom) /\ PeerIds(EmptyRoom) = {}
<1>1. PeerIds(EmptyRoom) = {}
  BY DEF EmptyRoom, PeerIds, SeatPeers, WaitPeers, Spectators, FreeSlot, NoMember
<1>2. PlacesDistinct(EmptyRoom)
  BY DEF EmptyRoom, PlacesDistinct, SeatPeers, WaitPeers, Spectators, FreeSlot, NoMember
<1> QED BY <1>1, <1>2, EmptyRoomOK DEF Fit

\* A connection that leaves or is lost is out of what the room becomes.
LEMMA LeftFit ==
  ASSUME NEW r, Fit(r), NEW p \in Peers, NEW q \in Left(r, p) \cup Dropped(r, p)
  PROVE  Fit(q) /\ PeerIds(q) \subseteq PeerIds(r) \ {p}
<1>1. CASE ~HasPeer(r, p)
  BY <1>1 DEF Left, Dropped, HasPeer
<1>2. CASE HasPeer(r, p)
  <2>1. ASSUME NEW x, RoomOK(x), ShrinksBy(r, x, p), q \in Settled(x) \cup {EmptyRoom}
        PROVE  Fit(q) /\ PeerIds(q) \subseteq PeerIds(r) \ {p}
    <3>1. Fit(x) /\ PeerIds(x) \subseteq PeerIds(r) \ {p}
      BY <2>1, ShrinksFit DEF ShrinksBy
    <3>2. q \in Settled(x) => Fit(q) /\ PeerIds(q) \subseteq PeerIds(x)
      BY <2>1, <3>1, SettledOK, SettledShrinks, ShrinksFit
    <3> QED BY <2>1, <3>1, <3>2, EmptyRoomFit
  <2>2. /\ RoomOK(RemovePeer(r, p)) /\ ShrinksBy(r, RemovePeer(r, p), p)
        /\ RoomOK(DisconnectPeer(r, p)) /\ ShrinksBy(r, DisconnectPeer(r, p), p)
    BY <1>2, RemovePeerOK, RemovePeerShrinks, DisconnectPeerOK, DisconnectPeerShrinks DEF Fit
  <2>3. \/ q \in Settled(RemovePeer(r, p)) \cup {EmptyRoom}
        \/ q \in Settled(DisconnectPeer(r, p)) \cup {EmptyRoom}
    BY <1>2 DEF Left, Dropped, OrRemoved
  <2> QED BY <2>1, <2>2, <2>3
<1> QED BY <1>1, <1>2

\* A cancelled start moves no connection.
LEMMA CancelledFit ==
  ASSUME PlaceInv, NEW r \in Cancelled
  PROVE  Fit(r) /\ PeerIds(r) \subseteq PeerIds(room)
<1>1. CASE room.status = "Starting"
  <2>1. Live(room)
    BY <1>1 DEF PlaceInv, TypeInv, Live
  <2>2. RoomOK(AbortStart(room)) /\ Shrinks(room, AbortStart(room))
    BY <2>1, AbortStartLive, GameShrinks DEF Live
  <2>3. RoomOK(r) /\ Shrinks(room, r)
    BY <1>1, <2>2, RebuiltOK, RebuiltShrinks, ShrinksTransitive DEF Cancelled
  <2> QED BY <2>3, ShrinksFit DEF PlaceInv
<1>2. CASE room.status # "Starting"
  BY <1>2 DEF Cancelled, PlaceInv
<1> QED BY <1>1, <1>2

\* A room that is created holds its host's connection only.
LEMMA CreateAdmits ==
  ASSUME PlaceInv, ~Exists, NEW p \in Peers, NEW t \in Tokens, t.role = "host",
         NEW n \in PlayerCounts,
         room' \in Settled(IF ResumeMode THEN AddWaiting(NewRoom(ResumeMode, n), p, t.user, "host", t.gen)
                                         ELSE AddPeer(NewRoom(ResumeMode, n), p, t.user, t.gen))
  PROVE  Admits(room, room', p, NoPeer)
<1> DEFINE r == NewRoom(ResumeMode, n)
           q == IF ResumeMode THEN AddWaiting(r, p, t.user, "host", t.gen)
                              ELSE AddPeer(r, p, t.user, t.gen)
<1>1. n \in 1..NumSeats /\ ResumeMode \in BOOLEAN
  BY PlayerCountsAssumption, ResumeModeAssumption
<1>2. /\ RoomOK(r) /\ r.slot = EmptyRoom.slot /\ r.waiting = EmptyRoom.waiting
      /\ r.spectator = EmptyRoom.spectator /\ r.status = "Lobby" /\ r.desired = n
      /\ r.resume = ResumeMode
  BY <1>1, NewRoomOK DEF NewRoom, EmptyRoom
<1> HIDE DEF r
<1>3. /\ PeerIds(r) = {} /\ PlacesDistinct(r) /\ Occupied(r) = {} /\ Waiting(r) = {}
      /\ \A u \in Users : SeatsOfUser(r, u) = {}
  BY <1>2 DEF EmptyRoom, PeerIds, PlacesDistinct, SeatPeers, WaitPeers, Spectators,
              Occupied, Waiting, SeatsOfUser, FreeSlot, NoMember
<1>4. Fit(r) /\ ~HasPeer(r, p) /\ ~IsFull(r)
  <2>1. Cardinality(Occupied(r)) = 0 /\ Cardinality(Waiting(r)) = 0
    BY <1>3, FS_EmptySet
  <2> QED BY <1>1, <1>2, <1>3, <2>1, NumSeatsAssumption DEF Fit, HasPeer, IsFull
<1>5. t.user \in Users /\ t.gen \in Gens
  BY TokenTypes
<1>6. \E e : Admits(r, q, p, e)
  <2>1. CASE ResumeMode
    <3>1. CanAddWaiting(r, p, t.user, t.gen)
      BY <1>2, <1>3, <1>4, <1>5, <2>1 DEF CanAddWaiting, HeldSeat
    <3> QED BY <1>4, <1>5, <2>1, <3>1, AddWaitingAdmits DEF Roles
  <2>2. CASE ~ResumeMode
    BY <1>2, <1>4, <1>5, <2>2, AddPeerAdmits DEF CanAddPeer
  <2> QED BY <2>1, <2>2
<1>7. Admits(r, q, p, NoPeer)
  BY <1>6, AdmitsNobodyOut
<1>8. room' \in Settled(q)
  BY DEF r
<1> HIDE DEF q
<1>9. Admits(r, room', p, NoPeer)
  BY <1>7, <1>8, AdmitsSettled
<1> QED BY <1>3, <1>9 DEF Admits

\* Every hello that joins evicts exactly the connection it replaces.
LEMMA HelloPlaces ==
  ASSUME PlaceInv, TypeInv', NEW p \in Peers, NEW t \in Tokens, Hello(p, t)
  PROVE  PlaceInv'
<1>0. Fit(room) /\ t.user \in Users /\ t.gen \in Gens /\ t.seat \in Seats \cup {NoSeat} /\ TypeInv
  BY TokenTypes DEF PlaceInv
<1>1. ASSUME NEW e, Joined(p, t, e), Admits(room, room', p, e)
      PROVE  PlaceInv'
  BY <1>1, AdmitsPlaces DEF Joined
<1>2. CASE \E n \in PlayerCounts : HelloCreate(p, t, n)
  <2> PICK n \in PlayerCounts : HelloCreate(p, t, n)
    BY <1>2
  <2>1. Admits(room, room', p, NoPeer)
    BY CreateAdmits DEF HelloCreate
  <2> QED BY <1>1, <2>1 DEF HelloCreate
<1>3. CASE HelloReconnect(p, t)
  <2> DEFINE s == GameSeat(t)
  <2>1. s \in Seats
    BY <1>0, <1>3, GameSeatType DEF HelloReconnect
  <2>2. ~HasPeer(room, p) /\ room.status # "None"
    BY <1>3 DEF HelloReconnect, CanReconnect, TakesSeat
  <2>3. Admits(room, Reconnect(room, p, t.user, s, t.role = "host", t.gen), p, room.slot[s].peer)
    BY <1>0, <2>1, <2>2, ReconnectAdmits
  <2>4. Admits(room, room', p, room.slot[s].peer)
    BY <1>3, <2>3, AdmitsSettled DEF HelloReconnect
  <2> QED BY <1>1, <1>3, <2>4 DEF HelloReconnect
<1>4. CASE HelloWait(p, t)
  <2>1. Admits(room, AddWaiting(room, p, t.user, t.role, t.gen), p, WaitingReplaces(room, t.user))
    BY <1>0, <1>4, AddWaitingAdmits DEF HelloWait, IsMemberToken
  <2>2. Admits(room, room', p, WaitingReplaces(room, t.user))
    BY <1>4, <2>1, AdmitsSettled DEF HelloWait
  <2> QED BY <1>1, <1>4, <2>2 DEF HelloWait
<1>5. CASE HelloReclaim(p, t)
  <2>1. ~HasPeer(room, p) /\ room.status # "None" /\ t.seat \in Seats
    BY <1>0, <1>5 DEF HelloReclaim, CanReclaim, TakesSeat
  <2>2. Admits(room, Reclaim(room, p, t.user, t.seat, t.gen), p, room.slot[t.seat].peer)
    BY <1>0, <2>1, ReclaimAdmits
  <2>3. Admits(room, room', p, room.slot[t.seat].peer)
    BY <1>5, <2>2, AdmitsSettled DEF HelloReclaim
  <2> QED BY <1>1, <1>5, <2>3 DEF HelloReclaim
<1>6. CASE HelloSeat(p, t)
  <2>1. Admits(room, AddPeerAtSeat(room, p, t.user, t.seat, t.gen), p, NoPeer)
    BY <1>0, <1>6, AddPeerAtSeatAdmits DEF HelloSeat
  <2>2. Admits(room, room', p, NoPeer)
    BY <1>6, <2>1, AdmitsSettled DEF HelloSeat
  <2> QED BY <1>1, <1>6, <2>2 DEF HelloSeat
<1>7. CASE HelloSpectate(p, t)
  <2> PICK old \in ReplacedSpectators(t.user) :
         room' \in Shown(AddSpectator(room, p, t.user, old)) /\ Joined(p, t, old)
    BY <1>7 DEF HelloSpectate
  <2>1. old \in Spectators(room) \/ old = NoPeer
    BY DEF ReplacedSpectators
  <2>2. Admits(room, AddSpectator(room, p, t.user, old), p, old)
    BY <1>0, <1>7, <2>1, AddSpectatorAdmits DEF HelloSpectate, CanSpectate
  <2>3. Admits(room, room', p, old)
    BY <2>2, AdmitsSettled
  <2> QED BY <1>1, <2>3
<1>8. CASE HelloRejected(p, t)
  BY <1>0, <1>8, SamePlaces, ShrinksReflexive DEF HelloRejected, TypeInv
<1> QED
  BY <1>2, <1>3, <1>4, <1>5, <1>6, <1>7, <1>8 DEF Hello

\* JoinRoom seats or admits one connection, and replaces at most a watching one.
LEMMA JoinRoomPlaces ==
  ASSUME PlaceInv, TypeInv', NEW p \in Peers, JoinRoom(p)
  PROVE  PlaceInv'
<1>1. profile[p] \in Users /\ Fit(room)
  BY DEF JoinRoom, PlaceInv, TypeInv, TypeOK
<1>2. CASE CanAddPeer(room, p) /\ room' \in Settled(AddPeer(room, p, profile[p], NoGen))
           /\ members' = members \cup {p}
  <2>1. Admits(room, AddPeer(room, p, profile[p], NoGen), p, NoPeer)
    BY <1>1, <1>2, AddPeerAdmits DEF Gens
  <2>2. Admits(room, room', p, NoPeer)
    BY <1>2, <2>1, AdmitsSettled
  <2>3. Fit(room') /\ PeerIds(room') \subseteq members'
    BY <1>2, <2>2 DEF Admits, PlaceInv, NoPhantomPeer
  <2> QED BY <2>3 DEF PlaceInv, NoPhantomPeer
<1>3. CASE CanSpectate(room, p) /\ \E old \in ReplacedSpectators(profile[p]) :
             /\ room' \in Shown(AddSpectator(room, p, profile[p], old))
             /\ members' = (members \ {old}) \cup {p}
  <2> PICK old \in ReplacedSpectators(profile[p]) :
             /\ room' \in Shown(AddSpectator(room, p, profile[p], old))
             /\ members' = (members \ {old}) \cup {p}
    BY <1>3
  <2>1. old \in Spectators(room) \/ old = NoPeer
    BY DEF ReplacedSpectators
  <2>2. Admits(room, AddSpectator(room, p, profile[p], old), p, old)
    BY <1>1, <1>3, <2>1, AddSpectatorAdmits DEF CanSpectate
  <2>3. Admits(room, room', p, old)
    BY <2>2, AdmitsSettled
  <2> QED BY <2>3, AdmitsPlaces
<1> QED BY <1>2, <1>3 DEF JoinRoom

\* No request puts a connection at two places or lets one out of peer_to_room only.
LEMMA RequestPlaces ==
  ASSUME PlaceInv, TypeInv', NEW p \in Peers, Request(p)
  PROVE  PlaceInv'
<1>0. Fit(room) /\ RoomOK(room) /\ TypeInv
  BY DEF PlaceInv, Fit
<1>1. CASE JoinRoom(p)
  BY <1>1, JoinRoomPlaces
<1>2. CASE \E n \in PlayerCounts : UpdateRoomConfig(p, n)
  <2> PICK n \in PlayerCounts : UpdateRoomConfig(p, n)
    BY <1>2
  <2> DEFINE q == [room EXCEPT !.desired = n]
  <2>1. n \in 1..NumSeats /\ n \in Nat
    BY PlayerCountsAssumption, NumSeatsAssumption
  <2>2. RoomOK(q) /\ Shrinks(room, q)
    BY <1>0, <2>1 DEF RoomOK, RoomRecord, Shrinks
  <2>3. room' \in Shown(q) /\ members' = members
    BY DEF UpdateRoomConfig
  <2> HIDE DEF q
  <2> QED BY <2>2, <2>3, SamePlaces
<1>3. CASE AssignRoomSeat(p)
  <2>1. ASSUME NEW q, Fit(q), PeerIds(q) \subseteq PeerIds(room), room' \in Settled(q)
        PROVE  PlaceInv'
    <3>1. Fit(room') /\ PeerIds(room') \subseteq PeerIds(q)
      BY <2>1, SettledOK, SettledShrinks, ShrinksFit DEF Fit
    <3>2. members' = members
      BY <1>3 DEF AssignRoomSeat
    <3>3. PeerIds(room') \subseteq PeerIds(room)
      BY <2>1, <3>1
    <3> QED BY <3>1, <3>2, <3>3 DEF PlaceInv, NoPhantomPeer
  <2> QED BY <1>0, <1>3, <2>1, AssignFit, UnassignFit DEF AssignRoomSeat
<1>4. CASE StartGame(p)
  <2>1. Live(room)
    BY <1>0, <1>4 DEF StartGame, CanStart, Live
  <2>2. RoomOK(BeginStart(room)) /\ Shrinks(room, BeginStart(room))
    BY <2>1, BeginStartLive, GameShrinks DEF Live
  <2> QED BY <1>4, <2>2, SamePlaces DEF StartGame
<1>5. CASE BootstrapReady(p)
  <2> DEFINE r == [room EXCEPT !.ready = @ \cup {p}]
  <2>1. room.ready \cup {p} \in SUBSET Peers /\ Live(room)
    BY <1>0, <1>5 DEF BootstrapReady, InRoom, Exists, Live, RoomOK, RoomRecord
  <2>2. Live(r) /\ Shrinks(room, r)
    BY <2>1, ReadyLive DEF Shrinks, Live, RoomOK, RoomRecord
  <2>3. room' \in Settled(CommitStart(r)) \cup {r} /\ members' = members
    BY <1>5 DEF BootstrapReady
  <2> HIDE DEF r
  <2>4. Live(CommitStart(r)) /\ Shrinks(room, CommitStart(r))
    BY <2>2, CommitStartLive, GameShrinks, ShrinksTransitive
  <2> QED BY <2>2, <2>3, <2>4, SamePlaces DEF Live
<1>6. CASE BootstrapFailed(p)
  <2>1. Live(room)
    BY <1>0, <1>6 DEF BootstrapFailed, InRoom, Exists, Live
  <2>2. RoomOK(AbortStart(room)) /\ Shrinks(room, AbortStart(room))
    BY <2>1, AbortStartLive, GameShrinks DEF Live
  <2>3. RoomOK(room') /\ Shrinks(room, room') /\ members' = members
    BY <1>6, <2>2, RebuiltOK, RebuiltShrinks, ShrinksTransitive DEF BootstrapFailed
  <2> QED BY <2>3, SamePlaces
<1>7. CASE LeaveRoom(p)
  <2>1. Fit(room') /\ PeerIds(room') \subseteq PeerIds(room) \ {p}
    BY <1>0, <1>7, CancelledFit, LeftFit DEF LeaveRoom, Fit, Exists
  <2> QED BY <1>7, <2>1, LosesPlaces DEF LeaveRoom
<1>8. CASE ForfeitAndLeave(p)
  <2> DEFINE a == ActorOf(room, p)
  <2>1. CASE room.status = "InGame" /\ a # NoSeat /\ ~Forfeited(room, a)
    <3>1. a \in Seats /\ Live(room)
      BY <1>0, <2>1, ActorType DEF Live
    <3> PICK r \in MayEnd(Forfeit(room, a)) : room' \in Left(r, p)
      BY <1>8, <2>1 DEF ForfeitAndLeave
    <3> HIDE DEF a
    <3>2. Live(Forfeit(room, a)) /\ Shrinks(room, Forfeit(room, a))
      BY <3>1, ForfeitLive, GameShrinks
    <3>3. RoomOK(r) /\ Shrinks(Forfeit(room, a), r)
      BY <3>2, MayEndShrinks
    <3>4. Fit(r) /\ PeerIds(r) \subseteq PeerIds(room)
      BY <1>0, <3>2, <3>3, ShrinksTransitive, ShrinksFit
    <3>5. Fit(room') /\ PeerIds(room') \subseteq PeerIds(room) \ {p}
      BY <3>4, LeftFit
    <3> QED BY <1>8, <3>5, LosesPlaces DEF ForfeitAndLeave
  <2>2. CASE ~(room.status = "InGame" /\ a # NoSeat /\ ~Forfeited(room, a))
    <3>1. room' \in Left(room, p)
      BY <1>8, <2>2 DEF ForfeitAndLeave
    <3> QED BY <1>0, <1>8, <3>1, LeftFit, LosesPlaces DEF ForfeitAndLeave
  <2> QED BY <2>1, <2>2
<1>9. CASE ActionRequest(p)
  <2> DEFINE a == ActorOf(room, p)
  <2>1. Live(room) /\ a \in Seats
    BY <1>0, <1>9, ActorType DEF ActionRequest, Live
  <2>2. room' \in MayEnd(Forfeit(room, a)) \cup MayEnd(room) /\ members' = members
    BY <1>9 DEF ActionRequest, MayEnd
  <2> HIDE DEF a
  <2>3. Live(Forfeit(room, a)) /\ Shrinks(room, Forfeit(room, a))
    BY <2>1, ForfeitLive, GameShrinks
  <2>4. RoomOK(room') /\ (Shrinks(Forfeit(room, a), room') \/ Shrinks(room, room'))
    BY <2>1, <2>2, <2>3, MayEndShrinks
  <2>5. Shrinks(room, room')
    BY <2>3, <2>4, ShrinksTransitive
  <2> QED BY <2>2, <2>4, <2>5, SamePlaces
<1>10. CASE Rollback(p)
  <2> PICK i \in 0..Len(room.forfeits)-1 :
         room' \in Shown([room EXCEPT !.forfeits = SubSeq(@, 1, i)])
    BY <1>10 DEF Rollback
  <2> DEFINE q == [room EXCEPT !.forfeits = SubSeq(@, 1, i)]
  <2>1. room.forfeits \in Seq(Seats) /\ Live(room)
    BY <1>0, <1>10 DEF Rollback, Live, RoomOK, RoomRecord
  <2>2. SubSeq(room.forfeits, 1, i) \in Seq(Seats)
    BY <2>1
  <2>3. Live(q)
    BY <2>1, <2>2, ForfeitsLive
  <2>4. Shrinks(room, q)
    BY <2>1 DEF Shrinks, Live, RoomOK, RoomRecord
  <2>5. room' \in Shown(q) /\ members' = members
    BY <1>10 DEF Rollback
  <2> HIDE DEF q
  <2> QED BY <2>3, <2>4, <2>5, SamePlaces DEF Live
<1> QED
  BY <1>1, <1>2, <1>3, <1>4, <1>5, <1>6, <1>7, <1>8, <1>9, <1>10 DEF Request

\* A lost connection goes from the room and from peer_to_room.
LEMMA DisconnectedPlaces ==
  ASSUME PlaceInv, TypeInv', NEW p \in Peers, PeerDisconnected(p)
  PROVE  PlaceInv'
<1>1. Fit(room') /\ PeerIds(room') \subseteq PeerIds(room) \ {p}
  <2>1. CASE InRoom(p)
    <3> PICK r \in Cancelled : room' \in Left(r, p) \cup Dropped(r, p)
      BY <2>1 DEF PeerDisconnected
    <3> QED BY CancelledFit, LeftFit
  <2>2. CASE ~InRoom(p)
    BY <2>2 DEF PeerDisconnected, InRoom, Exists, PlaceInv, Fit, NoPhantomPeer
  <2> QED BY <2>1, <2>2
<1> QED BY <1>1, LosesPlaces DEF PeerDisconnected

\* A grace timer moves no connection.
LEMMA TimerPlaces ==
  ASSUME PlaceInv, TypeInv', TimerFires
  PROVE  PlaceInv'
<1> DEFINE k == Head(timers).key
<1>0. timers \in Seq(Timer) /\ timers # << >> /\ Fit(room) /\ RoomOK(room) /\ members' = members
  BY DEF TimerFires, PlaceInv, TypeInv, TypeOK, Fit
<1>1. k \in Keys
  <2>1. Head(timers) \in Timer
    BY <1>0
  <2> QED BY <2>1 DEF Timer
<1>2. /\ k[1] = "waiting" => k[2] \in Users
      /\ k[1] \in {"seat", "actor"} => k[2] \in Seats
  BY <1>1 DEF Keys
<1>3. LobbyTimeout(k) \/ GameTimeout(k) \/ UNCHANGED room
  BY DEF TimerFires
<1> HIDE DEF k
<1>4. ASSUME NEW q, RoomOK(q), Shrinks(room, q), room' \in OrRemoved(IsEmpty(q), q)
      PROVE  PlaceInv'
  <2>1. CASE room' = EmptyRoom
    BY <1>0, <2>1, EmptyRoomFit DEF PlaceInv, NoPhantomPeer
  <2>2. CASE room' \in Settled(q)
    BY <1>0, <1>4, <2>2, SamePlaces
  <2> QED BY <1>4, <2>1, <2>2 DEF OrRemoved
<1>5. UNCHANGED room => PlaceInv'
  BY <1>0, SamePlaces, ShrinksReflexive
<1>6. ASSUME LobbyTimeout(k) PROVE PlaceInv'
  <2>1. CASE k[1] = "waiting" /\ WaitingReleasable(room, k[2])
    BY <1>0, <1>2, <1>4, <1>6, <2>1, DropWaitingOK, DropWaitingShrinks DEF LobbyTimeout
  <2>2. CASE k[1] = "seat" /\ SeatReleasable(room, k[2])
    BY <1>0, <1>2, <1>4, <1>6, <2>2, FreeSeatOK, FreeSeatShrinks DEF LobbyTimeout
  <2> QED BY <1>5, <1>6, <2>1, <2>2 DEF LobbyTimeout
<1>7. ASSUME GameTimeout(k) PROVE PlaceInv'
  <2>1. CASE UNCHANGED room
    BY <1>5, <2>1
  <2>2. CASE k[1] = "actor" /\ room.status = "InGame" /\ \E r \in MayEnd(Forfeit(room, k[2])) : room' \in Shown(r)
    <3> PICK r \in MayEnd(Forfeit(room, k[2])) : room' \in Shown(r)
      BY <2>2
    <3>1. k[2] \in Seats /\ Live(room)
      BY <1>0, <1>2, <2>2 DEF Live
    <3>2. Live(Forfeit(room, k[2])) /\ Shrinks(room, Forfeit(room, k[2]))
      BY <3>1, ForfeitLive, GameShrinks
    <3>3. RoomOK(r) /\ Shrinks(Forfeit(room, k[2]), r)
      BY <3>2, MayEndShrinks
    <3> QED BY <1>0, <3>2, <3>3, ShrinksTransitive, SamePlaces
  <2> QED BY <1>7, <2>1, <2>2 DEF GameTimeout
<1> QED BY <1>3, <1>5, <1>6, <1>7

\* The strengthened invariant holds in every reachable state.
LEMMA PlaceInvInvariant == Spec => []PlaceInv
<1>1. Init => PlaceInv
  <2> SUFFICES ASSUME Init PROVE PlaceInv
    OBVIOUS
  <2>1. TypeInv
    BY EmptyRoomOK DEF Init, TypeInv, TypeOK, RoomOK
  <2> QED BY <2>1, EmptyRoomFit DEF Init, PlaceInv, NoPhantomPeer
<1>2. PlaceInv /\ [Next]_vars => PlaceInv'
  <2> SUFFICES ASSUME PlaceInv, [Next]_vars
               PROVE  PlaceInv'
    OBVIOUS
  <2>0. TypeInv /\ TypeInv' /\ RoomOK(room)
    BY TypeInvStep DEF PlaceInv, TypeInv
  <2>1. ASSUME NEW p \in Peers, NEW t \in Tokens, Hello(p, t)
        PROVE  PlaceInv'
    BY <2>0, <2>1, HelloPlaces
  <2>2. ASSUME NEW p \in Peers, Request(p) \/ PeerDisconnected(p)
        PROVE  PlaceInv'
    BY <2>0, <2>2, RequestPlaces, DisconnectedPlaces
  <2>3. CASE TimerFires
    BY <2>0, <2>3, TimerPlaces
  <2>4. CASE RoomListed
    BY <2>0, <2>4, SamePlaces, ShrinksReflexive DEF RoomListed
  <2>5. CASE RemoteEnded
    BY <2>0, <2>5, EmptyRoomFit DEF RemoteEnded, PlaceInv, NoPhantomPeer
  <2>6. CASE UNCHANGED vars
    BY <2>0, <2>6 DEF vars, PlaceInv, NoPhantomPeer
  <2> QED BY <2>1, <2>2, <2>3, <2>4, <2>5, <2>6 DEF Next
<1> QED BY <1>1, <1>2, PTL DEF Spec

\* A connection never holds two seats, nor a seat and a place on the waiting
\* list or among the spectators: the maps from peer to seat, user and
\* spectator that room.gd derives lose nobody.
THEOREM ConnectionsHaveOnePlace == Spec => []OnePlace
<1>1. PlaceInv => OnePlace
  BY DEF PlaceInv, Fit, OnePlace
<1> QED BY <1>1, PlaceInvInvariant, PTL

\* A connection the room holds is always known to peer_to_room, so that its
\* disconnection frees the place: evictions, takeovers, replaced spectators
\* and removed rooms included (room_manager.gd).
THEOREM NoPhantomPeers == Spec => []NoPhantomPeer
<1>1. PlaceInv => NoPhantomPeer
  BY DEF PlaceInv
<1> QED BY <1>1, PlaceInvInvariant, PTL

-----------------------------------------------------------------------------
(* Membership follows the connections *)

\* A hello that joins adds only its own connection, which is up.
LEMMA JoinedMembersOnline ==
  ASSUME MembersOnline, NEW p \in Peers, NEW t, NEW q, Joined(p, t, q)
  PROVE  MembersOnline'
BY DEF Joined, Speaks, MembersOnline

\* peer_to_room never names a connection that is gone: a late message of a
\* closed or replaced connection finds no room, whatever happened in between
\* (server.gd on_peer_disconnected and every join of room_manager.gd).
THEOREM MembersAreOnline == Spec => []MembersOnline
<1>1. Init => MembersOnline
  BY DEF Init, MembersOnline
<1>2. MembersOnline /\ [Next]_vars => MembersOnline'
  <2> SUFFICES ASSUME MembersOnline, [Next]_vars
               PROVE  MembersOnline'
    OBVIOUS
  <2>1. ASSUME NEW p \in Peers, NEW t \in Tokens, Hello(p, t)
        PROVE  MembersOnline'
    <3>1. CASE \E n \in PlayerCounts : HelloCreate(p, t, n)
      BY <3>1, JoinedMembersOnline DEF HelloCreate
    <3>2. CASE HelloReconnect(p, t)
      BY <3>2, JoinedMembersOnline DEF HelloReconnect
    <3>3. CASE HelloWait(p, t)
      BY <3>3, JoinedMembersOnline DEF HelloWait
    <3>4. CASE HelloReclaim(p, t)
      BY <3>4, JoinedMembersOnline DEF HelloReclaim
    <3>5. CASE HelloSeat(p, t)
      BY <3>5, JoinedMembersOnline DEF HelloSeat
    <3>6. CASE HelloSpectate(p, t)
      BY <3>6, JoinedMembersOnline DEF HelloSpectate
    <3>7. CASE HelloRejected(p, t)
      BY <3>7 DEF HelloRejected, Speaks, MembersOnline
    <3> QED
      BY <2>1, <3>1, <3>2, <3>3, <3>4, <3>5, <3>6, <3>7 DEF Hello
  <2>2. ASSUME NEW p \in Peers, JoinRoom(p)
        PROVE  MembersOnline'
    BY <2>2 DEF JoinRoom, MembersOnline
  <2>3. ASSUME NEW p \in Peers, \/ \E n \in PlayerCounts : UpdateRoomConfig(p, n)
                                \/ AssignRoomSeat(p)
                                \/ StartGame(p)
                                \/ BootstrapReady(p)
                                \/ BootstrapFailed(p)
                                \/ ActionRequest(p)
                                \/ Rollback(p)
        PROVE  MembersOnline'
    BY <2>3 DEF UpdateRoomConfig, AssignRoomSeat, StartGame, BootstrapReady,
                BootstrapFailed, ActionRequest, Rollback, MembersOnline
  <2>4. ASSUME NEW p \in Peers, LeaveRoom(p) \/ ForfeitAndLeave(p)
        PROVE  MembersOnline'
    BY <2>4 DEF LeaveRoom, ForfeitAndLeave, MembersOnline
  <2>5. ASSUME NEW p \in Peers, PeerDisconnected(p)
        PROVE  MembersOnline'
    BY <2>5 DEF PeerDisconnected, MembersOnline
  <2>6. CASE TimerFires \/ RoomListed
    BY <2>6 DEF TimerFires, RoomListed, MembersOnline
  <2>7. CASE RemoteEnded
    BY <2>7 DEF RemoteEnded, MembersOnline
  <2>8. CASE UNCHANGED vars
    BY <2>8 DEF vars, MembersOnline
  <2> QED
    BY <2>1, <2>2, <2>3, <2>4, <2>5, <2>6, <2>7, <2>8 DEF Next, Request
<1> QED BY <1>1, <1>2, PTL DEF Spec

\* No seat, waiting place or spectator of the room is a connection that is
\* gone: a state broadcast never goes to, and the host is never, a dead peer.
THEOREM RoomPeersAreOnline == Spec => [](PeerIds(room) \subseteq online)
<1>1. NoPhantomPeer /\ MembersOnline => PeerIds(room) \subseteq online
  BY DEF NoPhantomPeer, MembersOnline
<1> QED BY <1>1, NoPhantomPeers, MembersAreOnline, PTL

=============================================================================
