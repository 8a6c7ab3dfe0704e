----------------------------- MODULE RoomServer -----------------------------
(***************************************************************************)
(* The authoritative server around one room code: the RPC handlers of      *)
(* autoload/net_client/server.gd, the RoomManager they call                *)
(* (server/room_manager.gd) and the disconnect grace service               *)
(* (server_disconnect_grace_service.gd).                                   *)
(*                                                                         *)
(* The server is single threaded, so a handler is one step.  What is        *)
(* interleaved is the order in which messages, disconnections and timers   *)
(* arrive.  All grace timers are one-shot and run for the same time, so    *)
(* they fire in the order they were created.                               *)
(*                                                                         *)
(* Broadcasts leave no trace here except what building them changes in the *)
(* room (Room!Shown): a state sent to a client is never read back.         *)
(***************************************************************************)
EXTENDS Room

CONSTANTS
  Tokens,         \* the connect tokens the backend may have issued
  ResumeMode,     \* whether the room code is a resume-archive room
  PlayerCounts,   \* the player counts a host may choose
  MaxGen          \* bound: generations the model counts to

ASSUME TokensAssumption ==
  Tokens \subseteq [role : Roles \cup {"spectator"}, user : Users,
                    seat : Seats \cup {NoSeat}, gen : Nat \cup {NoGen}]
ASSUME ResumeModeAssumption   == ResumeMode \in BOOLEAN
ASSUME PlayerCountsAssumption == PlayerCounts \subseteq 1..NumSeats
ASSUME MaxGenAssumption       == MaxGen \in Nat

VARIABLES
  seen,      \* connections that were ever made
  online,    \* connections that are up
  profile,   \* _profile_by_peer_id: the user a connection said hello as
  room,      \* rooms[code]; status "None" when there is none
  members,   \* the peers that peer_to_room maps to this code
  ticket,    \* _ticket_by_key; 0 when the key is absent
  timers     \* running grace timers, the oldest first

vars == <<seen, online, profile, room, members, ticket, timers>>

\* _grace_key: a seat of the lobby, an actor of the game, a waiting user
Keys  == ({"seat", "actor"} \X Seats) \cup ({"waiting"} \X Users)
Timer == [key : Keys, ticket : Nat]

TypeOK ==
  /\ seen \subseteq Peers
  /\ online \subseteq seen
  /\ profile \in [Peers -> Users \cup {NoUser}]
  /\ room \in RoomRecord
  /\ members \subseteq Peers
  /\ ticket \in [Keys -> Nat]
  /\ timers \in Seq(Timer)

Init ==
  /\ seen = {} /\ online = {}
  /\ profile = [p \in Peers |-> NoUser]
  /\ room = EmptyRoom
  /\ members = {}
  /\ ticket = [k \in Keys |-> 0]
  /\ timers = << >>

Exists    == room.status # "None"
InRoom(p) == p \in members /\ Exists           \* get_room_by_peer(p) # null
GenBound  == \A s \in Seats : room'.slot[s].gen <= MaxGen
WaitBound == \A u \in Users : room'.waiting[u].gen <= MaxGen

-----------------------------------------------------------------------------
(* ClientHello: verify the token, set the profile, join the room.          *)

\* A hello comes from a connection that is up, or opens a new one; which
\* unused connection is picked makes no difference.
Speaks(p) ==
  /\ \/ p \in online
     \/ seen # Peers /\ p = CHOOSE q \in Peers : q \notin seen
  /\ online' = online \cup {p}
  /\ seen' = seen \cup {p}

IsMemberToken(t) == t.role \in Roles

\* The seat of a host or player token, found by user in a resume room.
GameSeat(t) == IF t.seat = NoSeat /\ room.resume THEN HeldSeat(room, t.user) ELSE t.seat

\* The grace key that a successful hello clears (with the room's new status).
HelloKeys(t, status) ==
  IF ~IsMemberToken(t) THEN {}
  ELSE IF t.seat # NoSeat THEN {<<IF status = "Lobby" THEN "seat" ELSE "actor", t.seat>>}
  ELSE IF room'.resume /\ status = "Lobby" THEN {<<"waiting", t.user>>}
  ELSE {}

\* Mutant: the connection that is replaced stays in peer_to_room.
JoinedKeepsReplaced(p, t, replaced) ==
  /\ Speaks(p)
  /\ members' = members \cup {p}
  /\ profile' = [q \in Peers |-> IF q = p THEN t.user
                                 ELSE IF q = replaced THEN NoUser ELSE profile[q]]
  /\ ticket' = [k \in Keys |-> IF k \in HelloKeys(t, room'.status) THEN 0 ELSE ticket[k]]
  /\ GenBound /\ WaitBound
  /\ UNCHANGED timers

\* The tail shared by every successful join: the replaced connection loses
\* its membership and profile, the grace key is cleared, the state is shown.
Joined(p, t, replaced) ==
  /\ Speaks(p)
  /\ members' = (members \ {replaced}) \cup {p}
  /\ profile' = [q \in Peers |-> IF q = p THEN t.user
                                 ELSE IF q = replaced THEN NoUser ELSE profile[q]]
  /\ ticket' = [k \in Keys |-> IF k \in HelloKeys(t, room'.status) THEN 0 ELSE ticket[k]]
  /\ GenBound /\ WaitBound
  /\ UNCHANGED timers

\* The host's first hello creates the room: create_room_with_code, or
\* create_resume_room_with_code, where the host waits for a seat.
HelloCreate(p, t, n) ==
  LET q == NewRoom(ResumeMode, n)
  IN  /\ ~Exists /\ p \notin members
      /\ t.role = "host"
      /\ t.seat # NoSeat \/ ResumeMode
      /\ room' \in Settled(IF ResumeMode THEN AddWaiting(q, p, t.user, "host", t.gen)
                                         ELSE AddPeer(q, p, t.user, t.gen))
      /\ Joined(p, t, NoPeer)

HelloReconnect(p, t) ==
  LET s == GameSeat(t)
  IN  /\ Exists /\ p \notin members
      /\ IsMemberToken(t)
      /\ s # NoSeat
      /\ CanReconnect(room, p, t.user, s, t.gen)
      /\ room' \in Settled(Reconnect(room, p, t.user, s, t.role = "host", t.gen))
      /\ Joined(p, t, room.slot[s].peer)

HelloWait(p, t) ==
  /\ Exists /\ p \notin members
  /\ IsMemberToken(t) /\ t.seat = NoSeat
  /\ CanAddWaiting(room, p, t.user, t.gen)
  /\ room' \in Settled(AddWaiting(room, p, t.user, t.role, t.gen))
  /\ Joined(p, t, WaitingReplaces(room, t.user))

HelloReclaim(p, t) ==
  /\ Exists /\ p \notin members
  /\ IsMemberToken(t) /\ t.seat # NoSeat
  /\ CanReclaim(room, p, t.user, t.seat, t.gen)
  /\ room' \in Settled(Reclaim(room, p, t.user, t.seat, t.gen))
  /\ Joined(p, t, room.slot[t.seat].peer)

HelloSeat(p, t) ==
  /\ Exists /\ p \notin members
  /\ IsMemberToken(t) /\ t.seat # NoSeat
  /\ CanAddPeerAtSeat(room, p, t.seat)
  /\ room' \in Settled(AddPeerAtSeat(room, p, t.user, t.seat, t.gen))
  /\ Joined(p, t, NoPeer)

\* The spectating connection of the same user that add_spectator replaces.
ReplacedSpectators(u) ==
  LET old == {q \in Spectators(room) : room.spectator[q] = u}
  IN  IF old = {} THEN {NoPeer} ELSE old

HelloSpectate(p, t) ==
  /\ Exists /\ p \notin members
  /\ t.role = "spectator"
  /\ CanSpectate(room, p)
  /\ \E old \in ReplacedSpectators(t.user) :
       /\ room' \in Shown(AddSpectator(room, p, t.user, old))
       /\ Joined(p, t, old)

\* Every other hello is rejected: the profile is erased.  A reconnection
\* that gets as far as the seat has synced the seats with the engine.
HelloAccepted(p, t) ==
  /\ p \notin members
  /\ IF ~Exists THEN t.role = "host" /\ (t.seat # NoSeat \/ ResumeMode)
     ELSE \/ IsMemberToken(t) /\ GameSeat(t) # NoSeat
               /\ CanReconnect(room, p, t.user, GameSeat(t), t.gen)
          \/ IsMemberToken(t) /\ t.seat = NoSeat /\ CanAddWaiting(room, p, t.user, t.gen)
          \/ IsMemberToken(t) /\ t.seat # NoSeat
               /\ \/ CanReclaim(room, p, t.user, t.seat, t.gen)
                  \/ CanAddPeerAtSeat(room, p, t.seat)
          \/ t.role = "spectator" /\ CanSpectate(room, p)

HelloRejected(p, t) ==
  /\ ~HelloAccepted(p, t)
  /\ Speaks(p)
  /\ profile' = [profile EXCEPT ![p] = NoUser]
  /\ IF /\ room.status = "InGame" /\ p \notin members
        /\ IsMemberToken(t) /\ GameSeat(t) \in Occupied(room)
       THEN room' \in Shown(room) ELSE UNCHANGED room
  /\ UNCHANGED <<members, ticket, timers>>

\* JoinRoom, from a connection that said hello and is in no room: a player
\* in the lobby, a spectator once the game runs.  No grace key is cleared.
JoinRoom(p) ==
  /\ p \in online \ members
  /\ profile[p] # NoUser
  /\ Exists
  /\ \/ /\ CanAddPeer(room, p)
        /\ room' \in Settled(AddPeer(room, p, profile[p], NoGen))
        /\ members' = members \cup {p}
        /\ UNCHANGED profile
     \/ /\ CanSpectate(room, p)
        /\ \E old \in ReplacedSpectators(profile[p]) :
             /\ room' \in Shown(AddSpectator(room, p, profile[p], old))
             /\ members' = (members \ {old}) \cup {p}
             /\ profile' = [q \in Peers |-> IF q = old THEN NoUser ELSE profile[q]]
  /\ UNCHANGED <<seen, online, ticket, timers>>

-----------------------------------------------------------------------------
(* The host's requests *)

IsHost(p) == InRoom(p) /\ room.hostPeer = p

\* UpdateRoomConfig is not limited to the lobby.
UpdateRoomConfig(p, n) ==
  /\ IsHost(p)
  /\ ~room.resume
  /\ n >= Cardinality(Occupied(room))
  /\ room' \in Shown([room EXCEPT !.desired = n])
  /\ UNCHANGED <<seen, online, profile, members, ticket, timers>>

AssignRoomSeat(p) ==
  /\ IsHost(p)
  /\ \E s \in Seats :
       \/ \E u \in Users : CanAssign(room, u, s) /\ room' \in Settled(Assign(room, u, s))
       \/ CanUnassign(room, s) /\ room' \in Settled(Unassign(room, s))
  /\ UNCHANGED <<seen, online, profile, members, ticket, timers>>

StartGame(p) ==
  /\ IsHost(p)
  /\ CanStart(room)
  /\ room' \in Shown(BeginStart(room))
  /\ UNCHANGED <<seen, online, profile, members, ticket, timers>>

\* MatchBootstrapReady for the pending session: the last target commits.
BootstrapReady(p) ==
  LET r == [room EXCEPT !.ready = @ \cup {p}]
  IN  /\ InRoom(p)
      /\ room.status = "Starting"
      /\ p \in room.targets
      /\ room' \in IF r.targets \subseteq r.ready THEN Settled(CommitStart(r)) ELSE {r}
      /\ UNCHANGED <<seen, online, profile, members, ticket, timers>>

BootstrapFailed(p) ==
  /\ InRoom(p)
  /\ room.status = "Starting"
  /\ room' \in Rebuilt(AbortStart(room))
  /\ UNCHANGED <<seen, online, profile, members, ticket, timers>>

-----------------------------------------------------------------------------
(* Leaving and losing the connection *)

\* RoomManager.leave_room / disconnect_peer after the room dropped the peer:
\* q is what the room became.
OrRemoved(gone, q) == IF gone THEN {EmptyRoom} ELSE Settled(q)

Left(r, p) ==
  IF ~HasPeer(r, p) THEN {r}
  ELSE OrRemoved(IsEmpty(RemovePeer(r, p)), RemovePeer(r, p))

\* A lobby or a game with members is kept when the last connection is lost.
NobodyKeeps(q) ==
  /\ PeerIds(q) = {}
  /\ q.status = "Lobby"  => Occupied(q) = {} /\ Waiting(q) = {}
  /\ q.status = "InGame" => Occupied(q) = {}

Dropped(r, p) ==
  IF ~HasPeer(r, p) THEN {r}
  ELSE LET q == DisconnectPeer(r, p) IN OrRemoved(NobodyKeeps(q) \/ IsEmpty(q), q)

\* A pending start is cancelled first.
Cancelled == IF room.status = "Starting" THEN Rebuilt(AbortStart(room)) ELSE {room}

LeaveRoom(p) ==
  /\ p \in members
  /\ IF Exists THEN \E r \in Cancelled : room' \in Left(r, p) ELSE UNCHANGED room
  /\ members' = members \ {p}
  /\ UNCHANGED <<seen, online, profile, ticket, timers>>

\* The game may reach its end with any command, and with the commands the
\* server executes for forfeited players (server_drain_forfeited_auto_steps).
MayEnd(r) == {r, [r EXCEPT !.status = "Ended"]}

\* ForfeitAndLeaveRoom: in a game the player forfeits first.  A pending
\* start is not cancelled.
ForfeitAndLeave(p) ==
  LET a == ActorOf(room, p)
  IN  /\ InRoom(p)
      /\ members' = members \ {p}
      /\ IF room.status = "InGame" /\ a # NoSeat /\ ~Forfeited(room, a)
           THEN /\ \E r \in MayEnd(Forfeit(room, a)) : room' \in Left(r, p)
                /\ ticket' = [ticket EXCEPT ![<<"actor", a>>] = 0]
           ELSE room' \in Left(room, p) /\ UNCHANGED ticket
      /\ UNCHANGED <<seen, online, profile, timers>>

\* resolve_target: the grace key of a peer that is about to go.
GraceKeys(r, p) ==
  IF r.status = "Lobby" /\ UsersOf(r, p) # {} THEN {<<"waiting", LowestSeat(UsersOf(r, p))>>}
  ELSE IF r.status \in {"Lobby", "InGame"} /\ ActorOf(r, p) # NoSeat
    THEN {<<IF r.status = "Lobby" THEN "seat" ELSE "actor", ActorOf(r, p)>>}
  ELSE {}

\* schedule: the next ticket of the key, and a timer bound to it.
Schedule(keys) ==
  IF keys = {} THEN UNCHANGED <<ticket, timers>>
  ELSE LET k == CHOOSE x \in keys : TRUE
       IN  /\ ticket' = [ticket EXCEPT ![k] = @ + 1]
           /\ timers' = Append(timers, [key |-> k, ticket |-> ticket[k] + 1])

\* on_peer_disconnected
PeerDisconnected(p) ==
  /\ p \in online
  /\ online' = online \ {p}
  /\ profile' = [profile EXCEPT ![p] = NoUser]
  /\ members' = members \ {p}
  /\ IF InRoom(p)
       THEN \E r \in Cancelled :
              /\ room' \in IF r.status \in {"Lobby", "InGame"} THEN Dropped(r, p) ELSE Left(r, p)
              /\ Schedule(IF room'.status = "None" THEN {} ELSE GraceKeys(r, p))
       ELSE UNCHANGED <<room, ticket, timers>>
  /\ UNCHANGED seen

-----------------------------------------------------------------------------
(* Grace timers *)

\* Mutants: a seat that is taken counts as connected; seats are not looked at.
TargetWaits(k) == k[1] = "waiting" /\ room.waiting[k[2]].peer # NoPeer
TargetSeated(k) ==
  IF k[1] = "waiting" THEN room.waiting[k[2]].peer # NoPeer ELSE k[2] \in Occupied(room)

\* _is_target_connected
TargetConnected(k) ==
  IF k[1] = "waiting" THEN room.waiting[k[2]].peer # NoPeer
  ELSE \E p \in room.mapped : room.slot[k[2]].peer = p

\* _handle_lobby_timeout
LobbyTimeout(k) ==
  IF k[1] = "waiting" /\ WaitingReleasable(room, k[2])
    THEN LET q == DropWaiting(room, k[2]) IN room' \in OrRemoved(IsEmpty(q), q)
  ELSE IF k[1] = "seat" /\ SeatReleasable(room, k[2])
    THEN LET q == FreeSeat(room, k[2]) IN room' \in OrRemoved(IsEmpty(q), q)
  ELSE UNCHANGED room

\* _handle_in_game_timeout
GameTimeout(k) ==
  IF k[1] = "actor" /\ room.status = "InGame" /\ ~Forfeited(room, k[2])
    THEN \E r \in MayEnd(Forfeit(room, k[2])) : room' \in Shown(r)
    ELSE UNCHANGED room

\* Mutant: the ticket is erased before it is compared.
TimerErasesFirst ==
  LET k == Head(timers).key
  IN  /\ timers # << >>
      /\ timers' = Tail(timers)
      /\ ticket' = [ticket EXCEPT ![k] = 0]
      /\ IF ticket[k] # Head(timers).ticket \/ ~Exists \/ TargetConnected(k) THEN UNCHANGED room
         ELSE IF room.status = "Lobby" THEN LobbyTimeout(k)
         ELSE GameTimeout(k)
      /\ UNCHANGED <<seen, online, profile, members>>

\* _on_timeout
TimerFires ==
  LET k == Head(timers).key
  IN  /\ timers # << >>
      /\ timers' = Tail(timers)
      /\ IF ticket[k] # Head(timers).ticket THEN UNCHANGED <<ticket, room>>
         ELSE /\ ticket' = [ticket EXCEPT ![k] = 0]
              /\ IF ~Exists \/ TargetConnected(k) THEN UNCHANGED room
                 ELSE IF room.status = "Lobby" THEN LobbyTimeout(k)
                 ELSE GameTimeout(k)
      /\ UNCHANGED <<seen, online, profile, members>>

-----------------------------------------------------------------------------
(* The game *)

\* ActionRequest of a player who has not forfeited: he may forfeit, or the
\* command may end the game; no other effect is visible here.  An ended game
\* shows its state, and a sync does nothing then.
ActionRequest(p) ==
  LET a == ActorOf(room, p)
  IN  /\ InRoom(p) /\ room.status = "InGame"
      /\ a # NoSeat /\ ~Forfeited(room, a)
      /\ room' \in MayEnd(Forfeit(room, a)) \cup {[room EXCEPT !.status = "Ended"]}
      /\ UNCHANGED <<seen, online, profile, members, ticket, timers>>

\* RewindToTurnStart, RollbackLastCommand and an approved proposal cut the
\* history, and with it the latest forfeits; rollback_to_command_index does
\* not touch the seats.
Rollback(p) ==
  /\ InRoom(p) /\ room.status = "InGame"
  /\ ActorOf(room, p) # NoSeat
  /\ \E i \in 0..Len(room.forfeits)-1 :
       room' \in Shown([room EXCEPT !.forfeits = SubSeq(@, 1, i)])
  /\ UNCHANGED <<seen, online, profile, members, ticket, timers>>

\* A room list, a directory entry or a snapshot is built from the room.
RoomListed ==
  /\ Exists
  /\ room' \in Shown(room)
  /\ UNCHANGED <<seen, online, profile, members, ticket, timers>>

\* force_remove_room, when the backend reports the room as ended.
RemoteEnded ==
  /\ Exists
  /\ room' = EmptyRoom
  /\ members' = {}
  /\ UNCHANGED <<seen, online, profile, ticket, timers>>

-----------------------------------------------------------------------------
Hello(p, t) ==
  \/ \E n \in PlayerCounts : HelloCreate(p, t, n)
  \/ HelloReconnect(p, t)
  \/ HelloWait(p, t)
  \/ HelloReclaim(p, t)
  \/ HelloSeat(p, t)
  \/ HelloSpectate(p, t)
  \/ HelloRejected(p, t)

Request(p) ==
  \/ JoinRoom(p)
  \/ \E n \in PlayerCounts : UpdateRoomConfig(p, n)
  \/ AssignRoomSeat(p)
  \/ StartGame(p)
  \/ BootstrapReady(p)
  \/ BootstrapFailed(p)
  \/ LeaveRoom(p)
  \/ ForfeitAndLeave(p)
  \/ ActionRequest(p)
  \/ Rollback(p)

Next ==
  \/ \E p \in Peers, t \in Tokens : Hello(p, t)
  \/ \E p \in Peers : Request(p) \/ PeerDisconnected(p)
  \/ TimerFires
  \/ RoomListed
  \/ RemoteEnded

Spec == Init /\ [][Next]_vars

\* SceneTree timers fire: nothing else is promised to happen.
FairSpec == Spec /\ WF_vars(TimerFires)

-----------------------------------------------------------------------------
(* Properties *)

\* peer_to_room and the room agree on who is in it, through evictions,
\* replaced connections, leaves, releases and removals: a peer that only one
\* of them knows would be stuck in a room, or act in one it is not in.
RosterAgreement == members = PeerIds(room)

\* In a resume room, where a user may hold a seat and wait at once, the weaker
\* half: the room never keeps a connection that would not be cleaned up when it
\* closes.
NoPhantomPeer == PeerIds(room) \subseteq members

\* A connection is in one place: on one seat, or waiting as one user, or
\* watching.  The peer-keyed maps of the room would silently lose a second.
OnePlace == PlacesDistinct(room)

\* No member, and so no seat, host or spectator, is a connection that is
\* gone, whatever raced with its disconnection.
MembersOnline == members \subseteq online

\* A seat is CONNECTED exactly when a connection holds it, unless it is
\* forfeited; a free seat holds nothing.
SeatStateAgrees == \A s \in Seats :
  /\ room.slot[s].state = "CONNECTED" => room.slot[s].peer # NoPeer
  /\ room.slot[s].state \in {"FREE", "RECONNECTING"} => room.slot[s].peer = NoPeer

\* The views a handler reads before they are rebuilt are never out of date,
\* but for a forfeit not yet seen: the host is the one the seats name, and
\* those who may act are those on a live seat.
ViewsFresh ==
  room.status \in {"Lobby", "Starting", "InGame"} =>
    /\ room.hostPeer \in HostChoices(room)
    /\ MappedPeers(room) = {p \in room.mapped : LET a == ActorOf(room, p)
                                                IN  a # NoSeat /\ ~Forfeited(room, a)}

\* A normal lobby with a player in it has a host seat, taken and marked so:
\* without one nobody may start the game or change the configuration.
LobbyHasHost ==
  room.status \in {"Lobby", "Starting"} /\ ~room.resume /\ Occupied(room) # {} =>
    /\ room.hostSeat \in Occupied(room)
    /\ \A s \in Occupied(room) : room.slot[s].role = "host" <=> s = room.hostSeat

\* A timer that will find its ticket.
Armed(k) == \E i \in 1..Len(timers) :
  timers[i].key = k /\ timers[i].ticket = ticket[k] /\ ticket[k] # 0

\* A seat kept for a player who lost his connection in a normal lobby always
\* has a grace timer that will release it, whatever tickets were cleared,
\* reissued or overtaken: otherwise the lobby stays full and never starts.
LobbySeatCovered ==
  room.status = "Lobby" /\ ~room.resume =>
    \A s \in Seats : room.slot[s].state = "RECONNECTING" => Armed(<<"seat", s>>)

\* The seats, through reclaims, reconnections, evictions, releases, forfeits
\* and rollbacks, implement the lease.
SeatKind == [FREE |-> "free", CONNECTED |-> "held", RECONNECTING |-> "away", FORFEITED |-> "lost"]
LeaseOf(t) == [kind |-> SeatKind[t.state], user |-> t.user, gen |-> t.gen]
Lease == INSTANCE SeatLease WITH lease <- [s \in Seats |-> LeaseOf(room.slot[s])]
ImplementsLease == Lease!Spec

\* To the jobs of the server, which know a room by its status, it lives as they
\* take it to: a game that runs goes on or ends, nothing goes back to the lobby.
LifeStatus == [None |-> "none", Lobby |-> "Lobby", Starting |-> "Lobby",
               InGame |-> "InGame", Ended |-> "Ended"]
Life == INSTANCE RoomLife WITH Code <- {0}, status <- [c \in {0} |-> LifeStatus[room.status]]
ImplementsLife == Life!Spec

\* A game, running or over, has a seat that is taken, whoever left while it was
\* being started or since: a room without one counts as empty and is removed.
GameOn(r)  == r.status \in {"InGame", "Ended"}
GameSeated == GameOn(room) => Occupied(room) # {}

\* As long as a player's forfeit is in the history of the game, no connection
\* takes his seat, whatever the seat looks like after rollbacks and syncs.
ForfeitHolds ==
  [][\A s \in Seats : Forfeited(room, s) =>
       room'.slot[s].peer \in {room.slot[s].peer, NoPeer}]_vars

\* A grace timer takes nothing from a player who is there: neither his seat nor
\* his connection, and he does not forfeit, whichever disconnection it was for.
TimersSparePresent ==
  [][Len(timers') < Len(timers) =>
       \A s \in Seats : SlotConnected(room, s) /\ ~Forfeited(room, s) =>
         /\ SlotConnected(room', s) /\ ~Forfeited(room', s)
         /\ room'.slot[s].peer = room.slot[s].peer]_vars

\* A lobby whose host is away gets a host who is there, if anyone is.
LobbyHostReturns ==
  (room.status = "Lobby" /\ SeatPeers(room) # {} /\ room.hostPeer = NoPeer)
    ~> (room.status # "Lobby" \/ SeatPeers(room) = {} \/ room.hostPeer # NoPeer)

\* A player who lost his connection in a game comes back or forfeits; until
\* then the others may have to wait for his turn.
AwayResolved == \A s \in Seats :
  (room.status = "InGame" /\ room.slot[s].state = "RECONNECTING" /\ Armed(<<"actor", s>>))
    ~> (room.status # "InGame" \/ room.slot[s].state # "RECONNECTING")
=============================================================================
