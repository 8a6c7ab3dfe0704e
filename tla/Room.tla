-------------------------------- MODULE Room --------------------------------
(***************************************************************************)
(* The membership operations of one online room, OnlineRoom of             *)
(* server/room.gd, as pure operators from a room record to a room record.  *)
(*                                                                         *)
(* A room holds seat slots, the waiting members of a resume lobby, and      *)
(* spectators.  The maps the code derives from them (peer to seat, seat to  *)
(* peer, ...) are recomputed by _rebuild_runtime_views; only the two that   *)
(* can be out of date when they are read, host_peer_id and                  *)
(* player_id_by_peer_id, are fields here (hostPeer, mapped).               *)
(*                                                                         *)
(* Profiles (name, colour, logo), passwords and time stamps are left out.   *)
(***************************************************************************)
EXTENDS Integers, FiniteSets, Sequences

CONSTANTS
  Users,       \* user ids, positive numbers (the code sorts them)
  Peers,       \* transport connections, never reused
  NoPeer,      \* peer_id 0
  NumSeats,    \* the seats of the largest table
  BoundSeat    \* resume_participant_bindings: the seat a user left, or NoSeat

NoUser == 0
NoSeat == -1
NoGen  == -1      \* a connect token that carries no generation
Seats  == 0..NumSeats-1

ASSUME UsersAssumption    == Users \subseteq Nat \ {0} /\ IsFiniteSet(Users)
ASSUME PeersAssumption    == NoPeer \notin Peers
ASSUME NumSeatsAssumption == NumSeats \in Nat \ {0}
ASSUME BindingAssumption  == BoundSeat \in [Users -> Seats \cup {NoSeat}]

Roles      == {"host", "player"}
Statuses   == {"None", "Lobby", "Starting", "InGame", "Ended"}
SeatStates == {"FREE", "CONNECTED", "RECONNECTING", "FORFEITED"}

\* _make_seat_slot / _make_waiting_member.  A seat that has no slot is FREE,
\* a user who is not waiting has role "none"; member_status is "active"
\* exactly when the member's peer is not NoPeer.
Slot   == [state : SeatStates, role : Roles, user : Users \cup {NoUser},
           peer : Peers \cup {NoPeer}, gen : Nat]
Member == [role : Roles \cup {"none"}, peer : Peers \cup {NoPeer}, gen : Nat]

FreeSlot == [state |-> "FREE", role |-> "player", user |-> NoUser,
             peer |-> NoPeer, gen |-> 0]
NoMember == [role |-> "none", peer |-> NoPeer, gen |-> 0]

RoomRecord ==
  [status    : Statuses,
   resume    : BOOLEAN,                       \* room_mode = resume_archive
   desired   : Nat,                           \* desired_player_count
   slot      : [Seats -> Slot],
   hostSeat  : Seats \cup {NoSeat},
   hostPeer  : Peers \cup {NoPeer},
   waiting   : [Users -> Member],
   spectator : [Peers -> Users \cup {NoUser}], \* NoUser: not a spectator
   mapped    : SUBSET Peers,                  \* domain of player_id_by_peer_id
   targets   : SUBSET Peers,                  \* the pending start session
   ready     : SUBSET Peers,
   players   : Nat,                           \* players of the prepared engine
   forfeits  : Seq(Seats)]                    \* forfeit commands in the history

\* A new OnlineRoom; status "None" stands for "no room under this code".
EmptyRoom ==
  [status |-> "None", resume |-> FALSE, desired |-> 0,
   slot |-> [s \in Seats |-> FreeSlot], hostSeat |-> NoSeat,
   hostPeer |-> NoPeer, waiting |-> [u \in Users |-> NoMember],
   spectator |-> [p \in Peers |-> NoUser], mapped |-> {}, targets |-> {},
   ready |-> {}, players |-> 0, forfeits |-> << >>]

NewRoom(resume, n) ==
  [EmptyRoom EXCEPT !.status = "Lobby", !.resume = resume, !.desired = n]

-----------------------------------------------------------------------------
(* Queries *)

Occupied(r)    == {s \in Seats : r.slot[s].state # "FREE"}
Waiting(r)     == {u \in Users : r.waiting[u].role # "none"}
SeatPeers(r)   == {r.slot[s].peer : s \in Seats} \ {NoPeer}
WaitPeers(r)   == {r.waiting[u].peer : u \in Users} \ {NoPeer}
Spectators(r)  == {p \in Peers : r.spectator[p] # NoUser}
PeerIds(r)     == SeatPeers(r) \cup WaitPeers(r) \cup Spectators(r)
HasPeer(r, p)  == p \in PeerIds(r)
SeatsOf(r, p)  == {s \in Seats : r.slot[s].peer = p}
UsersOf(r, p)  == {u \in Users : r.waiting[u].peer = p}
SeatsOfUser(r, u) == {s \in Occupied(r) : r.slot[s].user = u}
Forfeited(r, s)   == \E i \in 1..Len(r.forfeits) : r.forfeits[i] = s
SlotConnected(r, s) == r.slot[s].peer # NoPeer /\ r.slot[s].state = "CONNECTED"

\* No connection is at two places: seats, waiting members, spectators.
PlacesDistinct(r) ==
  /\ \A s, t \in Seats : r.slot[s].peer = r.slot[t].peer => s = t \/ r.slot[s].peer = NoPeer
  /\ \A u, v \in Users : r.waiting[u].peer = r.waiting[v].peer => u = v \/ r.waiting[u].peer = NoPeer
  /\ \A s \in Seats, u \in Users : r.slot[s].peer = r.waiting[u].peer => r.slot[s].peer = NoPeer
  /\ Spectators(r) \cap (SeatPeers(r) \cup WaitPeers(r)) = {}

LowestSeat(S) == CHOOSE s \in S : \A t \in S : s <= t

IsFull(r) ==
  /\ r.desired > 0
  /\ Cardinality(Occupied(r))
       + (IF r.resume THEN Cardinality(Waiting(r)) ELSE 0) >= r.desired

IsEmpty(r) == Occupied(r) = {} /\ Waiting(r) = {} /\ Spectators(r) = {}

\* The seat player_id_by_peer_id gives a peer, NoSeat when it has none.
ActorOf(r, p) == IF p \in r.mapped /\ SeatsOf(r, p) # {}
                   THEN LowestSeat(SeatsOf(r, p)) ELSE NoSeat

\* can_start_game: every seat below the desired count connected, no other
\* seat taken, nobody waiting.
CanStart(r) ==
  /\ r.status = "Lobby"
  /\ r.desired > 0
  /\ r.resume => Waiting(r) = {}
  /\ Cardinality(Occupied(r)) = r.desired
  /\ \A s \in Occupied(r) : SlotConnected(r, s)
  /\ \A s \in 0..r.desired-1 : s \in Occupied(r)

-----------------------------------------------------------------------------
(* Derived views *)

\* _sync_seat_states_from_engine: a seat whose player the engine says has
\* forfeited is marked; a mark is never taken back.
Synced(r) ==
  IF r.status # "InGame" THEN r
  ELSE [r EXCEPT !.slot = [s \in Seats |->
          IF r.slot[s].state # "FREE" /\ Forfeited(r, s)
            THEN [r.slot[s] EXCEPT !.state = "FORFEITED"] ELSE r.slot[s]]]

\* _rebuild_runtime_views.  With no host seat the host is the first waiting
\* member with the host role; the order of arrival is not kept here, so it
\* may be any of them.
HostChoices(r) ==
  IF r.hostSeat # NoSeat THEN {r.slot[r.hostSeat].peer}
  ELSE IF \E u \in Users : r.waiting[u].role = "host"
         THEN {r.waiting[u].peer : u \in {v \in Users : r.waiting[v].role = "host"}}
         ELSE {NoPeer}

MappedPeers(r) == {p \in Peers : \E s \in Seats :
  r.slot[s].peer = p /\ r.slot[s].state = "CONNECTED" /\ ~Forfeited(r, s)}

Rebuilt(r) == {[r EXCEPT !.hostPeer = h, !.mapped = MappedPeers(r)] : h \in HostChoices(r)}

\* Mutant: the views are left as they were when a seat is marked.
ShownUnrebuilt(r) == {Synced(r)}

\* What broadcasting the state of the room leaves behind: to_room_state_dict
\* syncs first, and rebuilds only when a seat changed.
Shown(r) == IF Synced(r) = r THEN {r} ELSE Rebuilt(Synced(r))

\* A handler that changes the members, rebuilds, and then broadcasts.
Settled(r) == Rebuilt(Synced(r))

-----------------------------------------------------------------------------
(* Generations *)

\* Mutants: the token's generation is taken as it is; never compared.
InitialGenerationRaw(g)     == g
GenerationUnchecked(cur, g) == TRUE

InitialGeneration(g) == IF g > 0 THEN g + 1 ELSE 1

AtLeastOne(n)          == IF n < 1 THEN 1 ELSE n
GenerationOk(cur, g)   == g > 0 => g >= AtLeastOne(cur)
NextGeneration(cur, g) == IF g > 0 THEN g + 1 ELSE AtLeastOne(cur) + 1

-----------------------------------------------------------------------------
(* Joining *)

SeatedSlot(role, u, p, g) ==
  [state |-> "CONNECTED", role |-> role, user |-> u, peer |-> p, gen |-> g]

SeatAt(r, p, u, s, role, g) ==
  [r EXCEPT !.slot[s] = SeatedSlot(role, u, p, g),
            !.hostSeat = IF role = "host" THEN s ELSE @]

\* add_peer: the lowest free seat; host when no seat is the host's.
CanAddPeer(r, p) == ~HasPeer(r, p) /\ r.status = "Lobby" /\ ~IsFull(r)
PickSeat(r) == LowestSeat({s \in Seats : s < r.desired /\ s \notin Occupied(r)})
AddPeer(r, p, u, g) ==
  SeatAt(r, p, u, PickSeat(r),
         IF r.hostSeat = NoSeat THEN "host" ELSE "player", InitialGeneration(g))

\* add_peer_at_seat
CanAddPeerAtSeat(r, p, s) ==
  /\ CanAddPeer(r, p)
  /\ s \in Seats /\ s \notin Occupied(r)
  /\ r.desired > 0 => s < r.desired
AddPeerAtSeat(r, p, u, s, g) ==
  SeatAt(r, p, u, s,
         IF s = r.hostSeat \/ r.hostSeat = NoSeat THEN "host" ELSE "player",
         InitialGeneration(g))

\* reclaim_peer_at_seat (Lobby) and reconnect_player (InGame) give the seat
\* to a new connection of its user.  The old connection is evicted with it.
TakesSeat(r, p, u, s, g) ==
  /\ ~HasPeer(r, p)
  /\ s \in Occupied(r)
  /\ r.slot[s].user \in {u, NoUser}
  /\ GenerationOk(r.slot[s].gen, g)

\* Mutant: a forfeit is not looked at.
CanReconnectForfeited(r, p, u, s, g) ==
  r.status = "InGame" /\ TakesSeat(r, p, u, s, g)

CanReclaim(r, p, u, s, g) == r.status = "Lobby" /\ TakesSeat(r, p, u, s, g)
Reclaim(r, p, u, s, g) ==
  [r EXCEPT !.slot[s] = SeatedSlot(@.role, u, p, NextGeneration(@.gen, g))]

CanReconnect(r, p, u, s, g) ==
  /\ r.status = "InGame"
  /\ TakesSeat(r, p, u, s, g)
  /\ Synced(r).slot[s].state # "FORFEITED"
Reconnect(r, p, u, s, restoreHost, g) ==
  LET q == Reclaim(Synced(r), p, u, s, g)
  IN  IF restoreHost THEN [q EXCEPT !.slot[s].role = "host", !.hostSeat = s] ELSE q

\* add_spectator: a user's earlier spectating connection is replaced.  The
\* views are not rebuilt.
CanSpectate(r, p) == ~HasPeer(r, p) /\ r.status = "InGame"
AddSpectator(r, p, u, old) ==
  [r EXCEPT !.spectator = [q \in Peers |->
     IF q = p THEN u ELSE IF q = old THEN NoUser ELSE @[q]]]

-----------------------------------------------------------------------------
(* The resume lobby *)

\* Mutant: the member stays waiting.
AssignKeepsWaiting(r, u, s) ==
  LET m == r.waiting[u]
  IN  [r EXCEPT
        !.slot[s] = [state |-> IF m.peer = NoPeer THEN "RECONNECTING" ELSE "CONNECTED",
                     role |-> m.role, user |-> u, peer |-> m.peer, gen |-> m.gen],
        !.hostSeat = IF m.role = "host" THEN s ELSE @]

CanAssign(r, u, s) ==
  /\ r.status = "Lobby" /\ r.resume
  /\ u \in Waiting(r)
  /\ s \in Seats /\ s \notin Occupied(r)
  /\ r.desired > 0 => s < r.desired
\* assign_waiting_member_to_seat: a member who is away takes a RECONNECTING seat.
Assign(r, u, s) ==
  LET m == r.waiting[u]
  IN  [r EXCEPT
        !.slot[s] = [state |-> IF m.peer = NoPeer THEN "RECONNECTING" ELSE "CONNECTED",
                     role |-> m.role, user |-> u, peer |-> m.peer, gen |-> m.gen],
        !.hostSeat = IF m.role = "host" THEN s ELSE @,
        !.waiting[u] = NoMember]

CanUnassign(r, s) ==
  /\ r.status = "Lobby" /\ r.resume
  /\ s \in Occupied(r) /\ r.slot[s].user # NoUser
\* unassign_seat_to_waiting: overwrites what the user may already have waiting.
Unassign(r, s) ==
  LET t == r.slot[s]
  IN  [r EXCEPT !.waiting[t.user] = [role |-> t.role, peer |-> t.peer, gen |-> AtLeastOne(t.gen)],
                !.slot[s] = FreeSlot,
                !.hostSeat = IF s = @ THEN NoSeat ELSE @]

\* add_waiting_member.  A user who has a seat reclaims it; otherwise he waits
\* and is seated at once when his old seat is free.
ExpectedSeat(r, u) ==
  IF r.desired > 0 /\ BoundSeat[u] >= r.desired THEN NoSeat ELSE BoundSeat[u]

HeldSeat(r, u) == IF SeatsOfUser(r, u) = {} THEN NoSeat ELSE LowestSeat(SeatsOfUser(r, u))

CanAddWaiting(r, p, u, g) ==
  /\ ~HasPeer(r, p) /\ r.status = "Lobby" /\ r.resume
  /\ IF HeldSeat(r, u) # NoSeat THEN CanReclaim(r, p, u, HeldSeat(r, u), g)
     ELSE IF u \in Waiting(r) THEN GenerationOk(r.waiting[u].gen, g)
     ELSE ~IsFull(r)

WaitingReplaces(r, u) ==
  IF HeldSeat(r, u) # NoSeat THEN r.slot[HeldSeat(r, u)].peer ELSE r.waiting[u].peer

\* Mutant: a user who waits already keeps the old connection.
PutWaitingKeepsPeer(r, p, u, role, g) ==
  [r EXCEPT !.waiting[u] =
     IF u \in Waiting(r) THEN [@ EXCEPT !.gen = NextGeneration(@, g)]
     ELSE [role |-> role, peer |-> p, gen |-> InitialGeneration(g)]]

PutWaiting(r, p, u, role, g) ==
  LET m == r.waiting[u]
  IN  [r EXCEPT !.waiting[u] =
         IF u \in Waiting(r)
           THEN [role |-> m.role, peer |-> p, gen |-> NextGeneration(m.gen, g)]
           ELSE [role |-> role, peer |-> p, gen |-> InitialGeneration(g)]]

AddWaiting(r, p, u, role, g) ==
  IF HeldSeat(r, u) # NoSeat THEN Reclaim(r, p, u, HeldSeat(r, u), g)
  ELSE LET q == PutWaiting(r, p, u, role, g)
       IN  IF CanAssign(q, u, ExpectedSeat(q, u))
             THEN Assign(q, u, ExpectedSeat(q, u)) ELSE q

-----------------------------------------------------------------------------
(* Leaving *)

\* _promote_new_host_after_lobby_leave: every role back to player, then the
\* lowest seat, or else the waiting member with the lowest user id.
Demoted(r) ==
  [r EXCEPT !.hostSeat = NoSeat,
            !.slot = [s \in Seats |-> [r.slot[s] EXCEPT !.role = "player"]],
            !.waiting = [u \in Users |-> IF u \in Waiting(r)
                           THEN [r.waiting[u] EXCEPT !.role = "player"] ELSE r.waiting[u]]]

Promote(r) ==
  LET d == Demoted(r)
  IN  IF Occupied(d) # {}
        THEN [d EXCEPT !.slot[LowestSeat(Occupied(d))].role = "host",
                       !.hostSeat = LowestSeat(Occupied(d))]
      ELSE IF Waiting(d) # {}
        THEN [d EXCEPT !.waiting[LowestSeat(Waiting(d))].role = "host"]
      ELSE d

\* Mutant: nobody is promoted.
FreeSeatHostless(r, s) == [r EXCEPT !.slot[s] = FreeSlot]

FreeSeat(r, s) ==
  LET q == [r EXCEPT !.slot[s] = FreeSlot]
  IN  IF s = r.hostSeat THEN Promote(q) ELSE q

DropWaiting(r, u) ==
  LET q == [r EXCEPT !.waiting[u] = NoMember]
  IN  IF r.waiting[u].role = "host" THEN Promote(q) ELSE q

\* The seat of a peer who is gone from a started game, or who lost his
\* connection: kept for him unless the engine says he forfeited.
VacateSeat(r, s) ==
  [Synced(r) EXCEPT !.slot[s].peer = NoPeer,
                    !.slot[s].state = IF Forfeited(r, s) THEN "FORFEITED" ELSE "RECONNECTING"]

DropSpectator(r, p) == [r EXCEPT !.spectator[p] = NoUser]

\* Mutant: a seat of a game is freed like one of the lobby.
RemovePeerFrees(r, p) ==
  IF p \in Spectators(r) THEN DropSpectator(r, p)
  ELSE IF UsersOf(r, p) # {} THEN DropWaiting(r, LowestSeat(UsersOf(r, p)))
  ELSE FreeSeat(r, LowestSeat(SeatsOf(r, p)))

\* remove_peer, of a peer the room has.
RemovePeer(r, p) ==
  IF p \in Spectators(r) THEN DropSpectator(r, p)
  ELSE IF UsersOf(r, p) # {} THEN DropWaiting(r, LowestSeat(UsersOf(r, p)))
  ELSE IF r.status \in {"Lobby", "Starting"} THEN FreeSeat(r, LowestSeat(SeatsOf(r, p)))
  ELSE VacateSeat(r, LowestSeat(SeatsOf(r, p)))

\* disconnect_peer, of a peer the room has.
DisconnectPeer(r, p) ==
  IF p \in Spectators(r) THEN DropSpectator(r, p)
  ELSE IF UsersOf(r, p) # {}
    THEN [r EXCEPT !.waiting[LowestSeat(UsersOf(r, p))].peer = NoPeer]
  ELSE VacateSeat(r, LowestSeat(SeatsOf(r, p)))

\* release_reconnecting_seat / release_reconnecting_waiting_member (Lobby only)
SeatReleasable(r, s) ==
  r.status = "Lobby" /\ r.slot[s].state = "RECONNECTING" /\ r.slot[s].peer = NoPeer
WaitingReleasable(r, u) ==
  r.status = "Lobby" /\ u \in Waiting(r) /\ r.waiting[u].peer = NoPeer

-----------------------------------------------------------------------------
(* The start session and the game *)

\* begin_start_game_session and prepare_start_game
BeginStart(r) ==
  [r EXCEPT !.status = "Starting", !.targets = PeerIds(r), !.ready = {}, !.players = r.desired]

\* abort_prepared_start_game
AbortStart(r) ==
  [r EXCEPT !.status = "Lobby", !.targets = {}, !.ready = {}, !.players = 0, !.forfeits = << >>]

\* commit_prepared_start_game / _commit_started_engine
CommitStart(r) ==
  [r EXCEPT !.status = "InGame", !.targets = {}, !.ready = {}, !.forfeits = << >>,
            !.waiting = [u \in Users |-> NoMember],
            !.slot = [s \in Seats |-> IF r.slot[s].state = "FREE" THEN r.slot[s]
                        ELSE [r.slot[s] EXCEPT !.state =
                                IF r.slot[s].peer # NoPeer THEN "CONNECTED" ELSE "RECONNECTING"]]]

\* A forfeit_player command: the game is over once one player is left.
Forfeit(r, s) ==
  LET q == [r EXCEPT !.forfeits = Append(@, s)]
  IN  IF Cardinality({t \in 0..r.players-1 : ~Forfeited(q, t)}) <= 1
        THEN [q EXCEPT !.status = "Ended"] ELSE q
=============================================================================
