-------------------------- MODULE RoomLobby_proof --------------------------
(***************************************************************************)
(* What holds of a room between its broadcasts: the lobby of a normal room *)
(* has a host and waits for nobody in vain, the views of a room are never  *)
(* out of date when they are read, a grace timer takes nothing from a      *)
(* player who is there, and a normal room agrees with peer_to_room on who  *)
(* is in it.                                                               *)
(*                                                                         *)
(* RoomInv says of the seats what every operation keeps, ViewInv of the    *)
(* views what every broadcast restores; Quiet(r, q, E) that from r to q no *)
(* seat but those of E falls vacant in a lobby, Spares(r, q, e) that every *)
(* connection but e stays where it is.                                     *)
(***************************************************************************)
EXTENDS RoomLease_proof

InLobby(r) == r.status \in {"Lobby", "Starting"}

\* The host seat and the roles of the seats name the same seat, if one is taken.
Hosted(r) ==
  /\ Occupied(r) = {} => r.hostSeat = NoSeat
  /\ Occupied(r) # {} => r.hostSeat \in Occupied(r)
  /\ \A s \in Occupied(r) : r.slot[s].role = "host" <=> s = r.hostSeat

\* A normal lobby is hosted; a start is pending only with every player there.
RoomInv(r) ==
  /\ Sound(r)
  /\ InLobby(r) /\ ~r.resume => Hosted(r)
  /\ r.status = "Starting" => \A s \in Seats : r.slot[s].state # "RECONNECTING"

ConnectedPeers(r) == {p \in Peers : \E s \in Seats :
  r.slot[s].peer = p /\ r.slot[s].state = "CONNECTED"}

\* The views are those of the seats; a forfeit not yet seen does not count.
ViewInv(r) ==
  r.status \in {"Lobby", "Starting", "InGame"} =>
    r.hostPeer \in HostChoices(r) /\ r.mapped = ConnectedPeers(r)

\* In a lobby no seat but those of E has become one that is kept for somebody away.
Quiet(r, q, E) ==
  InLobby(q) /\ ~q.resume =>
    \A s \in Seats \ E : q.slot[s].state = "RECONNECTING" =>
      r.slot[s].state = "RECONNECTING" /\ InLobby(r) /\ ~r.resume

\* An operation on the seats, and one whose views are broadcast.
Keeps(r, q, E) == RoomInv(q) /\ Quiet(r, q, E)
Goes(r, q, E)  == Keeps(r, q, E) /\ ViewInv(q)

-----------------------------------------------------------------------------
(* Broadcasts *)

\* Nothing happens to a room that stays as it is.
LEMMA KeepsReflexive ==
  ASSUME NEW r, RoomInv(r)
  PROVE  Keeps(r, r, {})
BY DEF Keeps, Quiet

\* A quiet step may precede any other.
LEMMA KeepsThenKeeps ==
  ASSUME NEW r, NEW q, NEW x, NEW E, Keeps(r, q, {}), Keeps(q, x, E)
  PROVE  Keeps(r, x, E)
BY DEF Keeps, Quiet

\* What leaves the seats, their host and the room's mode alone is quiet.
LEMMA SameTableKeeps ==
  ASSUME NEW r, RoomInv(r), NEW q, Sound(q),
         \A s \in Seats : q.slot[s].state = r.slot[s].state /\ q.slot[s].role = r.slot[s].role,
         q.hostSeat = r.hostSeat, q.resume = r.resume, InLobby(q) => InLobby(r),
         q.status = "Starting" => \A s \in Seats : r.slot[s].state # "RECONNECTING"
  PROVE  Keeps(r, q, {})
<1>1. Occupied(q) = Occupied(r)
  BY DEF Occupied
<1>2. Hosted(r) => Hosted(q)
  BY <1>1 DEF Hosted, Occupied
<1> QED BY <1>2 DEF Keeps, RoomInv, Quiet

\* A room that is in a game, or gone, has no lobby.
LEMMA GameKeeps ==
  ASSUME NEW r, NEW q, Sound(q), ~InLobby(q), NEW E
  PROVE  Keeps(r, q, E)
BY DEF Keeps, RoomInv, Quiet, InLobby

\* Nothing is claimed of the lobby of a resume room.
LEMMA ResumeKeeps ==
  ASSUME NEW r, NEW q, Sound(q), q.status = "Lobby", q.resume, NEW E
  PROVE  Keeps(r, q, E)
BY DEF Keeps, RoomInv, Quiet

\* Syncing the seats with the engine concerns no lobby.
LEMMA SyncedKeeps ==
  ASSUME NEW r, RoomInv(r)
  PROVE  Keeps(r, Synced(r), {})
<1>1. CASE r.status # "InGame"
  BY <1>1, KeepsReflexive DEF Synced
<1>2. CASE r.status = "InGame"
  <2>1. Synced(r).status = "InGame"
    BY <1>2 DEF Synced, RoomInv, Sound, RoomOK, RoomRecord
  <2>2. Sound(Synced(r))
    BY SyncedLoses DEF RoomInv, LosesTo
  <2> QED BY <2>1, <2>2, GameKeeps DEF InLobby
<1> QED BY <1>1, <1>2

\* A room whose views are rebuilt after a sync has views that are up to date.
LEMMA SettledGoes ==
  ASSUME NEW r, NEW x, NEW E, Keeps(r, x, E), NEW q \in Settled(x)
  PROVE  Goes(r, q, E)
<1> DEFINE y == Synced(x)
<1>1. RoomInv(y) /\ RoomOK(y)
  BY SyncedKeeps DEF Keeps, RoomInv, Sound
<1>2. Sound(q) /\ RoomOK(q)
  BY <1>1, RebuiltLoses DEF Settled, RoomInv, LosesTo, Sound
<1>3. q.hostPeer \in HostChoices(y) /\ q.mapped = MappedPeers(y)
  BY <1>1 DEF Settled, Rebuilt, RoomOK, RoomRecord
<1>4. /\ q.slot = y.slot /\ q.hostSeat = y.hostSeat /\ q.waiting = y.waiting
      /\ q.status = y.status /\ q.resume = y.resume /\ q.forfeits = y.forfeits
  BY <1>1 DEF Settled, Rebuilt, RoomOK, RoomRecord
<1>5. q.status = x.status /\ q.resume = x.resume
      /\ (x.status # "InGame" => y = x)
  BY <1>4 DEF Synced, Keeps, RoomInv, Sound, RoomOK, RoomRecord
<1>6. ASSUME y.status \in {"Lobby", "Starting", "InGame"}
      PROVE  \A s \in Seats : y.slot[s].state = "CONNECTED" => ~Forfeited(y, s)
  <2>1. CASE y.status # "InGame"
    BY <1>1, <1>6, <2>1 DEF RoomInv, Sound, SeatInv, Forfeited
  <2>2. CASE y.status = "InGame"
    <3>1. x.status = "InGame" /\ RoomOK(x)
      BY <1>4, <1>5, <2>2 DEF Keeps, RoomInv, Sound
    <3>2. /\ y.forfeits = x.forfeits
          /\ \A s \in Seats : y.slot[s] = IF x.slot[s].state # "FREE" /\ Forfeited(x, s)
               THEN [x.slot[s] EXCEPT !.state = "FORFEITED"] ELSE x.slot[s]
      BY <3>1 DEF Synced, RoomOK, RoomRecord
    <3>3. \A s \in Seats : x.slot[s] \in Slot
      BY <3>1, SlotTypes
    <3> HIDE DEF y
    <3>4. ASSUME NEW s \in Seats, y.slot[s].state = "CONNECTED" PROVE ~Forfeited(x, s)
      BY <3>2, <3>3, <3>4 DEF Slot
    <3> QED BY <3>2, <3>4 DEF Forfeited
  <2> QED BY <2>1, <2>2
<1> HIDE DEF y
<1>7. ViewInv(q)
  BY <1>3, <1>4, <1>6 DEF ViewInv, HostChoices, MappedPeers, ConnectedPeers
<1>8. Keeps(y, q, {})
  <2>1. q.status = "Starting" => \A s \in Seats : y.slot[s].state # "RECONNECTING"
    BY <1>1, <1>4 DEF RoomInv
  <2> QED BY <1>1, <1>2, <1>4, <2>1, SameTableKeeps DEF InLobby
<1>9. RoomInv(q)
  BY <1>8 DEF Keeps
<1>10. Quiet(r, q, E)
  BY <1>4, <1>5 DEF Keeps, Quiet, InLobby
<1> QED BY <1>7, <1>9, <1>10 DEF Goes, Keeps

\* Building a state rebuilds the views only when a seat changed.
LEMMA ShownGoes ==
  ASSUME NEW r, NEW x, NEW E, Goes(r, x, E), NEW q \in Shown(x) \cup {x}
  PROVE  Goes(r, q, E)
BY SettledGoes DEF Shown, Settled, Goes

\* Outside a game, rebuilding the views is all that a broadcast does.
LEMMA RebuiltGoes ==
  ASSUME NEW r, NEW x, NEW E, Keeps(r, x, E), x.status # "InGame", NEW q \in Rebuilt(x)
  PROVE  Goes(r, q, E)
BY SettledGoes DEF Settled, Synced

\* The views of a room whose seats, waiting members and views stay.
LEMMA SameViews ==
  ASSUME NEW r, ViewInv(r), NEW q, q.slot = r.slot, q.waiting = r.waiting,
         q.hostSeat = r.hostSeat, q.hostPeer = r.hostPeer, q.mapped = r.mapped,
         q.status \in {"Lobby", "Starting", "InGame"} => r.status \in {"Lobby", "Starting", "InGame"}
  PROVE  ViewInv(q)
BY DEF ViewInv, HostChoices, ConnectedPeers

\* No room is quiet, and has nothing to show.
LEMMA EmptiedGoes ==
  ASSUME NEW r, NEW E
  PROVE  Goes(r, EmptyRoom, E)
<1>1. Sound(EmptyRoom) /\ EmptyRoom.status = "None"
  BY EmptyRoomOK DEF Sound, SeatInv, SlotFits, EmptyRoom, FreeSlot, NoMember
<1> QED BY <1>1, GameKeeps DEF Goes, ViewInv, InLobby
-----------------------------------------------------------------------------
(* Joining *)

\* A player is put on a free seat, as the host exactly when there is none.
LEMMA SeatAtKeeps ==
  ASSUME NEW r, RoomInv(r), r.status = "Lobby", NEW p \in Peers, NEW u \in Users,
         NEW s \in Seats, s \notin Occupied(r), NEW g \in Nat, g >= 1,
         NEW role \in Roles, ~r.resume => (role = "host" <=> r.hostSeat = NoSeat)
  PROVE  Keeps(r, SeatAt(r, p, u, s, role, g), {})
<1> DEFINE q == SeatAt(r, p, u, s, role, g)
<1>1. RoomOK(r) /\ Sound(q) /\ q.status = "Lobby"
  BY SeatAtMoves DEF RoomInv, Sound, MovesTo
<1>2. /\ q.resume = r.resume /\ q.slot[s].state = "CONNECTED" /\ q.slot[s].role = role
      /\ \A t \in Seats \ {s} : q.slot[t] = r.slot[t]
      /\ q.hostSeat = IF role = "host" THEN s ELSE r.hostSeat
  BY <1>1 DEF SeatAt, SeatedSlot, RoomOK, RoomRecord
<1> HIDE DEF q
<1>3. Occupied(q) = Occupied(r) \cup {s}
  BY <1>2 DEF Occupied
<1>4. ASSUME Hosted(r), role = "host" <=> r.hostSeat = NoSeat PROVE Hosted(q)
  <2>1. CASE r.hostSeat = NoSeat
    <3>1. Occupied(r) = {}
      BY <1>4, <2>1, SeatsFacts DEF Hosted, Occupied
    <3> QED BY <1>2, <1>3, <1>4, <2>1, <3>1 DEF Hosted
  <2>2. CASE r.hostSeat # NoSeat
    <3>1. Occupied(r) # {} /\ role # "host" /\ q.hostSeat = r.hostSeat
      BY <1>2, <1>4, <2>2 DEF Hosted
    <3>2. r.hostSeat \in Occupied(r) /\ r.hostSeat # s
      BY <1>4, <3>1 DEF Hosted
    <3>3. ASSUME NEW t \in Occupied(q) PROVE q.slot[t].role = "host" <=> t = q.hostSeat
      <4>1. CASE t = s
        BY <1>2, <3>1, <3>2, <4>1
      <4>2. CASE t # s
        BY <1>2, <1>3, <1>4, <3>1, <3>3, <4>2 DEF Hosted, Occupied
      <4> QED BY <4>1, <4>2
    <3> QED BY <1>3, <3>1, <3>2, <3>3 DEF Hosted
  <2> QED BY <2>1, <2>2
<1>5. RoomInv(q)
  BY <1>1, <1>2, <1>4 DEF RoomInv, InLobby
<1>6. Quiet(r, q, {})
  BY <1>2 DEF Quiet, InLobby
<1> QED BY <1>5, <1>6 DEF Keeps, q

\* add_peer and add_peer_at_seat make a host of the first player.
LEMMA AddPeerKeeps ==
  ASSUME NEW r, RoomInv(r), NEW p \in Peers, NEW u \in Users, NEW g \in Gens
  PROVE  /\ CanAddPeer(r, p) => Keeps(r, AddPeer(r, p, u, g), {})
         /\ \A s \in Seats : CanAddPeerAtSeat(r, p, s) =>
              /\ Keeps(r, AddPeerAtSeat(r, p, u, s, g), {})
              /\ AddPeerAtSeat(r, p, u, s, g).slot[s].state = "CONNECTED"
<1>0. InitialGeneration(g) \in Nat /\ InitialGeneration(g) >= 1 /\ RoomOK(r)
  BY GenerationType, GenerationGrows DEF RoomInv, Sound
<1>1. ASSUME CanAddPeer(r, p)
      PROVE  Keeps(r, AddPeer(r, p, u, g), {})
  <2>1. PickSeat(r) \in Seats /\ PickSeat(r) \notin Occupied(r) /\ r.status = "Lobby"
    BY <1>0, <1>1, PickSeatType DEF CanAddPeer
  <2> QED BY <1>0, <2>1, SeatAtKeeps DEF AddPeer, Roles
<1>2. ASSUME NEW s \in Seats, CanAddPeerAtSeat(r, p, s)
      PROVE  /\ Keeps(r, AddPeerAtSeat(r, p, u, s, g), {})
             /\ AddPeerAtSeat(r, p, u, s, g).slot[s].state = "CONNECTED"
  <2>1. s \notin Occupied(r) /\ r.status = "Lobby"
    BY <1>2 DEF CanAddPeerAtSeat, CanAddPeer
  <2>2. ~r.resume => s # r.hostSeat
    BY <2>1, SeatsFacts DEF RoomInv, InLobby, Hosted
  <2>3. Keeps(r, AddPeerAtSeat(r, p, u, s, g), {})
    BY <1>0, <2>1, <2>2, SeatAtKeeps DEF AddPeerAtSeat, Roles
  <2>4. AddPeerAtSeat(r, p, u, s, g).slot[s].state = "CONNECTED"
    BY <1>0 DEF AddPeerAtSeat, SeatAt, SeatedSlot, RoomOK, RoomRecord
  <2> QED BY <2>3, <2>4
<1> QED BY <1>1, <1>2

\* reclaim_peer_at_seat leaves the roles alone.
LEMMA ReclaimKeeps ==
  ASSUME NEW r, RoomInv(r), r.status = "Lobby", NEW p \in Peers, NEW u \in Users,
         NEW s \in Seats, NEW g \in Gens, Takes(r, u, s, g)
  PROVE  /\ Keeps(r, Reclaim(r, p, u, s, g), {})
         /\ Reclaim(r, p, u, s, g).slot[s].state = "CONNECTED"
<1> DEFINE q == Reclaim(r, p, u, s, g)
<1>1. RoomOK(r) /\ Sound(q) /\ q.status = "Lobby"
  BY ReclaimMoves DEF RoomInv, Sound, MovesTo
<1>2. /\ q.resume = r.resume /\ q.hostSeat = r.hostSeat
      /\ q.slot[s].state = "CONNECTED" /\ q.slot[s].role = r.slot[s].role
      /\ \A t \in Seats \ {s} : q.slot[t] = r.slot[t]
  BY <1>1 DEF Reclaim, SeatedSlot, RoomOK, RoomRecord
<1> HIDE DEF q
<1>3. Occupied(q) = Occupied(r)
  BY <1>2 DEF Occupied, Takes
<1>4. Hosted(r) => Hosted(q)
  BY <1>2, <1>3 DEF Hosted, Occupied
<1>5. RoomInv(q)
  BY <1>1, <1>2, <1>4 DEF RoomInv, InLobby
<1>6. Quiet(r, q, {})
  BY <1>1, <1>2 DEF Quiet, InLobby
<1> QED BY <1>2, <1>5, <1>6 DEF Keeps, q

\* reconnect_player belongs to the game.
LEMMA ReconnectGoes ==
  ASSUME NEW r, RoomInv(r), NEW p \in Peers, NEW u \in Users, NEW s \in Seats,
         NEW b, NEW g \in Gens, CanReconnect(r, p, u, s, g),
         NEW x \in Settled(Reconnect(r, p, u, s, b, g))
  PROVE  Goes(r, x, {}) /\ x.status = "InGame"
<1> DEFINE q == Reconnect(r, p, u, s, b, g)
<1>0. RoomOK(r) /\ RoomOK(Synced(r)) /\ Synced(r).status = "InGame"
  <2>1. RoomOK(r) /\ r.status = "InGame"
    BY DEF RoomInv, Sound, CanReconnect
  <2> QED BY <2>1, SyncedOK DEF Synced, RoomOK, RoomRecord
<1>1. RoomOK(q) /\ q.status = "InGame"
  <2> DEFINE c == Reclaim(Synced(r), p, u, s, g)
  <2>1. RoomOK(c) /\ c.status = "InGame"
    BY <1>0, ReclaimOK DEF Reclaim, RoomOK, RoomRecord
  <2>2. q \in {c, [c EXCEPT !.slot[s].role = "host", !.hostSeat = s]}
    BY DEF Reconnect
  <2>3. RoomOK(q)
    BY <1>0, ReconnectOK
  <2> HIDE DEF c, q
  <2>4. q.status = c.status
    BY <2>1, <2>2 DEF RoomOK, RoomRecord
  <2> QED BY <2>1, <2>3, <2>4
<1>2. Sound(q)
  BY ReconnectMoves DEF RoomInv
<1>3. Keeps(r, q, {})
  BY <1>1, <1>2, GameKeeps DEF InLobby
<1>4. Goes(r, x, {})
  BY <1>3, SettledGoes
<1>5. RoomOK(Synced(q)) /\ Synced(q).status = "InGame"
  <2> HIDE DEF q
  <2>1. RoomOK(Synced(q))
    BY <1>1, SyncedOK
  <2> QED BY <1>1, <2>1 DEF Synced, RoomOK, RoomRecord
<1>6. x.status = "InGame"
  BY <1>5 DEF Settled, Rebuilt, RoomOK, RoomRecord
<1> QED BY <1>4, <1>6
-----------------------------------------------------------------------------
(* Leaving *)

\* Passing the host role on leaves the room hosted, and every seat as it was.
LEMMA PromoteHosts ==
  ASSUME NEW r, Sound(r)
  PROVE  /\ Hosted(Promote(r))
         /\ Promote(r).status = r.status /\ Promote(r).resume = r.resume
         /\ \A s \in Seats : Promote(r).slot[s].state = r.slot[s].state
<1> DEFINE d == Demoted(r)
           q == Promote(r)
           l == LowestSeat(Occupied(d))
<1>1. RoomOK(r) /\ RoomOK(d)
  BY DemotedOK DEF Sound
<1>2. /\ d.status = r.status /\ d.resume = r.resume /\ d.hostSeat = NoSeat
      /\ \A s \in Seats : d.slot[s].state = r.slot[s].state /\ d.slot[s].role = "player"
  <2>1. /\ d.status = r.status /\ d.resume = r.resume /\ d.hostSeat = NoSeat
        /\ \A s \in Seats : d.slot[s] = [r.slot[s] EXCEPT !.role = "player"]
    BY <1>1 DEF Demoted, RoomOK, RoomRecord
  <2>2. \A s \in Seats : r.slot[s] \in Slot
    BY <1>1, SlotTypes
  <2> HIDE DEF d
  <2> QED BY <2>1, <2>2 DEF Slot
<1> HIDE DEF d
<1>3. CASE Occupied(d) # {}
  <2>1. l \in Occupied(d) /\ l \in Seats
    BY <1>3, SeatsFacts, LowestSeatIsLeast DEF Occupied
  <2>2. q = [d EXCEPT !.slot[l].role = "host", !.hostSeat = l]
    BY <1>3 DEF Promote, d
  <2> HIDE DEF q, l
  <2>3. /\ q.status = d.status /\ q.resume = d.resume /\ q.hostSeat = l
        /\ q.slot[l] = [d.slot[l] EXCEPT !.role = "host"]
        /\ \A s \in Seats \ {l} : q.slot[s] = d.slot[s]
    BY <1>1, <2>1, <2>2 DEF RoomOK, RoomRecord
  <2>4. q.slot[l].role = "host" /\ q.slot[l].state = d.slot[l].state
    BY <1>1, <2>1, <2>3, SlotTypes DEF Slot
  <2>5. Occupied(q) = Occupied(d)
    BY <2>3, <2>4 DEF Occupied
  <2>6. Hosted(q)
    BY <1>2, <2>1, <2>3, <2>4, <2>5 DEF Hosted, Occupied
  <2> QED BY ZenonT(30), <1>2, <2>3, <2>4, <2>6 DEF q
<1>4. CASE Occupied(d) = {}
  <2>1. q = d \/ \E u \in Users : q = [d EXCEPT !.waiting[u].role = "host"]
    BY <1>4, SeatsFacts, LowestSeatIsLeast DEF Promote, d, Waiting
  <2> HIDE DEF q
  <2>2. q.slot = d.slot /\ q.hostSeat = NoSeat /\ q.status = d.status /\ q.resume = d.resume
    BY <1>1, <1>2, <2>1 DEF RoomOK, RoomRecord
  <2>3. Hosted(q)
    BY <1>4, <2>2 DEF Hosted, Occupied
  <2> QED BY <1>2, <2>2, <2>3 DEF q
<1> QED BY <1>3, <1>4

\* Freeing a seat passes the host role on when it was the host's.
LEMMA FreeSeatKeeps ==
  ASSUME NEW r, RoomInv(r), InLobby(r), NEW s \in Seats, s \in Occupied(r)
  PROVE  Keeps(r, FreeSeat(r, s), {}) /\ FreeSeat(r, s).slot[s].state = "FREE"
<1> DEFINE q == [r EXCEPT !.slot[s] = FreeSlot]
           f == FreeSeat(r, s)
<1>1. RoomOK(r) /\ Sound(f)
  BY FreeSeatLoses DEF RoomInv, Sound, LosesTo
<1>2. RoomOK(q)
  BY <1>1, FreeTypes DEF RoomOK, RoomRecord
<1>3. /\ q.status = r.status /\ q.resume = r.resume /\ q.forfeits = r.forfeits
      /\ q.waiting = r.waiting /\ q.hostSeat = r.hostSeat
      /\ q.slot[s] = FreeSlot /\ \A t \in Seats \ {s} : q.slot[t] = r.slot[t]
  BY <1>1 DEF RoomOK, RoomRecord
<1> HIDE DEF q
<1>4. Sound(q)
  BY <1>2, <1>3 DEF RoomInv, Sound, SeatInv, SlotFits, FreeSlot
<1>5. f = IF s = r.hostSeat THEN Promote(q) ELSE q
  BY DEF FreeSeat, q
<1>6. ~r.resume => Hosted(f)
  <2>1. CASE s = r.hostSeat
    BY <1>4, <1>5, <2>1, PromoteHosts
  <2>2. ASSUME s # r.hostSeat, ~r.resume PROVE Hosted(f)
    <3>1. Hosted(r) /\ r.hostSeat \in Occupied(r)
      BY <2>2 DEF RoomInv, Hosted
    <3>2. Occupied(q) = Occupied(r) \ {s}
      BY <1>3 DEF Occupied, FreeSlot
    <3>3. Hosted(q)
      BY <1>3, <2>2, <3>1, <3>2 DEF Hosted, Occupied
    <3> QED BY <1>5, <2>2, <3>3
  <2> QED BY <2>1, <2>2
<1>7. /\ f.status = r.status /\ f.resume = r.resume
      /\ \A t \in Seats : f.slot[t].state = q.slot[t].state
  BY <1>3, <1>4, <1>5, PromoteHosts
<1> HIDE DEF f
<1>8. \A t \in Seats : f.slot[t].state = "RECONNECTING" => r.slot[t].state = "RECONNECTING"
  BY <1>3, <1>7 DEF FreeSlot
<1>9. RoomInv(f)
  BY <1>1, <1>6, <1>7, <1>8 DEF RoomInv, InLobby
<1>10. Quiet(r, f, {})
  BY <1>7, <1>8 DEF Quiet, InLobby
<1> QED BY <1>3, <1>7, <1>9, <1>10 DEF Keeps, f, FreeSlot

\* Freeing a seat of a lobby leaves a lobby.
LEMMA FreeSeatStays ==
  ASSUME NEW r, RoomInv(r), NEW s \in Seats
  PROVE  FreeSeat(r, s).status = r.status
<1> DEFINE q == [r EXCEPT !.slot[s] = FreeSlot]
<1>1. RoomOK(r)
  BY DEF RoomInv, Sound
<1>2. RoomOK(q) /\ q.status = r.status
  BY <1>1, FreeTypes DEF RoomOK, RoomRecord
<1>3. Sound(q)
  BY <1>1, <1>2 DEF RoomInv, Sound, SeatInv, SlotFits, FreeSlot, RoomOK, RoomRecord
<1> HIDE DEF q
<1>4. Promote(q).status = q.status
  BY <1>3, PromoteHosts
<1> QED BY <1>2, <1>4 DEF FreeSeat, q

\* Dropping a waiting member touches no seat but to pass the host role on.
LEMMA DropWaitingKeeps ==
  ASSUME NEW r, RoomInv(r), NEW u \in Users
  PROVE  Keeps(r, DropWaiting(r, u), {})
<1> DEFINE q == [r EXCEPT !.waiting[u] = NoMember]
           f == DropWaiting(r, u)
<1>1. RoomOK(r) /\ Sound(f)
  BY DropWaitingLoses DEF RoomInv, Sound, LosesTo
<1>2. RoomOK(q)
  BY <1>1, FreeTypes DEF RoomOK, RoomRecord
<1>3. /\ q.status = r.status /\ q.resume = r.resume /\ q.forfeits = r.forfeits
      /\ q.slot = r.slot /\ q.hostSeat = r.hostSeat
      /\ q.waiting[u] = NoMember /\ \A v \in Users \ {u} : q.waiting[v] = r.waiting[v]
  BY <1>1 DEF RoomOK, RoomRecord
<1> HIDE DEF q
<1>4. Sound(q)
  BY <1>2, <1>3 DEF RoomInv, Sound, SeatInv, NoMember
<1>5. f = IF r.waiting[u].role = "host" THEN Promote(q) ELSE q
  BY DEF DropWaiting, q
<1>6. Hosted(r) => Hosted(q)
  BY <1>3 DEF Hosted, Occupied
<1>7. /\ f.status = r.status /\ f.resume = r.resume /\ (Hosted(r) => Hosted(f))
      /\ \A t \in Seats : f.slot[t].state = r.slot[t].state
  BY <1>3, <1>4, <1>5, <1>6, PromoteHosts
<1> HIDE DEF f
<1>8. RoomInv(f)
  BY <1>1, <1>7 DEF RoomInv, InLobby
<1>9. Quiet(r, f, {})
  BY <1>7 DEF Quiet, InLobby
<1> QED BY <1>8, <1>9 DEF Keeps, f

\* In the lobby, only the seat that is vacated becomes one that is waited for.
LEMMA VacateSeatKeeps ==
  ASSUME NEW r, RoomInv(r), r.status # "Starting", NEW s \in Seats, r.slot[s].peer # NoPeer
  PROVE  Keeps(r, VacateSeat(r, s), {s})
<1> DEFINE q == VacateSeat(r, s)
<1>1. RoomOK(r) /\ Sound(q) /\ SlotFits(r.slot[s]) /\ RoomOK(q)
  BY VacateSeatLoses DEF RoomInv, Sound, SeatInv, LosesTo
<1>2. CASE r.status # "Lobby"
  <2>1. RoomOK(Synced(r)) /\ Synced(r).status = r.status
    <3>1. RoomOK(Synced(r))
      BY <1>1, SyncedOK
    <3> QED BY <1>1, <3>1 DEF Synced, RoomOK, RoomRecord
  <2>2. q.status = r.status
    BY <2>1 DEF VacateSeat, RoomOK, RoomRecord
  <2> QED BY <1>1, <1>2, <2>2, GameKeeps DEF InLobby
<1>3. CASE r.status = "Lobby"
  <2>1. /\ q.status = "Lobby" /\ q.resume = r.resume /\ q.hostSeat = r.hostSeat
        /\ q.slot[s] = [r.slot[s] EXCEPT !.peer = NoPeer,
                          !.state = IF Forfeited(r, s) THEN "FORFEITED" ELSE "RECONNECTING"]
        /\ \A t \in Seats \ {s} : q.slot[t] = r.slot[t]
    <3>1. Synced(r) = r
      BY <1>3 DEF Synced
    <3> QED BY <1>1, <1>3, <3>1 DEF VacateSeat, RoomOK, RoomRecord
  <2> HIDE DEF q
  <2>2. r.slot[s] \in Slot
    BY <1>1, SlotTypes
  <2>3. q.slot[s].role = r.slot[s].role /\ q.slot[s].state # "FREE" /\ r.slot[s].state # "FREE"
    BY <1>1, <2>1, <2>2 DEF Slot, SlotFits
  <2>4. Occupied(q) = Occupied(r)
    BY ZenonT(30), <2>1, <2>3 DEF Occupied
  <2>5. Hosted(r) => Hosted(q)
    <3>1. \A t \in Seats : q.slot[t].role = r.slot[t].role
      BY <2>1, <2>3
    <3>2. Occupied(r) \subseteq Seats
      BY DEF Occupied
    <3> QED BY <2>1, <2>4, <3>1, <3>2 DEF Hosted
  <2>6. RoomInv(q)
    BY <1>1, <1>3, <2>1, <2>5 DEF RoomInv, InLobby
  <2>7. Quiet(r, q, {s})
    BY <1>3, <2>1 DEF Quiet, InLobby
  <2> QED BY <2>6, <2>7 DEF Keeps, q
<1> QED BY <1>2, <1>3

\* A spectator who goes leaves the lobby alone.
LEMMA DropSpectatorKeeps ==
  ASSUME NEW r, RoomInv(r), NEW p \in Peers
  PROVE  Keeps(r, DropSpectator(r, p), {})
<1> DEFINE q == DropSpectator(r, p)
<1>1. Sound(q) /\ RoomOK(r)
  BY DropSpectatorLoses DEF RoomInv, LosesTo, Sound
<1>2. q.slot = r.slot /\ q.status = r.status /\ q.hostSeat = r.hostSeat /\ q.resume = r.resume
  BY <1>1 DEF DropSpectator, RoomOK, RoomRecord
<1> HIDE DEF q
<1>3. q.status = "Starting" => \A s \in Seats : r.slot[s].state # "RECONNECTING"
  BY <1>2 DEF RoomInv
<1>4. Keeps(r, q, {})
  BY <1>1, <1>2, <1>3, SameTableKeeps DEF InLobby
<1> QED BY <1>4 DEF q

\* remove_peer vacates no seat of a lobby, disconnect_peer that of the connection.
LEMMA GoneKeeps ==
  ASSUME NEW r, RoomInv(r), NEW p \in Peers, HasPeer(r, p)
  PROVE  /\ Keeps(r, RemovePeer(r, p), {})
         /\ r.status # "Starting" => Keeps(r, DisconnectPeer(r, p), SeatsOf(r, p))
         /\ ~InLobby(r) => Keeps(r, DisconnectPeer(r, p), {})
<1>0. RoomOK(r) /\ \A q : Keeps(r, q, {}) => Keeps(r, q, SeatsOf(r, p))
  BY DEF RoomInv, Sound, Keeps, Quiet
<1>1. CASE p \in Spectators(r)
  BY <1>0, <1>1, DropSpectatorKeeps DEF RemovePeer, DisconnectPeer
<1>2. CASE p \notin Spectators(r) /\ UsersOf(r, p) # {}
  <2> DEFINE u == LowestSeat(UsersOf(r, p))
             q == [r EXCEPT !.waiting[u].peer = NoPeer]
  <2>1. u \in Users
    BY <1>0, <1>2, PlaceOf
  <2>2. RemovePeer(r, p) = DropWaiting(r, u) /\ DisconnectPeer(r, p) = q
    BY <1>2 DEF RemovePeer, DisconnectPeer
  <2>3. Sound(q)
    BY <2>2, GoneLoses DEF RoomInv, LosesTo
  <2> HIDE DEF u
  <2>4. q.slot = r.slot /\ q.status = r.status /\ q.hostSeat = r.hostSeat /\ q.resume = r.resume
    BY <1>0 DEF RoomOK, RoomRecord
  <2> HIDE DEF q
  <2>5. q.status = "Starting" => \A s \in Seats : r.slot[s].state # "RECONNECTING"
    BY <2>4 DEF RoomInv
  <2>6. Keeps(r, q, {})
    BY <2>3, <2>4, <2>5, SameTableKeeps DEF InLobby
  <2> QED BY <1>0, <2>1, <2>2, <2>6, DropWaitingKeeps
<1>3. CASE p \notin Spectators(r) /\ UsersOf(r, p) = {}
  <2> DEFINE s == LowestSeat(SeatsOf(r, p))
  <2>1. s \in Seats /\ r.slot[s].peer = p /\ p # NoPeer
    BY <1>0, <1>3, SeatOf
  <2>2. /\ RemovePeer(r, p) = IF InLobby(r) THEN FreeSeat(r, s) ELSE VacateSeat(r, s)
        /\ DisconnectPeer(r, p) = VacateSeat(r, s)
    BY <1>3 DEF RemovePeer, DisconnectPeer, InLobby
  <2> HIDE DEF s
  <2>3. s \in Occupied(r) /\ s \in SeatsOf(r, p)
    BY <2>1 DEF RoomInv, Sound, SeatInv, SlotFits, Occupied, SeatsOf
  <2>4. ASSUME ~InLobby(r) PROVE Keeps(r, VacateSeat(r, s), {})
    <3>1. Sound(VacateSeat(r, s))
      BY <2>1, VacateSeatLoses DEF RoomInv, LosesTo
    <3>2. ~InLobby(VacateSeat(r, s))
      <4>1. RoomOK(Synced(r)) /\ Synced(r).status = r.status
        <5>1. RoomOK(Synced(r))
          BY <1>0, SyncedOK
        <5> QED BY <1>0, <5>1 DEF Synced, RoomOK, RoomRecord
      <4>2. VacateSeat(r, s).status = r.status
        BY <4>1 DEF VacateSeat, RoomOK, RoomRecord
      <4> QED BY <2>4, <4>2 DEF InLobby
    <3> QED BY <3>1, <3>2, GameKeeps
  <2>5. r.status # "Starting" => Keeps(r, VacateSeat(r, s), SeatsOf(r, p))
    BY <2>1, <2>3, VacateSeatKeeps DEF Keeps, Quiet
  <2> QED BY <2>1, <2>2, <2>3, <2>4, <2>5, FreeSeatKeeps
<1> QED BY <1>1, <1>2, <1>3

\* A member who leaves, or whose connection is lost.
LEMMA LeftGoes ==
  ASSUME NEW r, RoomInv(r), ViewInv(r), NEW p \in Peers
  PROVE  /\ \A q \in Left(r, p) : Goes(r, q, {})
         /\ r.status # "Starting" => \A q \in Dropped(r, p) : Goes(r, q, SeatsOf(r, p))
         /\ ~InLobby(r) => \A q \in Dropped(r, p) : Goes(r, q, {})
<1>1. CASE ~HasPeer(r, p)
  BY <1>1, KeepsReflexive DEF Left, Dropped, Goes, Keeps, Quiet
<1>2. CASE HasPeer(r, p)
  BY <1>2, GoneKeeps, SettledGoes, EmptiedGoes DEF Left, Dropped, OrRemoved
<1> QED BY <1>1, <1>2

-----------------------------------------------------------------------------
(* Every step of the server, but for a lost connection, vacates no seat of  *)
(* a lobby.                                                                 *)

\* A room is created with its host on a seat, or waiting for one.
LEMMA CreateGoes ==
  ASSUME ~Exists, NEW p \in Peers, NEW t \in Tokens, t.role = "host", NEW n \in PlayerCounts,
         NEW x \in Settled(IF ResumeMode THEN AddWaiting(NewRoom(ResumeMode, n), p, t.user, "host", t.gen)
                                         ELSE AddPeer(NewRoom(ResumeMode, n), p, t.user, t.gen))
  PROVE  Goes(room, x, {})
<1> DEFINE r == NewRoom(ResumeMode, n)
           q == IF ResumeMode THEN AddWaiting(r, p, t.user, "host", t.gen)
                              ELSE AddPeer(r, p, t.user, t.gen)
<1>1. n \in 1..NumSeats /\ ResumeMode \in BOOLEAN
  BY PlayerCountsAssumption, ResumeModeAssumption
<1>2. /\ RoomOK(r) /\ r.slot = EmptyRoom.slot /\ r.waiting = EmptyRoom.waiting
      /\ r.spectator = EmptyRoom.spectator /\ r.status = "Lobby" /\ r.desired = n
      /\ r.resume = ResumeMode /\ r.forfeits = << >> /\ r.hostSeat = NoSeat
  BY <1>1, NewRoomOK DEF NewRoom, EmptyRoom
<1> HIDE DEF r
<1>3. /\ PeerIds(r) = {} /\ Occupied(r) = {} /\ Waiting(r) = {}
      /\ \A u \in Users : SeatsOfUser(r, u) = {}
      /\ \A s \in Seats : r.slot[s] = FreeSlot
  BY <1>2 DEF EmptyRoom, PeerIds, SeatPeers, WaitPeers, Spectators,
              Occupied, Waiting, SeatsOfUser, FreeSlot, NoMember
<1>4. ~HasPeer(r, p) /\ ~IsFull(r)
  <2>1. Cardinality(Occupied(r)) = 0 /\ Cardinality(Waiting(r)) = 0
    BY <1>3, FS_EmptySet
  <2> QED BY <1>1, <1>2, <1>3, <2>1, NumSeatsAssumption DEF HasPeer, IsFull
<1>5. t.user \in Users /\ t.gen \in Gens
  BY TokenTypes
<1>6. Sound(r)
  BY <1>2, <1>3 DEF Sound, SeatInv, SlotFits, EmptyRoom, FreeSlot, NoMember
<1>7. Keeps(room, r, {})
  BY <1>2, <1>3, <1>6 DEF Keeps, RoomInv, Hosted, Occupied, Quiet, FreeSlot
<1>8. Keeps(room, q, {})
  <2>1. CASE ResumeMode
    <3>1. CanAddWaiting(r, p, t.user, t.gen)
      BY <1>2, <1>3, <1>4, <1>5, <2>1 DEF CanAddWaiting, HeldSeat
    <3>2. Sound(q) /\ q.status = "Lobby"
      BY <1>5, <1>6, <2>1, <3>1, AddWaitingMoves DEF Roles, MovesTo
    <3>3. q.resume
      BY <1>2, <1>5, <2>1, ResumeStays DEF Roles
    <3> HIDE DEF q
    <3> QED BY <3>2, <3>3, ResumeKeeps
  <2>2. CASE ~ResumeMode
    BY <1>2, <1>4, <1>5, <1>7, <2>2, AddPeerKeeps, KeepsThenKeeps DEF CanAddPeer, Keeps
  <2> QED BY <1>1, <2>1, <2>2
<1>9. x \in Settled(q)
  BY DEF r
<1> HIDE DEF q
<1> QED BY <1>8, <1>9, SettledGoes

\* A spectator who comes leaves the lobby alone, and the views as they were.
LEMMA AddSpectatorGoes ==
  ASSUME NEW r, RoomInv(r), ViewInv(r), NEW p \in Peers, NEW u \in Users, NEW old,
         NEW x \in Shown(AddSpectator(r, p, u, old))
  PROVE  Goes(r, x, {})
<1> DEFINE q == AddSpectator(r, p, u, old)
<1>1. RoomOK(r) /\ RoomOK(q)
  BY AddSpectatorOK DEF RoomInv, Sound
<1>2. /\ q.slot = r.slot /\ q.status = r.status /\ q.hostSeat = r.hostSeat /\ q.resume = r.resume
      /\ q.forfeits = r.forfeits /\ q.waiting = r.waiting /\ q.hostPeer = r.hostPeer
      /\ q.mapped = r.mapped
  BY <1>1 DEF AddSpectator, RoomOK, RoomRecord
<1> HIDE DEF q
<1>3. Sound(q)
  BY <1>1, <1>2, OtherFields DEF RoomInv, LosesTo
<1>4. q.status = "Starting" => \A s \in Seats : r.slot[s].state # "RECONNECTING"
  BY <1>2 DEF RoomInv
<1>5. Keeps(r, q, {})
  BY <1>2, <1>3, <1>4, SameTableKeeps DEF InLobby
<1>6. ViewInv(q)
  BY <1>2, SameViews
<1> QED BY <1>5, <1>6, ShownGoes DEF Goes, q

\* The seat a hello names is not one that is waited for afterwards.
SeatTaken(t) ==
  IsMemberToken(t) /\ t.seat # NoSeat /\ room'.status = "Lobby" /\ ~room'.resume =>
    room'.slot[t.seat].state # "RECONNECTING"

\* A hello vacates no seat, and takes the one it names.
LEMMA HelloGoes ==
  ASSUME TypeInv, RoomInv(room), ViewInv(room), NEW p \in Peers, NEW t \in Tokens, Hello(p, t)
  PROVE  /\ Goes(room, room', {})
         /\ HelloRejected(p, t) \/ \E e : Joined(p, t, e) /\ SeatTaken(t)
<1>0. /\ t.user \in Users /\ t.gen \in Gens /\ t.seat \in Seats \cup {NoSeat}
      /\ RoomOK(room) /\ Sound(room)
  BY TokenTypes DEF RoomInv, Sound
<1>1. CASE \E n \in PlayerCounts : HelloCreate(p, t, n)
  <2>1. Goes(room, room', {}) /\ Joined(p, t, NoPeer) /\ ~Exists
    BY <1>1, CreateGoes DEF HelloCreate
  <2>2. SeatTaken(t)
    BY <1>0, <2>1 DEF SeatTaken, Goes, Keeps, Quiet, InLobby, Exists
  <2> QED BY <2>1, <2>2
<1>2. CASE HelloReconnect(p, t)
  <2>1. GameSeat(t) \in Seats
    BY <1>2, GameSeatType DEF HelloReconnect
  <2>2. Goes(room, room', {}) /\ room'.status = "InGame"
    BY <1>0, <1>2, <2>1, ReconnectGoes DEF HelloReconnect
  <2> QED BY <1>2, <2>2 DEF HelloReconnect, SeatTaken
<1>3. CASE HelloWait(p, t)
  <2> DEFINE q == AddWaiting(room, p, t.user, t.role, t.gen)
  <2>1. CanAddWaiting(room, p, t.user, t.gen) /\ t.role \in Roles /\ room' \in Settled(q)
    BY <1>3 DEF HelloWait, IsMemberToken
  <2>2. Sound(q) /\ q.status = "Lobby"
    BY <1>0, <2>1, AddWaitingMoves DEF MovesTo
  <2>3. q.resume
    BY <1>0, <2>1, ResumeStays DEF CanAddWaiting
  <2> HIDE DEF q
  <2>4. Goes(room, room', {})
    BY <2>1, <2>2, <2>3, ResumeKeeps, SettledGoes
  <2> QED BY <1>3, <2>4 DEF HelloWait, SeatTaken
<1>4. CASE HelloReclaim(p, t)
  <2> DEFINE q == Reclaim(room, p, t.user, t.seat, t.gen)
  <2>1. Takes(room, t.user, t.seat, t.gen) /\ t.seat \in Seats /\ room.status = "Lobby"
    BY <1>0, <1>4 DEF HelloReclaim, CanReclaim, TakesSeat, Takes, Sound, SeatInv
  <2>2. Keeps(room, q, {}) /\ q.slot[t.seat].state = "CONNECTED" /\ q.status = "Lobby"
    BY <1>0, <2>1, ReclaimKeeps, ReclaimMoves
  <2>3. room' \in Settled(q) /\ \E e : Joined(p, t, e)
    BY <1>4 DEF HelloReclaim
  <2> HIDE DEF q
  <2>4. Goes(room, room', {}) /\ room'.slot = q.slot
    BY <2>2, <2>3, SettledGoes, SettledLobby DEF Keeps, RoomInv
  <2> QED BY <2>2, <2>3, <2>4 DEF SeatTaken
<1>5. CASE HelloSeat(p, t)
  <2> DEFINE q == AddPeerAtSeat(room, p, t.user, t.seat, t.gen)
  <2>1. t.seat \in Seats /\ CanAddPeerAtSeat(room, p, t.seat)
    BY <1>0, <1>5 DEF HelloSeat
  <2>2. Keeps(room, q, {}) /\ q.slot[t.seat].state = "CONNECTED" /\ q.status = "Lobby"
    BY <1>0, <2>1, AddPeerKeeps, AddPeerMoves
  <2>3. room' \in Settled(q) /\ \E e : Joined(p, t, e)
    BY <1>5 DEF HelloSeat
  <2> HIDE DEF q
  <2>4. Goes(room, room', {}) /\ room'.slot = q.slot
    BY <2>2, <2>3, SettledGoes, SettledLobby DEF Keeps, RoomInv
  <2> QED BY <2>2, <2>3, <2>4 DEF SeatTaken
<1>6. CASE HelloSpectate(p, t)
  <2>1. Goes(room, room', {})
    BY <1>0, <1>6, AddSpectatorGoes DEF HelloSpectate
  <2>2. ~IsMemberToken(t)
    BY <1>6 DEF HelloSpectate, IsMemberToken, Roles
  <2> QED BY <1>6, <2>1, <2>2 DEF HelloSpectate, SeatTaken
<1>7. CASE HelloRejected(p, t)
  <2>1. Goes(room, room, {})
    BY KeepsReflexive DEF Goes
  <2>2. room' \in Shown(room) \cup {room}
    BY <1>7 DEF HelloRejected
  <2> QED BY <1>7, <2>1, <2>2, ShownGoes
<1> QED
  BY <1>1, <1>2, <1>3, <1>4, <1>5, <1>6, <1>7 DEF Hello

\* JoinRoom takes a seat, or watches.
LEMMA JoinRoomGoes ==
  ASSUME TypeInv, RoomInv(room), ViewInv(room), NEW p \in Peers, JoinRoom(p)
  PROVE  Goes(room, room', {})
<1>1. profile[p] \in Users /\ NoGen \in Gens
  BY DEF JoinRoom, TypeInv, TypeOK, Gens
<1>2. CASE CanAddPeer(room, p) /\ room' \in Settled(AddPeer(room, p, profile[p], NoGen))
  BY <1>1, <1>2, AddPeerKeeps, SettledGoes
<1>3. CASE \E old \in ReplacedSpectators(profile[p]) :
             room' \in Shown(AddSpectator(room, p, profile[p], old))
  BY <1>1, <1>3, AddSpectatorGoes
<1> QED BY <1>2, <1>3 DEF JoinRoom

\* A forfeit, and the end of the game, leave the views for the next sync.
LEMMA ForfeitGoes ==
  ASSUME NEW r, RoomInv(r), ViewInv(r), r.status = "InGame", NEW s \in Seats,
         NEW q \in MayEnd(r) \cup MayEnd(Forfeit(r, s))
  PROVE  Goes(r, q, {}) /\ q.status \in {"InGame", "Ended"}
<1> DEFINE f == Forfeit(r, s)
<1>1. RoomOK(r) /\ Live(r) /\ Sound(q)
  BY ForfeitLoses DEF RoomInv, Sound, Live, LosesTo
<1>2. RoomOK(f)
  BY <1>1, ForfeitLive DEF Live
<1>3. /\ f.slot = r.slot /\ f.waiting = r.waiting /\ f.hostSeat = r.hostSeat
      /\ f.hostPeer = r.hostPeer /\ f.mapped = r.mapped /\ f.status \in {"InGame", "Ended"}
  BY <1>1 DEF Forfeit, RoomOK, RoomRecord
<1> HIDE DEF f
<1>4. q \in MayEnd(r) \cup MayEnd(f)
  BY DEF f
<1>5. /\ q.slot = r.slot /\ q.waiting = r.waiting /\ q.hostSeat = r.hostSeat
      /\ q.hostPeer = r.hostPeer /\ q.mapped = r.mapped /\ q.status \in {"InGame", "Ended"}
  BY <1>1, <1>2, <1>3, <1>4 DEF MayEnd, RoomOK, RoomRecord
<1>6. ViewInv(q)
  BY <1>5, SameViews
<1>7. Keeps(r, q, {})
  BY <1>1, <1>5, GameKeeps DEF InLobby
<1> QED BY <1>5, <1>6, <1>7 DEF Goes

\* Beginning a start leaves the views alone, aborting one rebuilds them.
LEMMA StartGoes ==
  ASSUME NEW r, RoomInv(r), InLobby(r)
  PROVE  /\ \A q \in Rebuilt(AbortStart(r)) : Goes(r, q, {}) /\ q.status = "Lobby"
         /\ CanStart(r) /\ ViewInv(r) => Goes(r, BeginStart(r), {})
<1> DEFINE a == AbortStart(r)
           b == BeginStart(r)
<1>1. RoomOK(r) /\ Sound(a) /\ Sound(b) /\ RoomOK(a)
  BY StartLoses DEF RoomInv, Sound, InLobby, LosesTo
<1>2. /\ a.slot = r.slot /\ a.status = "Lobby" /\ a.hostSeat = r.hostSeat /\ a.resume = r.resume
  BY <1>1 DEF AbortStart, RoomOK, RoomRecord
<1>3. /\ b.slot = r.slot /\ b.status = "Starting" /\ b.hostSeat = r.hostSeat
      /\ b.resume = r.resume /\ b.waiting = r.waiting /\ b.hostPeer = r.hostPeer
      /\ b.mapped = r.mapped
  BY <1>1 DEF BeginStart, RoomOK, RoomRecord
<1> HIDE DEF a, b
<1>4. Keeps(r, a, {})
  BY <1>1, <1>2, SameTableKeeps
<1>5. ASSUME NEW q \in Rebuilt(a) PROVE Goes(r, q, {}) /\ q.status = "Lobby"
  BY <1>1, <1>2, <1>4, RebuiltGoes DEF Rebuilt, RoomOK, RoomRecord
<1>6. ASSUME CanStart(r), ViewInv(r) PROVE Goes(r, b, {})
  <2>1. \A s \in Seats : r.slot[s].state # "RECONNECTING"
    BY <1>6 DEF CanStart, Occupied, SlotConnected
  <2>2. Keeps(r, b, {})
    BY <1>1, <1>3, <2>1, SameTableKeeps
  <2>3. ViewInv(b)
    BY <1>3, <1>6, SameViews DEF CanStart
  <2> QED BY <2>2, <2>3 DEF Goes
<1> QED BY <1>5, <1>6 DEF a, b

\* A cancelled start is quiet, and the lobby shows.
LEMMA CancelledGoes ==
  ASSUME RoomInv(room), ViewInv(room), NEW r \in Cancelled
  PROVE  Goes(room, r, {}) /\ r.status # "Starting"
<1>1. CASE room.status = "Starting"
  BY <1>1, StartGoes DEF Cancelled, InLobby
<1>2. CASE room.status # "Starting"
  BY <1>2, KeepsReflexive DEF Cancelled, Goes
<1> QED BY <1>1, <1>2

\* A request vacates no seat of a lobby.
LEMMA RequestGoes ==
  ASSUME TypeInv, RoomInv(room), ViewInv(room), NEW p \in Peers, Request(p)
  PROVE  Goes(room, room', {})
<1>0. RoomOK(room) /\ Sound(room)
  BY DEF RoomInv, Sound
<1>1. CASE JoinRoom(p)
  BY <1>1, JoinRoomGoes
<1>2. CASE \E n \in PlayerCounts : UpdateRoomConfig(p, n)
  <2> PICK n \in PlayerCounts : UpdateRoomConfig(p, n)
    BY <1>2
  <2> DEFINE q == [room EXCEPT !.desired = n]
  <2>1. n \in 1..NumSeats /\ n \in Nat
    BY PlayerCountsAssumption, NumSeatsAssumption
  <2>2. /\ RoomOK(q) /\ q.slot = room.slot /\ q.status = room.status
        /\ q.forfeits = room.forfeits /\ q.waiting = room.waiting
        /\ q.hostSeat = room.hostSeat /\ q.resume = room.resume
        /\ q.hostPeer = room.hostPeer /\ q.mapped = room.mapped
    BY <1>0, <2>1 DEF RoomOK, RoomRecord
  <2>3. room' \in Shown(q)
    BY DEF UpdateRoomConfig
  <2> HIDE DEF q
  <2>4. Sound(q) /\ ViewInv(q)
    BY <1>0, <2>2, OtherFields, SameViews DEF LosesTo
  <2>5. Keeps(room, q, {})
    BY <2>2, <2>4, SameTableKeeps DEF InLobby, RoomInv
  <2> QED BY <2>3, <2>4, <2>5, ShownGoes DEF Goes
<1>3. CASE AssignRoomSeat(p)
  <2>1. ASSUME NEW q, Sound(q), q.status = "Lobby", q.resume, room' \in Settled(q)
        PROVE  Goes(room, room', {})
    BY <2>1, ResumeKeeps, SettledGoes
  <2>2. ASSUME NEW s \in Seats, NEW u \in Users, CanAssign(room, u, s), room' \in Settled(Assign(room, u, s))
        PROVE  Goes(room, room', {})
    BY <1>0, <2>1, <2>2, AssignMoves, ResumeStays DEF MovesTo, CanAssign
  <2>3. ASSUME NEW s \in Seats, CanUnassign(room, s), room' \in Settled(Unassign(room, s))
        PROVE  Goes(room, room', {})
    BY <1>0, <2>1, <2>3, UnassignMoves, ResumeStays DEF MovesTo, CanUnassign
  <2> QED BY <1>3, <2>2, <2>3 DEF AssignRoomSeat
<1>4. CASE StartGame(p)
  <2>1. Goes(room, BeginStart(room), {})
    BY <1>4, StartGoes DEF StartGame, CanStart, InLobby
  <2> QED BY <1>4, <2>1, ShownGoes DEF StartGame
<1>5. CASE BootstrapReady(p)
  <2> DEFINE r == [room EXCEPT !.ready = @ \cup {p}]
  <2>1. room.ready \cup {p} \in SUBSET Peers /\ Live(room) /\ room.status = "Starting"
    BY <1>0, <1>5 DEF BootstrapReady, InRoom, Exists, Live, RoomOK, RoomRecord
  <2>2. /\ RoomOK(r) /\ r.slot = room.slot /\ r.status = room.status
        /\ r.forfeits = room.forfeits /\ r.waiting = room.waiting
        /\ r.hostSeat = room.hostSeat /\ r.resume = room.resume
        /\ r.hostPeer = room.hostPeer /\ r.mapped = room.mapped
    BY <1>0, <2>1, ReadyLive DEF Live, RoomOK, RoomRecord
  <2>3. room' \in Settled(CommitStart(r)) \cup {r}
    BY <1>5 DEF BootstrapReady
  <2> HIDE DEF r
  <2>4. Sound(r) /\ ViewInv(r)
    BY <1>0, <2>2, OtherFields, SameViews DEF LosesTo
  <2>5. Keeps(room, r, {})
    BY <2>2, <2>4, SameTableKeeps DEF InLobby, RoomInv
  <2>6. Keeps(room, CommitStart(r), {})
    <3>1. Sound(CommitStart(r))
      BY <2>1, <2>2, <2>4, CommitLoses DEF LosesTo
    <3>2. CommitStart(r).status = "InGame"
      BY <2>2 DEF CommitStart, RoomOK, RoomRecord
    <3> QED BY <3>1, <3>2, GameKeeps DEF InLobby
  <2> QED BY <2>3, <2>4, <2>5, <2>6, SettledGoes DEF Goes
<1>6. CASE BootstrapFailed(p)
  BY <1>6, StartGoes DEF BootstrapFailed, InLobby
<1>7. CASE LeaveRoom(p)
  <2>1. CASE Exists
    <3> PICK r \in Cancelled : room' \in Left(r, p)
      BY <1>7, <2>1 DEF LeaveRoom
    <3>1. Goes(room, r, {})
      BY CancelledGoes
    <3>2. Goes(r, room', {})
      BY <3>1, LeftGoes DEF Goes, Keeps
    <3> QED BY <3>1, <3>2, KeepsThenKeeps DEF Goes
  <2>2. CASE ~Exists
    BY <1>7, <2>2, KeepsReflexive DEF LeaveRoom, Goes
  <2> QED BY <2>1, <2>2
<1>8. CASE ForfeitAndLeave(p)
  <2> DEFINE a == ActorOf(room, p)
  <2>1. CASE room.status = "InGame" /\ a # NoSeat /\ ~Forfeited(room, a)
    <3>1. a \in Seats
      BY <1>0, <2>1, ActorType
    <3> PICK r \in MayEnd(Forfeit(room, a)) : room' \in Left(r, p)
      BY <1>8, <2>1 DEF ForfeitAndLeave
    <3> HIDE DEF a
    <3>2. Goes(room, r, {})
      BY <2>1, <3>1, ForfeitGoes
    <3>3. Goes(r, room', {})
      BY <3>2, LeftGoes DEF Goes, Keeps
    <3> QED BY <3>2, <3>3, KeepsThenKeeps DEF Goes
  <2>2. CASE ~(room.status = "InGame" /\ a # NoSeat /\ ~Forfeited(room, a))
    BY <1>8, <2>2, LeftGoes DEF ForfeitAndLeave
  <2> QED BY <2>1, <2>2
<1>9. CASE ActionRequest(p)
  <2>1. ActorOf(room, p) \in Seats /\ room.status = "InGame"
    BY <1>0, <1>9, ActorType DEF ActionRequest
  <2>2. room' \in MayEnd(Forfeit(room, ActorOf(room, p))) \cup MayEnd(room)
    BY <1>9 DEF ActionRequest, MayEnd
  <2> QED BY <2>1, <2>2, ForfeitGoes
<1>10. CASE Rollback(p)
  <2> PICK i \in 0..Len(room.forfeits)-1 :
         room' \in Shown([room EXCEPT !.forfeits = SubSeq(@, 1, i)])
    BY <1>10 DEF Rollback
  <2> DEFINE q == [room EXCEPT !.forfeits = SubSeq(@, 1, i)]
  <2>1. room.forfeits \in Seq(Seats) /\ Live(room) /\ room.status = "InGame"
    BY <1>0, <1>10 DEF Rollback, Live, RoomOK, RoomRecord
  <2>2. SubSeq(room.forfeits, 1, i) \in Seq(Seats)
    BY <2>1
  <2>3. RoomOK(q)
    BY <2>1, <2>2, ForfeitsLive DEF Live
  <2>4. /\ q.slot = room.slot /\ q.waiting = room.waiting /\ q.status = "InGame"
        /\ q.hostSeat = room.hostSeat /\ q.hostPeer = room.hostPeer /\ q.mapped = room.mapped
    BY <1>0, <2>1 DEF RoomOK, RoomRecord
  <2>5. room' \in Shown(q)
    OBVIOUS
  <2> HIDE DEF q
  <2>6. Sound(q)
    BY <1>0, <2>3, <2>4, GameLoses DEF LosesTo
  <2>7. Goes(room, q, {})
    BY <2>1, <2>4, <2>6, SameViews, GameKeeps DEF Goes, InLobby
  <2> QED BY <2>5, <2>7, ShownGoes
<1> QED
  BY <1>1, <1>2, <1>3, <1>4, <1>5, <1>6, <1>7, <1>8, <1>9, <1>10 DEF Request

\* A lost connection vacates at most its own seat.
LEMMA DisconnectedGoes ==
  ASSUME TypeInv, RoomInv(room), ViewInv(room), NEW p \in Peers, PeerDisconnected(p)
  PROVE  RoomInv(room') /\ ViewInv(room')
<1>1. CASE InRoom(p)
  <2> PICK r \in Cancelled : room' \in IF r.status \in {"Lobby", "InGame"} THEN Dropped(r, p) ELSE Left(r, p)
    BY <1>1 DEF PeerDisconnected
  <2>1. RoomInv(r) /\ ViewInv(r)
    BY CancelledGoes DEF Goes, Keeps
  <2> QED BY <2>1, LeftGoes DEF Goes, Keeps
<1>2. CASE ~InRoom(p)
  BY <1>2 DEF PeerDisconnected
<1> QED BY <1>1, <1>2

\* A grace timer frees the seat of its key, or makes its player forfeit.
LEMMA TimerGoes ==
  ASSUME TypeInv, RoomInv(room), ViewInv(room), TimerFires
  PROVE  Goes(room, room', {})
<1> DEFINE k == Head(timers).key
<1>0. timers \in Seq(Timer) /\ timers # << >>
  BY DEF TimerFires, TypeInv, TypeOK
<1>1. k \in Keys
  <2>1. Head(timers) \in Timer
    BY <1>0
  <2> QED BY <2>1 DEF Timer
<1>2. /\ k[1] = "waiting" => k[2] \in Users
      /\ k[1] \in {"seat", "actor"} => k[2] \in Seats
  BY <1>1 DEF Keys
<1>3. (room.status = "Lobby" /\ LobbyTimeout(k)) \/ GameTimeout(k) \/ UNCHANGED room
  BY DEF TimerFires
<1> HIDE DEF k
<1>4. UNCHANGED room => Goes(room, room', {})
  BY KeepsReflexive DEF Goes
<1>5. ASSUME room.status = "Lobby", LobbyTimeout(k) PROVE Goes(room, room', {})
  <2>1. CASE k[1] = "waiting" /\ WaitingReleasable(room, k[2])
    BY <1>2, <1>5, <2>1, DropWaitingKeeps, SettledGoes, EmptiedGoes DEF LobbyTimeout, OrRemoved
  <2>2. CASE k[1] = "seat" /\ SeatReleasable(room, k[2])
    <3>1. k[2] \in Seats /\ k[2] \in Occupied(room)
      BY <1>2, <2>2 DEF SeatReleasable, Occupied
    <3> QED BY <1>5, <2>2, <3>1, FreeSeatKeeps, SettledGoes, EmptiedGoes
            DEF LobbyTimeout, OrRemoved, InLobby
  <2> QED BY <1>4, <1>5, <2>1, <2>2 DEF LobbyTimeout
<1>6. ASSUME GameTimeout(k) PROVE Goes(room, room', {})
  <2>1. CASE k[1] = "actor" /\ room.status = "InGame" /\ ~Forfeited(room, k[2])
    BY <1>2, <1>6, <2>1, ForfeitGoes, ShownGoes DEF GameTimeout
  <2> QED BY <1>4, <1>6, <2>1 DEF GameTimeout
<1> QED BY <1>3, <1>4, <1>5, <1>6

-----------------------------------------------------------------------------
(* The theorems about the room alone *)

ViewedInv == TypeInv /\ RoomInv(room) /\ ViewInv(room)

\* Every step keeps the seats and the views as they should be.
LEMMA ViewedStep ==
  ASSUME TypeInv, RoomInv(room), ViewInv(room), [Next]_vars
  PROVE  RoomInv(room') /\ ViewInv(room')
<1>0. Goes(room, room, {})
  BY KeepsReflexive DEF Goes
<1>1. ASSUME NEW p \in Peers, NEW t \in Tokens, Hello(p, t)
      PROVE  RoomInv(room') /\ ViewInv(room')
  BY <1>1, HelloGoes DEF Goes, Keeps
<1>2. ASSUME NEW p \in Peers, Request(p) \/ PeerDisconnected(p)
      PROVE  RoomInv(room') /\ ViewInv(room')
  BY <1>2, RequestGoes, DisconnectedGoes DEF Goes, Keeps
<1>3. CASE TimerFires
  BY <1>3, TimerGoes DEF Goes, Keeps
<1>4. CASE RoomListed
  BY <1>0, <1>4, ShownGoes DEF RoomListed, Goes, Keeps
<1>5. CASE RemoteEnded
  BY <1>5, EmptiedGoes DEF RemoteEnded, Goes, Keeps
<1>6. CASE UNCHANGED vars
  BY <1>6 DEF vars
<1> QED BY <1>1, <1>2, <1>3, <1>4, <1>5, <1>6 DEF Next

\* They are as they should be in every reachable state.
LEMMA ViewedInvInvariant == Spec => []ViewedInv
<1>1. Init => ViewedInv
  <2> SUFFICES ASSUME Init PROVE ViewedInv
    OBVIOUS
  <2>1. TypeInv /\ room = EmptyRoom
    BY EmptyRoomOK DEF Init, TypeInv, TypeOK, RoomOK
  <2>2. Goes(room, EmptyRoom, {})
    BY EmptiedGoes
  <2> QED BY <2>1, <2>2 DEF ViewedInv, Goes, Keeps
<1>2. ViewedInv /\ [Next]_vars => ViewedInv'
  <2> SUFFICES ASSUME ViewedInv, [Next]_vars PROVE ViewedInv'
    OBVIOUS
  <2>1. TypeInv' /\ RoomInv(room') /\ ViewInv(room')
    BY TypeInvStep, ViewedStep DEF ViewedInv
  <2> QED BY <2>1 DEF ViewedInv
<1> QED BY <1>1, <1>2, PTL DEF Spec

\* A normal lobby with a player in it always has exactly one host, on a seat
\* that is taken (room.gd): whoever leaves, is released or is evicted, there is
\* somebody who may start the game.
THEOREM LobbyAlwaysHosted == Spec => []LobbyHasHost
<1>1. ViewedInv => LobbyHasHost
  BY DEF ViewedInv, RoomInv, InLobby, Hosted, LobbyHasHost
<1> QED BY <1>1, ViewedInvInvariant, PTL

\* A connection of a well-placed room on a seat is nowhere else, and may act for it.
LEMMA SeatedActor ==
  ASSUME NEW r, Fit(r), ViewInv(r), r.status \in {"Lobby", "Starting", "InGame"},
         NEW s \in Seats, NEW p \in Peers, r.slot[s].peer = p
  PROVE  /\ p # NoPeer /\ SeatsOf(r, p) = {s} /\ UsersOf(r, p) = {}
         /\ p \in r.mapped <=> r.slot[s].state = "CONNECTED"
         /\ ActorOf(r, p) = IF r.slot[s].state = "CONNECTED" THEN s ELSE NoSeat
<1>1. p # NoPeer
  BY PeersAssumption
<1>2. SeatsOf(r, p) = {s} /\ UsersOf(r, p) = {}
  BY <1>1 DEF Fit, PlacesDistinct, SeatsOf, UsersOf
<1>3. p \in r.mapped <=> r.slot[s].state = "CONNECTED"
  BY <1>2 DEF ViewInv, ConnectedPeers, SeatsOf
<1>4. LowestSeat({s}) = s
  BY SeatsFacts, LowestSeatIsLeast
<1> QED BY <1>1, <1>2, <1>3, <1>4 DEF ActorOf

\* The host the room names, and the connections that may act in it, are those
\* of its seats in every state in which a handler may read them (room.gd,
\* server.gd): no step leaves them to a later broadcast but for a forfeit.
THEOREM ViewsAlwaysFresh == Spec => []ViewsFresh
<1>1. ASSUME ViewedInv, PlaceInv PROVE ViewsFresh
  <2> SUFFICES ASSUME room.status \in {"Lobby", "Starting", "InGame"}
               PROVE  /\ room.hostPeer \in HostChoices(room)
                      /\ MappedPeers(room) = {p \in room.mapped : LET a == ActorOf(room, p)
                                                IN  a # NoSeat /\ ~Forfeited(room, a)}
    BY DEF ViewsFresh
  <2>1. ViewInv(room) /\ Fit(room) /\ room.mapped \subseteq Peers
    BY <1>1 DEF ViewedInv, PlaceInv, Fit, RoomOK, RoomRecord
  <2>2. ASSUME NEW p \in Peers
        PROVE  p \in MappedPeers(room) <=>
                 p \in room.mapped /\ ActorOf(room, p) # NoSeat /\ ~Forfeited(room, ActorOf(room, p))
    <3>1. CASE \E s \in Seats : room.slot[s].peer = p
      <4> PICK s \in Seats : room.slot[s].peer = p
        BY <3>1
      <4>1. /\ SeatsOf(room, p) = {s}
            /\ p \in room.mapped <=> room.slot[s].state = "CONNECTED"
            /\ ActorOf(room, p) = IF room.slot[s].state = "CONNECTED" THEN s ELSE NoSeat
        BY <2>1, SeatedActor
      <4>2. p \in MappedPeers(room) <=> room.slot[s].state = "CONNECTED" /\ ~Forfeited(room, s)
        BY <4>1 DEF MappedPeers, SeatsOf
      <4> QED BY <4>1, <4>2, SeatsFacts
    <3>2. CASE ~\E s \in Seats : room.slot[s].peer = p
      BY <2>1, <3>2 DEF MappedPeers, ViewInv, ConnectedPeers
    <3> QED BY <3>1, <3>2
  <2>3. room.hostPeer \in HostChoices(room)
    BY <2>1 DEF ViewInv
  <2> QED BY <2>1, <2>2, <2>3 DEF MappedPeers
<1> QED BY <1>1, ViewedInvInvariant, PlaceInvInvariant, PTL

-----------------------------------------------------------------------------
(* A seat that is waited for in the lobby has its grace timer.  Inductive   *)
(* together with ViewedInv, which says that a seat is waited for only since *)
(* a connection was lost in the lobby, and with PlaceInv, by which the      *)
(* ticket is issued for the seat that was lost.                             *)

\* A seat that is waited for, in the lobby of a normal room.
AwaySeat(r, s) == r.status = "Lobby" /\ ~r.resume /\ r.slot[s].state = "RECONNECTING"

\* A step that vacates no seat keeps every timer that is still needed.
LEMMA QuietCovers ==
  ASSUME ViewedInv, LobbySeatCovered, NEW E, Quiet(room, room', E),
         \A s \in Seats \ E : Armed(<<"seat", s>>) /\ AwaySeat(room, s) /\ AwaySeat(room', s)
                                => Armed(<<"seat", s>>)',
         \A s \in Seats \cap E : AwaySeat(room', s) => Armed(<<"seat", s>>)'
  PROVE  LobbySeatCovered'
<1>1. ASSUME NEW s \in Seats \ E, AwaySeat(room', s)
      PROVE  AwaySeat(room, s)
  BY <1>1 DEF Quiet, InLobby, AwaySeat, ViewedInv, RoomInv
<1>2. ASSUME NEW s \in Seats, AwaySeat(room', s)
      PROVE  Armed(<<"seat", s>>)'
  BY <1>1, <1>2 DEF LobbySeatCovered, AwaySeat
<1> QED BY <1>2 DEF LobbySeatCovered, AwaySeat

\* A timer keeps finding its ticket while neither of the two changes.
LEMMA SameTicket ==
  ASSUME NEW k \in Keys, timers' = timers, ticket'[k] = ticket[k], Armed(k)
  PROVE  Armed(k)'
BY DEF Armed

\* schedule keeps every armed timer, and arms the one of its key.
LEMMA ScheduleArms ==
  ASSUME TypeInv, NEW K \in SUBSET Keys, Schedule(K)
  PROVE  /\ \A k \in Keys : Armed(k) => Armed(k)'
         /\ \A k \in Keys : K = {k} => Armed(k)'
<1>0. timers \in Seq(Timer) /\ ticket \in [Keys -> Nat]
  BY DEF TypeInv, TypeOK
<1>1. CASE K = {}
  BY <1>1 DEF Schedule, Armed
<1>2. CASE K # {}
  <2> DEFINE x == CHOOSE k \in K : TRUE
             m == [key |-> x, ticket |-> ticket[x] + 1]
  <2>1. x \in Keys /\ \A k : K = {k} => x = k
    BY <1>2
  <2>2. ticket' = [ticket EXCEPT ![x] = ticket[x] + 1] /\ timers' = Append(timers, m)
    BY <1>2 DEF Schedule
  <2> HIDE DEF x
  <2>3. ticket[x] \in Nat
    BY <1>0, <2>1
  <2>4. m \in Timer
    BY <2>1, <2>3 DEF Timer
  <2>5. m.key = x /\ m.ticket = ticket[x] + 1
    OBVIOUS
  <2> HIDE DEF m
  <2>6. /\ Len(timers') = Len(timers) + 1 /\ timers'[Len(timers) + 1] = m
        /\ \A i \in 1..Len(timers) : timers'[i] = timers[i]
        /\ Len(timers) \in Nat
    BY <1>0, <2>2, <2>4
  <2>7. ticket'[x] = ticket[x] + 1 /\ \A k \in Keys \ {x} : ticket'[k] = ticket[k]
    BY <1>0, <2>1, <2>2
  <2>8. Armed(x)'
    <3>1. Len(timers) + 1 \in 1..Len(timers')
      BY <2>6
    <3>2. /\ timers'[Len(timers) + 1].key = x
          /\ timers'[Len(timers) + 1].ticket = ticket'[x] /\ ticket'[x] # 0
      BY <2>3, <2>5, <2>6, <2>7
    <3> QED BY <3>1, <3>2 DEF Armed
  <2>9. ASSUME NEW k \in Keys, k # x, Armed(k) PROVE Armed(k)'
    <3> PICK i \in 1..Len(timers) :
          timers[i].key = k /\ timers[i].ticket = ticket[k] /\ ticket[k] # 0
      BY <2>9 DEF Armed
    <3>1. i \in 1..Len(timers') /\ timers'[i] = timers[i] /\ ticket'[k] = ticket[k]
      BY <2>6, <2>7, <2>9
    <3> QED BY <3>1 DEF Armed
  <2> QED BY <2>1, <2>8, <2>9
<1> QED BY <1>1, <1>2

\* The oldest timer goes: the others find their tickets as before.
LEMMA TailArms ==
  ASSUME TypeInv, TimerFires, NEW k \in Keys, Armed(k),
         k # Head(timers).key \/ ticket[k] # Head(timers).ticket
  PROVE  Armed(k)'
<1>0. /\ timers \in Seq(Timer) /\ timers # << >> /\ timers' = Tail(timers)
      /\ ticket \in [Keys -> Nat]
  BY DEF TimerFires, TypeInv, TypeOK
<1>1. PICK i \in 1..Len(timers) :
        timers[i].key = k /\ timers[i].ticket = ticket[k] /\ ticket[k] # 0
  BY DEF Armed
<1>2. i # 1
  BY <1>0, <1>1
<1>3. i - 1 \in 1..Len(timers') /\ timers'[i-1] = timers[i]
  BY <1>0, <1>2
<1>4. ticket'[k] = ticket[k]
  BY <1>0 DEF TimerFires
<1> QED BY <1>1, <1>3, <1>4 DEF Armed

\* The lobby key of a seat is a grace key.
LEMMA SeatKey ==
  ASSUME NEW s \in Seats
  PROVE  <<"seat", s>> \in Keys
BY DEF Keys

\* A hello clears the ticket of the seat it takes, and of no other.
LEMMA HelloCovers ==
  ASSUME ViewedInv, LobbySeatCovered, NEW p \in Peers, NEW t \in Tokens, Hello(p, t)
  PROVE  LobbySeatCovered'
<1>1. Quiet(room, room', {}) /\ timers' = timers
  BY HelloGoes DEF ViewedInv, Goes, Keeps, Hello, HelloCreate, HelloReconnect, HelloWait,
                   HelloReclaim, HelloSeat, HelloSpectate, HelloRejected, Joined
<1>2. ASSUME NEW s \in Seats, AwaySeat(room', s)
      PROVE  ticket'[<<"seat", s>>] = ticket[<<"seat", s>>]
  <2>1. HelloRejected(p, t) \/ \E e : Joined(p, t, e) /\ SeatTaken(t)
    BY HelloGoes DEF ViewedInv
  <2>2. CASE HelloRejected(p, t)
    BY <2>2 DEF HelloRejected
  <2>3. CASE \E e : Joined(p, t, e) /\ SeatTaken(t)
    <3>1. /\ ticket' = [k \in Keys |-> IF k \in HelloKeys(t, room'.status) THEN 0 ELSE ticket[k]]
          /\ SeatTaken(t)
      BY <2>3 DEF Joined
    <3>2. <<"seat", s>> \notin HelloKeys(t, room'.status)
      BY <1>2, <3>1 DEF HelloKeys, SeatTaken, AwaySeat
    <3> QED BY <3>1, <3>2, SeatKey
  <2> QED BY <2>1, <2>2, <2>3
<1>3. \A s \in Seats : Armed(<<"seat", s>>) /\ AwaySeat(room', s) => Armed(<<"seat", s>>)'
  BY <1>1, <1>2, SeatKey, SameTicket
<1> QED BY <1>1, <1>3, QuietCovers

\* A request clears no ticket of the lobby.
LEMMA RequestCovers ==
  ASSUME ViewedInv, LobbySeatCovered, NEW p \in Peers, Request(p)
  PROVE  LobbySeatCovered'
<1>1. Quiet(room, room', {})
  BY RequestGoes DEF ViewedInv, Goes, Keeps
<1>2. timers' = timers
  BY DEF Request, JoinRoom, UpdateRoomConfig, AssignRoomSeat, StartGame, BootstrapReady,
         BootstrapFailed, LeaveRoom, ForfeitAndLeave, ActionRequest, Rollback
<1>3. ASSUME NEW s \in Seats
      PROVE  ticket'[<<"seat", s>>] = ticket[<<"seat", s>>]
  <2>1. CASE ForfeitAndLeave(p)
    <3>1. ticket' = ticket \/ \E a : ticket' = [ticket EXCEPT ![<<"actor", a>>] = 0]
      BY <2>1 DEF ForfeitAndLeave
    <3>2. ticket \in [Keys -> Nat]
      BY DEF ViewedInv, TypeInv, TypeOK
    <3> QED BY <3>1, <3>2, SeatKey
  <2>2. CASE ~ForfeitAndLeave(p)
    BY <2>2 DEF Request, JoinRoom, UpdateRoomConfig, AssignRoomSeat, StartGame,
                BootstrapReady, BootstrapFailed, LeaveRoom, ActionRequest, Rollback
  <2> QED BY <2>1, <2>2
<1>4. \A s \in Seats : Armed(<<"seat", s>>) => Armed(<<"seat", s>>)'
  BY <1>2, <1>3, SeatKey, SameTicket
<1> QED BY <1>1, <1>4, QuietCovers

\* A connection lost in the lobby gets the timer of the seat that it held.
LEMMA LostSeatKey ==
  ASSUME NEW r, RoomInv(r), ViewInv(r), Fit(r), r.status = "Lobby",
         NEW p \in Peers, NEW s \in SeatsOf(r, p)
  PROVE  GraceKeys(r, p) = {<<"seat", s>>}
<1>1. s \in Seats /\ r.slot[s].peer = p
  BY DEF SeatsOf
<1>2. r.slot[s] \in Slot /\ p # NoPeer
  BY SlotTypes, <1>1, PeersAssumption DEF Fit
<1>3. r.slot[s].state = "CONNECTED"
  BY <1>1, <1>2 DEF RoomInv, Sound, SeatInv, SlotFits, Slot, SeatStates
<1>4. ActorOf(r, p) = s /\ UsersOf(r, p) = {}
  BY <1>1, <1>3, SeatedActor
<1> QED BY <1>1, <1>4, SeatsFacts DEF GraceKeys

\* A lost connection vacates its own seat at most, and arms that seat's timer.
LEMMA DisconnectedCovers ==
  ASSUME ViewedInv, PlaceInv, LobbySeatCovered, NEW p \in Peers, PeerDisconnected(p)
  PROVE  LobbySeatCovered'
<1>0. TypeInv /\ RoomInv(room) /\ ViewInv(room)
  BY DEF ViewedInv
<1>1. CASE InRoom(p)
  <2> PICK r \in Cancelled :
        /\ room' \in IF r.status \in {"Lobby", "InGame"} THEN Dropped(r, p) ELSE Left(r, p)
        /\ Schedule(IF room'.status = "None" THEN {} ELSE GraceKeys(r, p))
    BY <1>1 DEF PeerDisconnected
  <2> DEFINE K == IF room'.status = "None" THEN {} ELSE GraceKeys(r, p)
  <2>1. Goes(room, r, {}) /\ r.status # "Starting" /\ RoomInv(r) /\ ViewInv(r) /\ Fit(r)
    BY <1>0, CancelledGoes, CancelledFit DEF Goes, Keeps
  <2>2. K \in SUBSET Keys /\ Schedule(K)
    BY <2>1, GraceKeysType DEF Fit
  <2> HIDE DEF K
  <2>3. /\ \A s \in Seats : Armed(<<"seat", s>>) => Armed(<<"seat", s>>)'
        /\ \A s \in Seats : K = {<<"seat", s>>} => Armed(<<"seat", s>>)'
    BY <1>0, <2>2, SeatKey, ScheduleArms
  <2>4. CASE r.status = "Lobby"
    <3>1. Keeps(r, room', SeatsOf(r, p))
      BY <2>1, <2>4, LeftGoes DEF Goes
    <3>2. Quiet(room, room', SeatsOf(r, p))
      BY <2>1, <3>1, KeepsThenKeeps DEF Goes, Keeps
    <3>3. \A s \in Seats \cap SeatsOf(r, p) : AwaySeat(room', s) => Armed(<<"seat", s>>)'
      BY <2>1, <2>3, <2>4, LostSeatKey DEF AwaySeat, K
    <3> QED BY <2>3, <3>2, <3>3, QuietCovers
  <2>5. CASE r.status # "Lobby"
    <3>1. Keeps(r, room', {})
      BY <2>1, <2>5, LeftGoes DEF Goes, InLobby
    <3>2. Quiet(room, room', {})
      BY <2>1, <3>1, KeepsThenKeeps DEF Goes, Keeps
    <3> QED BY <2>3, <3>2, QuietCovers
  <2> QED BY <2>4, <2>5
<1>2. CASE ~InRoom(p)
  BY <1>2 DEF PeerDisconnected, LobbySeatCovered, Armed
<1> QED BY <1>1, <1>2

\* The timer of a seat that nobody came back to frees the seat.
LEMMA TimerReleases ==
  ASSUME ViewedInv, TimerFires, NEW s \in Seats, AwaySeat(room, s),
         Head(timers).key = <<"seat", s>>, ticket[<<"seat", s>>] = Head(timers).ticket
  PROVE  ~AwaySeat(room', s)
<1> DEFINE q == FreeSeat(room, s)
<1>1. RoomInv(room) /\ Sound(room) /\ room.status = "Lobby" /\ ~room.resume
  BY DEF ViewedInv, RoomInv, AwaySeat
<1>2. room.slot[s].peer = NoPeer /\ room.slot[s].state = "RECONNECTING" /\ s \in Occupied(room)
  BY <1>1 DEF AwaySeat, Sound, SeatInv, SlotFits, Occupied
<1>3. Exists /\ ~TargetConnected(<<"seat", s>>)
  <2>1. \A p \in room.mapped : p # NoPeer
    BY <1>1, PeersAssumption DEF Sound, RoomOK, RoomRecord
  <2> QED BY <1>1, <1>2, <2>1 DEF Exists, TargetConnected
<1>4. LobbyTimeout(<<"seat", s>>)
  BY <1>1, <1>3 DEF TimerFires
<1>5. room' \in OrRemoved(IsEmpty(q), q)
  BY <1>1, <1>2, <1>4 DEF LobbyTimeout, SeatReleasable
<1>6. RoomInv(q) /\ q.slot[s].state = "FREE"
  BY <1>1, <1>2, FreeSeatKeeps DEF InLobby, Keeps
<1>7. q.status = "Lobby"
  BY <1>1, <1>2, FreeSeatStays
<1> HIDE DEF q
<1>8. CASE room' = EmptyRoom
  BY <1>8 DEF AwaySeat, EmptyRoom
<1>9. CASE room' \in Settled(q)
  <2>1. room'.slot = q.slot
    BY <1>6, <1>7, <1>9, SettledLobby DEF RoomInv
  <2> QED BY <1>6, <2>1 DEF AwaySeat
<1> QED BY <1>5, <1>8, <1>9 DEF OrRemoved

\* A timer that fires leaves the others, and the seat of its own is not away any more.
LEMMA TimerCovers ==
  ASSUME ViewedInv, LobbySeatCovered, TimerFires
  PROVE  LobbySeatCovered'
<1>0. TypeInv /\ Quiet(room, room', {})
  BY TimerGoes DEF ViewedInv, Goes, Keeps
<1>1. ASSUME NEW s \in Seats, Armed(<<"seat", s>>), AwaySeat(room, s), AwaySeat(room', s)
      PROVE  Armed(<<"seat", s>>)'
  <2>1. <<"seat", s>> # Head(timers).key \/ ticket[<<"seat", s>>] # Head(timers).ticket
    BY <1>1, TimerReleases
  <2> QED BY <1>0, <1>1, <2>1, SeatKey, TailArms
<1> QED BY <1>0, <1>1, QuietCovers

\* A player who lost his connection in the lobby of a normal room never holds
\* his seat for ever: its grace timer is running and will find its ticket,
\* whatever was cleared, reissued or overtaken in between (server.gd,
\* server_disconnect_grace_service.gd).
THEOREM LobbySeatsAlwaysCovered == Spec => []LobbySeatCovered
<1>1. Init => LobbySeatCovered
  BY DEF Init, EmptyRoom, LobbySeatCovered
<1>2. ViewedInv /\ PlaceInv /\ LobbySeatCovered /\ [Next]_vars => LobbySeatCovered'
  <2> SUFFICES ASSUME ViewedInv, PlaceInv, LobbySeatCovered, [Next]_vars
               PROVE  LobbySeatCovered'
    OBVIOUS
  <2>1. ASSUME NEW p \in Peers, NEW t \in Tokens, Hello(p, t)
        PROVE  LobbySeatCovered'
    BY <2>1, HelloCovers
  <2>2. ASSUME NEW p \in Peers, Request(p) \/ PeerDisconnected(p)
        PROVE  LobbySeatCovered'
    BY <2>2, RequestCovers, DisconnectedCovers
  <2>3. CASE TimerFires
    BY <2>3, TimerCovers
  <2>4. CASE RoomListed
    <3>1. Goes(room, room, {})
      BY KeepsReflexive DEF ViewedInv, Goes
    <3>2. Quiet(room, room', {})
      BY <2>4, <3>1, ShownGoes DEF RoomListed, Goes, Keeps
    <3>3. \A s \in Seats : Armed(<<"seat", s>>) => Armed(<<"seat", s>>)'
      BY <2>4 DEF RoomListed, Armed
    <3> QED BY <3>2, <3>3, QuietCovers
  <2>5. CASE RemoteEnded
    BY <2>5 DEF RemoteEnded, EmptyRoom, LobbySeatCovered
  <2>6. CASE UNCHANGED vars
    BY <2>6 DEF vars, LobbySeatCovered, Armed
  <2> QED BY <2>1, <2>2, <2>3, <2>4, <2>5, <2>6 DEF Next
<1> QED BY <1>1, <1>2, ViewedInvInvariant, PlaceInvInvariant, PTL DEF Spec

-----------------------------------------------------------------------------
(* What a grace timer may take.                                             *)

\* A seat that its player holds, and has not forfeited.
Present(r, s) == SlotConnected(r, s) /\ ~Forfeited(r, s)
SparesSeat(r, q, s) ==
  Present(r, s) => Present(q, s) /\ q.slot[s].peer = r.slot[s].peer

\* What a lobby timeout makes of the seats, it makes of them in the lobby.
LEMMA LobbySpares ==
  ASSUME NEW r, Sound(r), NEW s \in Seats, NEW q, Sound(q), q.status = "Lobby",
         q.slot[s].state = r.slot[s].state, q.slot[s].peer = r.slot[s].peer,
         NEW x, x \in Settled(q) \/ (IsEmpty(q) /\ x = EmptyRoom)
  PROVE  SparesSeat(r, x, s)
<1> SUFFICES ASSUME Present(r, s) PROVE Present(x, s) /\ x.slot[s].peer = r.slot[s].peer
  BY DEF SparesSeat
<1>1. ~IsEmpty(q)
  BY DEF Present, SlotConnected, IsEmpty, Occupied
<1>2. Sound(x) /\ x.slot = q.slot
  BY <1>1, SettledLobby
<1>3. x.status = "Lobby"
  <2>1. x \in Rebuilt(q) /\ RoomOK(q)
    BY <1>1 DEF Settled, Synced, Sound
  <2> QED BY <2>1 DEF Rebuilt, RoomOK, RoomRecord
<1>4. ~Forfeited(x, s)
  BY <1>2, <1>3 DEF Sound, SeatInv, Forfeited
<1> QED BY <1>2, <1>4 DEF Present, SlotConnected

\* Freeing another seat, or dropping a member who waits, takes nothing from a seat.
LEMMA FreedSpares ==
  ASSUME NEW r, Sound(r), r.status = "Lobby", NEW s \in Seats
  PROVE  /\ \A t \in Seats \ {s} :
              LET q == FreeSeat(r, t)
              IN  /\ Sound(q) /\ q.status = "Lobby"
                  /\ q.slot[s].state = r.slot[s].state /\ q.slot[s].peer = r.slot[s].peer
         /\ \A u \in Users :
              LET q == DropWaiting(r, u)
              IN  /\ Sound(q) /\ q.status = "Lobby"
                  /\ q.slot[s].state = r.slot[s].state /\ q.slot[s].peer = r.slot[s].peer
<1>0. RoomOK(r)
  BY DEF Sound
<1>1. ASSUME NEW a, Sound(a), NEW q, q \in {a, Promote(a)},
             a.slot[s] = r.slot[s]
      PROVE  q.slot[s].state = r.slot[s].state /\ q.slot[s].peer = r.slot[s].peer
  BY <1>1, PromoteLoses DEF Kept
<1>2. ASSUME NEW t \in Seats \ {s}
      PROVE  LET q == FreeSeat(r, t)
             IN  /\ Sound(q) /\ q.status = "Lobby"
                 /\ q.slot[s].state = r.slot[s].state /\ q.slot[s].peer = r.slot[s].peer
  <2> DEFINE a == [r EXCEPT !.slot[t] = FreeSlot]
             q == FreeSeat(r, t)
  <2>1. Sound(q) /\ q.status = "Lobby"
    BY <1>0, FreeSeatLoses, FreedThins DEF LosesTo, Thins, GameOn
  <2>2. a.slot[s] = r.slot[s] /\ a.status = r.status /\ a.waiting = r.waiting
        /\ a.forfeits = r.forfeits
        /\ \A x \in Seats \ {t} : a.slot[x] = r.slot[x]
    BY <1>0 DEF RoomOK, RoomRecord
  <2>3. RoomOK(a) /\ a.slot[t] = FreeSlot
    BY <1>0, FreeTypes DEF RoomOK, RoomRecord
  <2>4. q \in {a, Promote(a)}
    BY DEF FreeSeat
  <2> HIDE DEF a, q
  <2>5. Sound(a)
    BY <2>2, <2>3 DEF Sound, SeatInv, SlotFits, FreeSlot
  <2> QED BY <1>1, <2>1, <2>2, <2>4, <2>5 DEF q
<1>3. ASSUME NEW u \in Users
      PROVE  LET q == DropWaiting(r, u)
             IN  /\ Sound(q) /\ q.status = "Lobby"
                 /\ q.slot[s].state = r.slot[s].state /\ q.slot[s].peer = r.slot[s].peer
  <2> DEFINE a == [r EXCEPT !.waiting[u] = NoMember]
             q == DropWaiting(r, u)
  <2>1. Sound(q) /\ q.status = "Lobby"
    BY <1>0, DropWaitingLoses, FreedThins DEF LosesTo, Thins
  <2>2. a.slot = r.slot /\ a.status = r.status /\ a.forfeits = r.forfeits
        /\ a.waiting[u] = NoMember /\ \A v \in Users \ {u} : a.waiting[v] = r.waiting[v]
    BY <1>0 DEF RoomOK, RoomRecord
  <2>3. RoomOK(a)
    BY <1>0, FreeTypes DEF RoomOK, RoomRecord
  <2>4. q \in {a, Promote(a)}
    BY DEF DropWaiting
  <2> HIDE DEF a, q
  <2>5. Sound(a)
    BY <2>2, <2>3 DEF Sound, SeatInv, NoMember
  <2> QED BY <1>1, <2>1, <2>2, <2>4, <2>5 DEF q
<1> QED BY <1>2, <1>3

\* A forfeit of another player, and the broadcast that shows it, take nothing
\* from a seat.
LEMMA ForfeitSpares ==
  ASSUME NEW r, Sound(r), r.status = "InGame", NEW s \in Seats, NEW t \in Seats \ {s},
         NEW q \in MayEnd(Forfeit(r, t)), NEW x \in Shown(q)
  PROVE  SparesSeat(r, x, s)
<1> SUFFICES ASSUME Present(r, s) PROVE Present(x, s) /\ x.slot[s].peer = r.slot[s].peer
  BY DEF SparesSeat
<1> DEFINE f == Forfeit(r, t)
<1>1. RoomOK(r) /\ Live(r) /\ Live(f) /\ RoomOK(f) /\ Sound(q) /\ RoomOK(q)
  BY ForfeitLive, ForfeitLoses DEF Sound, Live, LosesTo
<1>2. f.slot = r.slot /\ f.forfeits = Append(r.forfeits, t)
  BY <1>1 DEF Forfeit, RoomOK, RoomRecord
<1>3. q.slot = f.slot /\ q.forfeits = f.forfeits
  BY <1>1 DEF MayEnd, RoomOK, RoomRecord
<1> HIDE DEF f
<1>4. ~Forfeited(q, s)
  <2>1. r.forfeits \in Seq(Seats)
    BY <1>1 DEF RoomOK, RoomRecord
  <2> QED BY <1>2, <1>3, <2>1 DEF Forfeited, Present
<1>5. ASSUME NEW a, a \in {q, Synced(q)}
      PROVE  a.slot[s] = r.slot[s] /\ a.forfeits = q.forfeits /\ RoomOK(a)
  <2>1. RoomOK(Synced(q))
    BY <1>1, SyncedOK
  <2>2. Synced(q).slot[s] = q.slot[s] /\ Synced(q).forfeits = q.forfeits
    BY <1>1, <1>4 DEF Synced, RoomOK, RoomRecord
  <2> QED BY <1>1, <1>2, <1>3, <1>5, <2>1, <2>2
<1>6. x = q \/ x \in Rebuilt(Synced(q))
  BY DEF Shown
<1>7. x.slot[s] = r.slot[s] /\ x.forfeits = q.forfeits
  <2>1. x \in Rebuilt(Synced(q)) => x.slot = Synced(q).slot /\ x.forfeits = Synced(q).forfeits
    BY <1>5 DEF Rebuilt, RoomOK, RoomRecord
  <2> QED BY <1>5, <1>6, <2>1
<1> QED BY <1>4, <1>7 DEF Present, SlotConnected, Forfeited

\* A timer that fires finds its player away.
LEMMA TimerSpares ==
  ASSUME ViewedInv, TimerFires, NEW s \in Seats
  PROVE  SparesSeat(room, room', s)
<1> DEFINE k == Head(timers).key
<1>0. timers \in Seq(Timer) /\ timers # << >> /\ Sound(room) /\ ViewInv(room)
  BY DEF TimerFires, ViewedInv, TypeInv, TypeOK, RoomInv
<1>1. k \in Keys
  <2>1. Head(timers) \in Timer
    BY <1>0
  <2> QED BY <2>1 DEF Timer
<1>2. /\ k[1] = "waiting" => k[2] \in Users
      /\ k[1] \in {"seat", "actor"} => k[2] \in Seats
  BY <1>1 DEF Keys
<1>3. \/ room.status = "Lobby" /\ LobbyTimeout(k)
      \/ ~TargetConnected(k) /\ GameTimeout(k)
      \/ UNCHANGED room
  BY DEF TimerFires
<1> HIDE DEF k
<1>4. UNCHANGED room => SparesSeat(room, room', s)
  BY DEF SparesSeat, Present, SlotConnected, Forfeited
<1>5. ASSUME room.status = "Lobby", LobbyTimeout(k) PROVE SparesSeat(room, room', s)
  <2>1. CASE k[1] = "waiting" /\ WaitingReleasable(room, k[2])
    <3> DEFINE q == DropWaiting(room, k[2])
    <3>1. room' \in Settled(q) \/ (IsEmpty(q) /\ room' = EmptyRoom)
      BY <1>5, <2>1 DEF LobbyTimeout, OrRemoved
    <3>2. /\ Sound(q) /\ q.status = "Lobby"
          /\ q.slot[s].state = room.slot[s].state /\ q.slot[s].peer = room.slot[s].peer
      BY <1>0, <1>2, <1>5, <2>1, FreedSpares
    <3> HIDE DEF q
    <3> QED BY <1>0, <3>1, <3>2, LobbySpares
  <2>2. CASE k[1] = "seat" /\ SeatReleasable(room, k[2])
    <3>1. CASE k[2] = s
      BY <2>2, <3>1 DEF SeatReleasable, SparesSeat, Present, SlotConnected
    <3>2. CASE k[2] # s
      <4> DEFINE q == FreeSeat(room, k[2])
      <4>1. room' \in Settled(q) \/ (IsEmpty(q) /\ room' = EmptyRoom)
        BY <1>5, <2>2 DEF LobbyTimeout, OrRemoved
      <4>2. /\ Sound(q) /\ q.status = "Lobby"
            /\ q.slot[s].state = room.slot[s].state /\ q.slot[s].peer = room.slot[s].peer
        BY <1>0, <1>2, <1>5, <2>2, <3>2, FreedSpares
      <4> HIDE DEF q
      <4> QED BY <1>0, <4>1, <4>2, LobbySpares
    <3> QED BY <3>1, <3>2
  <2> QED BY <1>4, <1>5, <2>1, <2>2 DEF LobbyTimeout
<1>6. ASSUME ~TargetConnected(k), GameTimeout(k) PROVE SparesSeat(room, room', s)
  <2>1. CASE k[1] = "actor" /\ room.status = "InGame" /\ ~Forfeited(room, k[2])
    <3>1. CASE k[2] = s
      <4>1. SlotConnected(room, s) => room.slot[s].peer \in room.mapped
        <5>1. room.slot[s].peer \in Peers \cup {NoPeer}
          BY <1>0, SlotTypes DEF Sound, Slot
        <5> QED BY <1>0, <2>1, <5>1 DEF ViewInv, ConnectedPeers, SlotConnected
      <4> QED BY <1>6, <2>1, <3>1, <4>1 DEF TargetConnected, SparesSeat, Present
    <3>2. CASE k[2] # s
      <4>1. PICK q \in MayEnd(Forfeit(room, k[2])) : room' \in Shown(q)
        BY <1>6, <2>1 DEF GameTimeout
      <4> QED BY <1>0, <1>2, <2>1, <3>2, <4>1, ForfeitSpares
    <3> QED BY <3>1, <3>2
  <2> QED BY <1>4, <1>6, <2>1 DEF GameTimeout
<1> QED BY <1>3, <1>4, <1>5, <1>6

\* Only a timer that fires takes a timer away.
LEMMA TimersGrow ==
  ASSUME TypeInv, [Next]_vars, ~TimerFires
  PROVE  Len(timers') >= Len(timers)
<1>0. timers \in Seq(Timer) /\ Len(timers) \in Nat
  BY DEF TypeInv, TypeOK
<1>1. ASSUME NEW p \in Peers, NEW t \in Tokens, Hello(p, t)
      PROVE  timers' = timers
  BY <1>1 DEF Hello, HelloCreate, HelloReconnect, HelloWait, HelloReclaim, HelloSeat,
              HelloSpectate, HelloRejected, Joined
<1>2. ASSUME NEW p \in Peers, Request(p)
      PROVE  timers' = timers
  BY <1>2 DEF Request, JoinRoom, UpdateRoomConfig, AssignRoomSeat, StartGame, BootstrapReady,
              BootstrapFailed, LeaveRoom, ForfeitAndLeave, ActionRequest, Rollback
<1>3. ASSUME NEW p \in Peers, PeerDisconnected(p)
      PROVE  timers' = timers \/ \E x : timers' = Append(timers, x)
  BY <1>3 DEF PeerDisconnected, Schedule
<1>4. RoomListed \/ RemoteEnded \/ UNCHANGED vars => timers' = timers
  BY DEF RoomListed, RemoteEnded, vars
<1>5. \A x : Len(Append(timers, x)) >= Len(timers)
  <2> TAKE x
  <2> QED BY <1>0
<1> QED BY <1>0, <1>1, <1>2, <1>3, <1>4, <1>5 DEF Next

\* A grace timer takes nothing from a player who is there, whichever of his
\* disconnections it was started for (server_disconnect_grace_service.gd): it
\* frees no seat that a connection holds, disconnects nobody, and makes nobody
\* forfeit who is back.
THEOREM GraceSparesPresent == Spec => TimersSparePresent
<1> DEFINE A == Len(timers') < Len(timers) =>
                  \A s \in Seats : SlotConnected(room, s) /\ ~Forfeited(room, s) =>
                    /\ SlotConnected(room', s) /\ ~Forfeited(room', s)
                    /\ room'.slot[s].peer = room.slot[s].peer
<1>1. ViewedInv /\ [Next]_vars => [A]_vars
  <2> SUFFICES ASSUME ViewedInv, [Next]_vars, Len(timers') < Len(timers), NEW s \in Seats
               PROVE  SparesSeat(room, room', s)
    BY DEF SparesSeat, Present
  <2>1. TypeInv /\ TypeInv'
    BY TypeInvStep DEF ViewedInv
  <2>2. Len(timers) \in Nat /\ Len(timers') \in Nat
    BY <2>1 DEF TypeInv, TypeOK
  <2>3. TimerFires
    BY <2>1, <2>2, TimersGrow
  <2> QED BY <2>3, TimerSpares
<1> QED BY <1>1, ViewedInvInvariant, PTL DEF Spec, TimersSparePresent

-----------------------------------------------------------------------------
(* Who is in a normal room.  That peer_to_room knows nobody whom the room   *)
(* does not needs, besides NoPhantomPeer, that a step takes no connection   *)
(* out but the one it removes from peer_to_room, and that in a normal room  *)
(* nobody waits.                                                            *)

Normal(r) == ~r.resume /\ \A u \in Users : r.waiting[u] = NoMember

\* From r to q every connection but e stays where it is.
Spares(r, q, e) ==
  /\ q.resume = r.resume
  /\ \A u \in Users : q.waiting[u] = r.waiting[u]
  /\ \A s \in Seats : r.slot[s].peer \in {e, NoPeer} \/ q.slot[s].peer = r.slot[s].peer
  /\ \A x \in Spectators(r) : x = e \/ q.spectator[x] = r.spectator[x]

\* In a normal room q everybody of r but e is there, and p.
Retains(r, q, e)  == Normal(q) /\ PeerIds(r) \ {e} \subseteq PeerIds(q)
Joins(r, q, p, e) == Retains(r, q, e) /\ p \in PeerIds(q)

\* Sparing everybody, or everybody but the same one, may be repeated.
LEMMA SparesTwice ==
  ASSUME NEW r, NEW q, NEW x, NEW e, NEW f \in {e, NoPeer}, NEW g \in {e, NoPeer},
         Spares(r, q, f), Spares(q, x, g)
  PROVE  Spares(r, x, e)
<1>1. \A y \in Spectators(r) : y # e => y \in Spectators(q)
  BY PeersAssumption DEF Spares, Spectators
<1>2. \A y \in Spectators(r) : y # e => x.spectator[y] = r.spectator[y]
  BY <1>1, PeersAssumption DEF Spares, Spectators
<1> QED BY <1>2 DEF Spares

\* A room that stays as it is spares everybody.
LEMMA SparesReflexive ==
  ASSUME NEW r, NEW e
  PROVE  Spares(r, r, e)
BY DEF Spares

\* Who is spared is still there.
LEMMA SparesRetains ==
  ASSUME NEW r, Normal(r), NEW q, NEW e, Spares(r, q, e)
  PROVE  Retains(r, q, e)
<1>1. Normal(q)
  BY DEF Normal, Spares
<1>2. WaitPeers(r) = {}
  BY DEF Normal, WaitPeers, NoMember
<1>3. SeatPeers(r) \ {e} \subseteq SeatPeers(q)
  BY DEF Spares, SeatPeers
<1>4. Spectators(r) \ {e} \subseteq Spectators(q)
  BY DEF Spares, Spectators
<1> QED BY <1>1, <1>2, <1>3, <1>4 DEF Retains, PeerIds

\* NoPeer is nobody.
LEMMA NobodyIsNoPeer ==
  ASSUME NEW r
  PROVE  NoPeer \notin PeerIds(r)
BY PeersAssumption DEF PeerIds, SeatPeers, WaitPeers, Spectators

\* A step that spares everybody may follow.
LEMMA RetainsThenSpares ==
  ASSUME NEW r, NEW q, NEW x, NEW e, Retains(r, q, e), Spares(q, x, NoPeer)
  PROVE  Retains(r, x, e) /\ PeerIds(q) \subseteq PeerIds(x)
<1>1. Retains(q, x, NoPeer)
  BY SparesRetains DEF Retains
<1>2. PeerIds(q) \subseteq PeerIds(x)
  BY <1>1, NobodyIsNoPeer DEF Retains
<1> QED BY <1>1, <1>2 DEF Retains

\* Broadcasts spare everybody.
LEMMA SettledSpares ==
  ASSUME NEW r, RoomOK(r), NEW q \in Settled(r) \cup Shown(r) \cup Rebuilt(r) \cup {r}
  PROVE  Spares(r, q, NoPeer)
<1>1. /\ Synced(r).resume = r.resume /\ Synced(r).waiting = r.waiting
      /\ Synced(r).spectator = r.spectator
      /\ \A s \in Seats : Synced(r).slot[s].peer = r.slot[s].peer
  BY SlotTypes DEF Synced, RoomOK, RoomRecord, Slot
<1>2. Spares(r, Synced(r), NoPeer) /\ RoomOK(Synced(r))
  BY <1>1, SyncedOK DEF Spares
<1>3. ASSUME NEW x, RoomOK(x), NEW y \in Rebuilt(x) PROVE Spares(x, y, NoPeer)
  BY <1>3 DEF Rebuilt, RoomOK, RoomRecord, Spares
<1>4. q \in Rebuilt(Synced(r)) => Spares(r, q, NoPeer)
  BY <1>2, <1>3, SparesTwice
<1> QED BY <1>3, <1>4, SparesReflexive DEF Settled, Shown

\* With nobody waiting, passing the host role on spares everybody.
LEMMA PromoteSpares ==
  ASSUME NEW r, RoomOK(r), Normal(r)
  PROVE  Spares(r, Promote(r), NoPeer)
<1> DEFINE d == Demoted(r)
<1>1. RoomOK(d)
  BY DemotedOK
<1>2. /\ d.spectator = r.spectator /\ d.resume = r.resume
      /\ d.slot = [s \in Seats |-> [r.slot[s] EXCEPT !.role = "player"]]
      /\ d.waiting = [u \in Users |-> IF u \in Waiting(r)
                         THEN [r.waiting[u] EXCEPT !.role = "player"] ELSE r.waiting[u]]
  BY DEF Demoted, RoomOK, RoomRecord
<1> HIDE DEF d
<1>3. \A s \in Seats : d.slot[s].peer = r.slot[s].peer
  BY <1>2, SlotTypes DEF Slot
<1>4. \A u \in Users : d.waiting[u] = r.waiting[u]
  BY <1>2 DEF Normal, Waiting, NoMember
<1>5. Waiting(d) = {}
  BY <1>4 DEF Normal, Waiting, NoMember
<1>6. Spares(r, d, NoPeer)
  BY <1>2, <1>3, <1>4 DEF Spares
<1>7. ASSUME NEW s \in Seats
      PROVE  Spares(d, [d EXCEPT !.slot[s].role = "host", !.hostSeat = s], NoPeer)
  BY <1>1, SlotTypes DEF RoomOK, RoomRecord, Slot, Spares
<1>8. Occupied(d) # {} => LowestSeat(Occupied(d)) \in Seats
  BY SeatsFacts, LowestSeatIsLeast DEF Occupied
<1>9. Spares(d, Promote(r), NoPeer)
  BY <1>5, <1>7, <1>8, SparesReflexive DEF Promote, d
<1> QED BY <1>6, <1>9, SparesTwice

\* A seat that is freed or vacated spares everybody else.
LEMMA SeatLeftSpares ==
  ASSUME NEW r, RoomOK(r), Normal(r), NEW s \in Seats
  PROVE  Spares(r, FreeSeat(r, s), r.slot[s].peer) /\ Spares(r, VacateSeat(r, s), r.slot[s].peer)
<1> DEFINE e == r.slot[s].peer
           q == [r EXCEPT !.slot[s] = FreeSlot]
           y == Synced(r)
<1>1. RoomOK(q) /\ Spares(r, q, e)
  BY FreeTypes DEF RoomOK, RoomRecord, Spares
<1> HIDE DEF q
<1>2. Normal(q)
  BY <1>1, SparesRetains DEF Retains
<1>3. Spares(q, FreeSeat(r, s), NoPeer)
  BY <1>1, <1>2, PromoteSpares, SparesReflexive DEF FreeSeat, q
<1>4. RoomOK(y) /\ Spares(r, y, NoPeer)
  <2>1. /\ y.resume = r.resume /\ y.waiting = r.waiting /\ y.spectator = r.spectator
        /\ \A t \in Seats : y.slot[t].peer = r.slot[t].peer
    BY SlotTypes DEF Synced, RoomOK, RoomRecord, Slot
  <2> QED BY <2>1, SyncedOK DEF Spares
<1>5. y.slot[s].peer = e
  BY SyncedSlot
<1> HIDE DEF y, e
<1>6. Spares(y, VacateSeat(r, s), e)
  BY <1>4, <1>5, SlotTypes DEF RoomOK, RoomRecord, Slot, Spares, VacateSeat, y
<1> QED BY <1>1, <1>3, <1>4, <1>6, SparesTwice DEF e

\* remove_peer and disconnect_peer spare everybody else.
LEMMA GoneSpares ==
  ASSUME NEW r, RoomOK(r), Normal(r), NEW p \in Peers, HasPeer(r, p)
  PROVE  Spares(r, RemovePeer(r, p), p) /\ Spares(r, DisconnectPeer(r, p), p)
<1>1. UsersOf(r, p) = {}
  BY PeersAssumption DEF Normal, UsersOf, NoMember
<1>2. CASE p \in Spectators(r)
  <2>1. Spares(r, DropSpectator(r, p), p)
    BY DEF DropSpectator, RoomOK, RoomRecord, Spares, Spectators
  <2> QED BY <1>2, <2>1 DEF RemovePeer, DisconnectPeer
<1>3. CASE p \notin Spectators(r)
  <2> DEFINE s == LowestSeat(SeatsOf(r, p))
  <2>1. s \in Seats /\ r.slot[s].peer = p
    BY <1>1, <1>3, SeatOf
  <2>2. /\ RemovePeer(r, p) \in {FreeSeat(r, s), VacateSeat(r, s)}
        /\ DisconnectPeer(r, p) = VacateSeat(r, s)
    BY <1>1, <1>3 DEF RemovePeer, DisconnectPeer
  <2> HIDE DEF s
  <2> QED BY <2>1, <2>2, SeatLeftSpares
<1> QED BY <1>2, <1>3

\* A room that is removed for being empty had nobody left.
LEMMA EmptyHasNobody ==
  ASSUME NEW r, Sound(r), Normal(r), IsEmpty(r) \/ NobodyKeeps(r)
  PROVE  PeerIds(r) = {}
<1>1. WaitPeers(r) = {}
  BY DEF Normal, WaitPeers, NoMember
<1>2. Occupied(r) = {} => SeatPeers(r) = {}
  BY DEF Occupied, SeatPeers, Sound, SeatInv, SlotFits
<1> QED BY <1>1, <1>2 DEF IsEmpty, NobodyKeeps, PeerIds

\* No room is as good as a normal one.
LEMMA EmptyRoomNormal == Normal(EmptyRoom)
BY DEF Normal, EmptyRoom

\* What is left when a seat is given up, or the room is removed with its last member.
LEMMA OrRemovedRetains ==
  ASSUME NEW r, Normal(r), NEW q, Sound(q), NEW e, Spares(r, q, e),
         NEW gone, gone => IsEmpty(q) \/ NobodyKeeps(q), NEW x \in OrRemoved(gone, q)
  PROVE  Retains(r, x, e)
<1>1. Retains(r, q, e) /\ RoomOK(q)
  BY SparesRetains DEF Sound
<1>2. CASE gone
  BY <1>1, <1>2, EmptyHasNobody, EmptyRoomNormal DEF OrRemoved, Retains
<1>3. CASE ~gone
  BY <1>1, <1>3, SettledSpares, RetainsThenSpares DEF OrRemoved
<1> QED BY <1>2, <1>3

\* A connection that leaves or is lost takes nobody with it.
LEMMA LeftRetains ==
  ASSUME NEW r, Sound(r), Normal(r), NEW p \in Peers, NEW x \in Left(r, p) \cup Dropped(r, p)
  PROVE  Retains(r, x, p)
<1>1. CASE ~HasPeer(r, p)
  BY <1>1 DEF Left, Dropped, Retains
<1>2. CASE HasPeer(r, p)
  <2> DEFINE q == RemovePeer(r, p)
             d == DisconnectPeer(r, p)
  <2>1. Sound(q) /\ Sound(d) /\ Spares(r, q, p) /\ Spares(r, d, p)
    BY <1>2, GoneLoses, GoneSpares DEF Sound, LosesTo
  <2>2. x \in OrRemoved(IsEmpty(q), q) \/ x \in OrRemoved(NobodyKeeps(d) \/ IsEmpty(d), d)
    BY <1>2 DEF Left, Dropped
  <2> HIDE DEF q, d
  <2> QED BY <2>1, <2>2, OrRemovedRetains
<1> QED BY <1>1, <1>2

-----------------------------------------------------------------------------
(* Joining a normal room *)

\* A new connection on a seat replaces the one that was there, and no other.
LEMMA SeatedJoins ==
  ASSUME NEW r, RoomOK(r), Normal(r), NEW p \in Peers, NEW s \in Seats, NEW q,
         q.slot[s].peer = p, \A x \in Seats \ {s} : q.slot[x].peer = r.slot[x].peer,
         q.waiting = r.waiting, q.spectator = r.spectator, q.resume = r.resume
  PROVE  Joins(r, q, p, r.slot[s].peer)
<1>1. Spares(r, q, r.slot[s].peer)
  BY DEF Spares
<1>2. p \in PeerIds(q)
  BY PeersAssumption DEF PeerIds, SeatPeers
<1> QED BY <1>1, <1>2, SparesRetains DEF Joins

\* The broadcast that follows a join takes nobody out again.
LEMMA JoinsSettled ==
  ASSUME NEW r, NEW q, RoomOK(q), NEW p, NEW e, Joins(r, q, p, e), NEW x \in Settled(q) \cup Shown(q)
  PROVE  Joins(r, x, p, e)
BY SettledSpares, RetainsThenSpares DEF Joins

\* The operations that put a player on a seat.
LEMMA SeatingJoins ==
  ASSUME NEW r, RoomOK(r), Normal(r), NEW p \in Peers, NEW u \in Users, NEW g \in Gens,
         NEW s \in Seats
  PROVE  /\ \A role \in Roles, n \in Nat : Joins(r, SeatAt(r, p, u, s, role, n), p, r.slot[s].peer)
         /\ Joins(r, Reclaim(r, p, u, s, g), p, r.slot[s].peer)
         /\ \A b : Joins(r, Reconnect(r, p, u, s, b, g), p, r.slot[s].peer)
<1>1. ASSUME NEW role \in Roles, NEW n \in Nat
      PROVE  Joins(r, SeatAt(r, p, u, s, role, n), p, r.slot[s].peer)
  <2> DEFINE q == SeatAt(r, p, u, s, role, n)
  <2>1. /\ q.slot[s].peer = p /\ \A x \in Seats \ {s} : q.slot[x].peer = r.slot[x].peer
        /\ q.waiting = r.waiting /\ q.spectator = r.spectator /\ q.resume = r.resume
    BY DEF SeatAt, SeatedSlot, RoomOK, RoomRecord
  <2> HIDE DEF q
  <2> QED BY <2>1, SeatedJoins DEF q
<1>2. ASSUME NEW a, RoomOK(a), Normal(a)
      PROVE  Joins(a, Reclaim(a, p, u, s, g), p, a.slot[s].peer)
  <2> DEFINE q == Reclaim(a, p, u, s, g)
  <2>1. /\ q.slot[s].peer = p /\ \A x \in Seats \ {s} : q.slot[x].peer = a.slot[x].peer
        /\ q.waiting = a.waiting /\ q.spectator = a.spectator /\ q.resume = a.resume
    BY <1>2 DEF Reclaim, SeatedSlot, RoomOK, RoomRecord
  <2> HIDE DEF q
  <2> QED BY <1>2, <2>1, SeatedJoins DEF q
<1>3. ASSUME NEW b
      PROVE  Joins(r, Reconnect(r, p, u, s, b, g), p, r.slot[s].peer)
  <2> DEFINE a == Synced(r)
             q == Reclaim(a, p, u, s, g)
             x == Reconnect(r, p, u, s, b, g)
  <2>1. RoomOK(a) /\ RoomOK(q)
    BY SyncedOK, ReclaimOK
  <2>2. /\ a.slot[s].peer = r.slot[s].peer /\ a.waiting = r.waiting
        /\ a.spectator = r.spectator /\ a.resume = r.resume
        /\ \A t \in Seats : a.slot[t].peer = r.slot[t].peer
    BY SlotTypes DEF Synced, RoomOK, RoomRecord, Slot
  <2>3. Spares(r, a, NoPeer) /\ Normal(a)
    BY <2>2 DEF Spares, Normal
  <2> HIDE DEF a
  <2>4. Joins(a, q, p, r.slot[s].peer)
    BY <1>2, <2>1, <2>2, <2>3
  <2>5. PeerIds(r) \subseteq PeerIds(a)
    BY <2>3, SparesRetains, NobodyIsNoPeer DEF Retains
  <2> HIDE DEF q
  <2>6. Spares(q, [q EXCEPT !.slot[s].role = "host", !.hostSeat = s], NoPeer)
    BY <2>1, SlotTypes DEF RoomOK, RoomRecord, Slot, Spares
  <2>7. Spares(q, x, NoPeer)
    BY <2>6, SparesReflexive DEF Reconnect, q, a
  <2> HIDE DEF x
  <2>8. Joins(a, x, p, r.slot[s].peer)
    <3> DEFINE e == r.slot[s].peer
    <3>1. Retains(a, q, e) /\ p \in PeerIds(q)
      BY <2>4 DEF Joins
    <3> HIDE DEF e
    <3>2. Retains(a, x, e) /\ PeerIds(q) \subseteq PeerIds(x)
      BY ONLY <2>7, <3>1, RetainsThenSpares
    <3> USE DEF e
    <3> QED BY <3>1, <3>2 DEF Joins
  <2> QED BY <2>5, <2>8 DEF Joins, Retains, x
<1> QED BY <1>1, <1>2, <1>3

\* A free seat is nobody's, so that taking it replaces nobody.
LEMMA AddPeerJoins ==
  ASSUME NEW r, Sound(r), Normal(r), NEW p \in Peers, NEW u \in Users, NEW g \in Gens
  PROVE  /\ CanAddPeer(r, p) => Joins(r, AddPeer(r, p, u, g), p, NoPeer)
         /\ \A s \in Seats : CanAddPeerAtSeat(r, p, s) => Joins(r, AddPeerAtSeat(r, p, u, s, g), p, NoPeer)
<1>1. RoomOK(r) /\ InitialGeneration(g) \in Nat
  BY GenerationType DEF Sound
<1>2. ASSUME NEW s \in Seats, s \notin Occupied(r) PROVE r.slot[s].peer = NoPeer
  BY <1>2 DEF Occupied, Sound, SeatInv, SlotFits
<1>3. CanAddPeer(r, p) => PickSeat(r) \in Seats /\ PickSeat(r) \notin Occupied(r)
  BY <1>1, PickSeatType DEF CanAddPeer
<1>4. CanAddPeer(r, p) => Joins(r, AddPeer(r, p, u, g), p, NoPeer)
  BY <1>1, <1>2, <1>3, SeatingJoins DEF AddPeer, Roles
<1>5. ASSUME NEW s \in Seats, CanAddPeerAtSeat(r, p, s)
      PROVE  Joins(r, AddPeerAtSeat(r, p, u, s, g), p, NoPeer)
  BY <1>1, <1>2, <1>5, SeatingJoins DEF CanAddPeerAtSeat, AddPeerAtSeat, Roles
<1> QED BY <1>4, <1>5

\* A connection that starts to watch replaces the one of its user that watched.
LEMMA AddSpectatorJoins ==
  ASSUME NEW r, RoomOK(r), Normal(r), NEW p \in Peers, ~HasPeer(r, p), NEW u \in Users, NEW old
  PROVE  Joins(r, AddSpectator(r, p, u, old), p, old)
<1> DEFINE q == AddSpectator(r, p, u, old)
<1>1. /\ q.slot = r.slot /\ q.waiting = r.waiting /\ q.resume = r.resume
      /\ q.spectator = [x \in Peers |-> IF x = p THEN u ELSE IF x = old THEN NoUser ELSE r.spectator[x]]
  BY DEF AddSpectator, RoomOK, RoomRecord
<1>2. p \notin Spectators(r)
  BY DEF HasPeer, PeerIds
<1> HIDE DEF q
<1>3. Spares(r, q, old)
  BY <1>1, <1>2 DEF Spares, Spectators
<1>4. p \in PeerIds(q)
  BY <1>1, UsersAssumption DEF PeerIds, Spectators, NoUser
<1> QED BY <1>3, <1>4, SparesRetains DEF Joins, q

\* A normal room that is created holds its host.
LEMMA CreateJoins ==
  ASSUME NEW p \in Peers, NEW u \in Users, NEW g \in Gens, NEW n \in PlayerCounts,
         NEW x \in Settled(AddPeer(NewRoom(FALSE, n), p, u, g))
  PROVE  Normal(x) /\ p \in PeerIds(x)
<1> DEFINE r == NewRoom(FALSE, n)
           q == AddPeer(r, p, u, g)
<1>1. n \in 1..NumSeats
  BY PlayerCountsAssumption
<1>2. /\ RoomOK(r) /\ r.slot = EmptyRoom.slot /\ r.waiting = EmptyRoom.waiting
      /\ r.spectator = EmptyRoom.spectator /\ r.status = "Lobby" /\ r.desired = n
      /\ r.resume = FALSE /\ r.forfeits = << >>
  BY <1>1, NewRoomOK DEF NewRoom, EmptyRoom
<1> HIDE DEF r
<1>3. /\ PeerIds(r) = {} /\ Occupied(r) = {} /\ \A s \in Seats : r.slot[s] = FreeSlot
      /\ Normal(r)
  BY <1>2 DEF EmptyRoom, PeerIds, SeatPeers, WaitPeers, Spectators, Occupied,
              FreeSlot, NoMember, Normal
<1>4. Sound(r)
  BY <1>2, <1>3 DEF Sound, SeatInv, SlotFits, EmptyRoom, FreeSlot, NoMember
<1>5. CanAddPeer(r, p)
  <2>1. Cardinality(Occupied(r)) = 0
    BY <1>3, FS_EmptySet
  <2> QED BY <1>1, <1>2, <1>3, <2>1, NumSeatsAssumption DEF CanAddPeer, HasPeer, IsFull
<1>6. Joins(r, q, p, NoPeer) /\ RoomOK(q)
  BY <1>2, <1>3, <1>4, <1>5, AddPeerJoins, AddPeerOK DEF CanAddPeer
<1>7. x \in Settled(q)
  BY DEF r
<1> HIDE DEF q
<1> QED BY <1>6, <1>7, JoinsSettled DEF Joins, Retains

-----------------------------------------------------------------------------
(* The room and peer_to_room *)

\* Nobody is known to peer_to_room only.
RosterInv == Normal(room) /\ members \subseteq PeerIds(room)

\* What the steps may rely on.
RosterBase == ViewedInv /\ PlaceInv /\ RosterInv

\* A step that takes e out of peer_to_room, and nobody else out of the room.
LEMMA RosterRetains ==
  ASSUME RosterInv, NEW e, Retains(room, room', e), members' \subseteq members \ {e}
  PROVE  RosterInv'
BY DEF RosterInv, Retains

\* A step that lets p in, replacing e, in the room and in peer_to_room.
LEMMA RosterJoins ==
  ASSUME RosterInv, NEW p, NEW e, Joins(room, room', p, e), members' = (members \ {e}) \cup {p}
  PROVE  RosterInv'
BY DEF RosterInv, Joins, Retains

\* A step after which everybody is where he was.
LEMMA RosterSpares ==
  ASSUME RosterInv, NEW q, RoomOK(q), Spares(room, q, NoPeer),
         room' \in Settled(q) \cup Shown(q) \cup Rebuilt(q) \cup {q}, members' = members
  PROVE  RosterInv'
<1>1. Spares(room, room', NoPeer)
  BY SettledSpares, SparesTwice
<1>2. Retains(room, room', NoPeer)
  BY <1>1, SparesRetains DEF RosterInv
<1> QED BY <1>2, NobodyIsNoPeer, RosterRetains DEF RosterInv

\* Every hello that joins a normal room.
LEMMA HelloRoster ==
  ASSUME ~ResumeMode, RosterBase, NEW p \in Peers, NEW t \in Tokens, Hello(p, t)
  PROVE  RosterInv'
<1>0. /\ t.user \in Users /\ t.gen \in Gens /\ t.seat \in Seats \cup {NoSeat} /\ TypeInv
      /\ RoomOK(room) /\ Sound(room) /\ Normal(room) /\ RosterInv /\ Fit(room)
  BY TokenTypes DEF RosterBase, RosterInv, ViewedInv, RoomInv, Sound, PlaceInv
<1>1. ASSUME NEW q, RoomOK(q), NEW e, Joins(room, q, p, e), Joined(p, t, e),
             room' \in Settled(q) \cup Shown(q)
      PROVE  RosterInv'
  BY <1>0, <1>1, JoinsSettled, RosterJoins DEF Joined
<1>2. CASE \E n \in PlayerCounts : HelloCreate(p, t, n)
  <2> PICK n \in PlayerCounts : HelloCreate(p, t, n)
    BY <1>2
  <2>1. room' \in Settled(AddPeer(NewRoom(FALSE, n), p, t.user, t.gen)) /\ ~Exists
        /\ members' = (members \ {NoPeer}) \cup {p}
    BY ResumeModeAssumption DEF HelloCreate, Joined
  <2>2. Normal(room') /\ p \in PeerIds(room')
    BY <1>0, <2>1, CreateJoins
  <2>3. members = {}
    BY <1>0, <2>1 DEF Exists, Fit, RosterInv
  <2> QED BY <2>1, <2>2, <2>3 DEF RosterInv
<1>3. CASE HelloReconnect(p, t)
  <2> DEFINE s == GameSeat(t)
             q == Reconnect(room, p, t.user, s, t.role = "host", t.gen)
  <2>1. s \in Seats
    BY <1>0, <1>3, GameSeatType DEF HelloReconnect
  <2>2. RoomOK(q) /\ Joins(room, q, p, room.slot[s].peer)
    BY <1>0, <2>1, ReconnectOK, SeatingJoins
  <2> QED BY <1>1, <1>3, <2>2 DEF HelloReconnect
<1>4. CASE HelloWait(p, t)
  BY <1>0, <1>4 DEF HelloWait, CanAddWaiting, Normal
<1>5. CASE HelloReclaim(p, t)
  <2> DEFINE q == Reclaim(room, p, t.user, t.seat, t.gen)
  <2>1. t.seat \in Seats
    BY <1>0, <1>5 DEF HelloReclaim
  <2>2. RoomOK(q) /\ Joins(room, q, p, room.slot[t.seat].peer)
    BY <1>0, <2>1, ReclaimOK, SeatingJoins
  <2> QED BY <1>1, <1>5, <2>2 DEF HelloReclaim
<1>6. CASE HelloSeat(p, t)
  <2> DEFINE q == AddPeerAtSeat(room, p, t.user, t.seat, t.gen)
  <2>1. t.seat \in Seats /\ CanAddPeerAtSeat(room, p, t.seat)
    BY <1>0, <1>6 DEF HelloSeat
  <2>2. RoomOK(q) /\ Joins(room, q, p, NoPeer)
    BY <1>0, <2>1, AddPeerAtSeatOK, AddPeerJoins
  <2> QED BY <1>1, <1>6, <2>2 DEF HelloSeat
<1>7. CASE HelloSpectate(p, t)
  <2> PICK old \in ReplacedSpectators(t.user) :
         room' \in Shown(AddSpectator(room, p, t.user, old)) /\ Joined(p, t, old)
    BY <1>7 DEF HelloSpectate
  <2>1. RoomOK(AddSpectator(room, p, t.user, old)) /\ Joins(room, AddSpectator(room, p, t.user, old), p, old)
    BY <1>0, <1>7, AddSpectatorOK, AddSpectatorJoins DEF HelloSpectate, CanSpectate
  <2> QED BY <1>1, <2>1
<1>8. CASE HelloRejected(p, t)
  BY <1>0, <1>8, RosterSpares, SparesReflexive DEF HelloRejected
<1> QED
  BY <1>2, <1>3, <1>4, <1>5, <1>6, <1>7, <1>8 DEF Hello

\* The start session and the game move nobody.
LEMMA GameSpares ==
  ASSUME NEW r, RoomOK(r), Normal(r)
  PROVE  /\ Spares(r, BeginStart(r), NoPeer) /\ Spares(r, AbortStart(r), NoPeer)
         /\ Spares(r, CommitStart(r), NoPeer)
         /\ \A s \in Seats : Spares(r, Forfeit(r, s), NoPeer)
<1>1. Spares(r, BeginStart(r), NoPeer) /\ Spares(r, AbortStart(r), NoPeer)
  BY DEF RoomOK, RoomRecord, Spares, BeginStart, AbortStart
<1>2. Spares(r, CommitStart(r), NoPeer)
  BY SlotTypes DEF RoomOK, RoomRecord, Slot, Spares, CommitStart, Normal
<1>3. ASSUME NEW s \in Seats PROVE Spares(r, Forfeit(r, s), NoPeer)
  BY DEF RoomOK, RoomRecord, Spares, Forfeit
<1> QED BY <1>1, <1>2, <1>3

\* Nor does the end of the game.
LEMMA MayEndSpares ==
  ASSUME NEW r, RoomOK(r), NEW q \in MayEnd(r)
  PROVE  Spares(r, q, NoPeer)
BY DEF RoomOK, RoomRecord, Spares, MayEnd

\* A forfeit with what may follow it, as the handlers see it.
LEMMA ForfeitRetains ==
  ASSUME NEW r, Live(r), Sound(r), Normal(r), r.status = "InGame", NEW s \in Seats,
         NEW q \in MayEnd(r) \cup MayEnd(Forfeit(r, s))
  PROVE  RoomOK(q) /\ Sound(q) /\ Spares(r, q, NoPeer)
<1>1. Live(Forfeit(r, s)) /\ Spares(r, Forfeit(r, s), NoPeer)
  BY ForfeitLive, GameSpares DEF Live
<1>2. Spares(r, q, NoPeer)
  BY <1>1, MayEndSpares, SparesTwice DEF Live
<1>3. Sound(q)
  BY ForfeitLoses DEF LosesTo, Live
<1> QED BY <1>2, <1>3 DEF Sound

\* A cancelled start spares everybody.
LEMMA CancelledSpares ==
  ASSUME RoomOK(room), Normal(room), NEW r \in Cancelled
  PROVE  Spares(room, r, NoPeer)
<1>1. CASE room.status = "Starting"
  <2>1. RoomOK(AbortStart(room))
    BY <1>1, AbortStartLive DEF Live
  <2> QED BY <1>1, <2>1, GameSpares, SettledSpares, SparesTwice DEF Cancelled
<1>2. CASE room.status # "Starting"
  BY <1>2, SparesReflexive DEF Cancelled
<1> QED BY <1>1, <1>2

\* A member who leaves the room r that a cancelled start or a forfeit left.
LEMMA RosterLeft ==
  ASSUME RosterInv, NEW r, Sound(r), Spares(room, r, NoPeer), NEW p \in Peers,
         room' \in Left(r, p) \cup Dropped(r, p), members' = members \ {p}
  PROVE  RosterInv'
<1>1. Retains(room, r, NoPeer)
  BY SparesRetains DEF RosterInv
<1>2. Retains(r, room', p)
  BY <1>1, LeftRetains DEF Retains
<1>3. Retains(room, room', p)
  BY <1>1, <1>2, NobodyIsNoPeer DEF Retains
<1> QED BY <1>3, RosterRetains

\* A request moves nobody, but for the one who joins and the one who leaves.
LEMMA RequestRoster ==
  ASSUME RosterBase, NEW p \in Peers, Request(p)
  PROVE  RosterInv'
<1>0. /\ RoomOK(room) /\ Sound(room) /\ Normal(room) /\ RosterInv /\ TypeInv
      /\ RoomInv(room) /\ ViewInv(room)
  BY DEF RosterBase, RosterInv, ViewedInv, RoomInv, Sound
<1>1. CASE JoinRoom(p)
  <2>1. profile[p] \in Users /\ NoGen \in Gens
    BY <1>0, <1>1 DEF JoinRoom, TypeInv, TypeOK, Gens
  <2>2. CASE CanAddPeer(room, p) /\ room' \in Settled(AddPeer(room, p, profile[p], NoGen))
             /\ members' = members \cup {p}
    <3>1. RoomOK(AddPeer(room, p, profile[p], NoGen)) /\ Joins(room, AddPeer(room, p, profile[p], NoGen), p, NoPeer)
      BY <1>0, <2>1, <2>2, AddPeerOK, AddPeerJoins DEF CanAddPeer
    <3>2. Joins(room, room', p, NoPeer)
      BY <2>2, <3>1, JoinsSettled
    <3>3. NoPeer \notin members
      BY <1>0, NobodyIsNoPeer DEF RosterInv
    <3> QED BY <1>0, <2>2, <3>2, <3>3, RosterJoins
  <2>3. CASE CanSpectate(room, p) /\ \E old \in ReplacedSpectators(profile[p]) :
               /\ room' \in Shown(AddSpectator(room, p, profile[p], old))
               /\ members' = (members \ {old}) \cup {p}
    <3> PICK old \in ReplacedSpectators(profile[p]) :
               /\ room' \in Shown(AddSpectator(room, p, profile[p], old))
               /\ members' = (members \ {old}) \cup {p}
      BY <2>3
    <3>1. /\ RoomOK(AddSpectator(room, p, profile[p], old))
          /\ Joins(room, AddSpectator(room, p, profile[p], old), p, old)
      BY <1>0, <2>1, <2>3, AddSpectatorOK, AddSpectatorJoins DEF CanSpectate
    <3>2. Joins(room, room', p, old)
      BY <3>1, JoinsSettled
    <3> QED BY <1>0, <3>2, RosterJoins
  <2> QED BY <1>1, <2>2, <2>3 DEF JoinRoom
<1>2. CASE \E n \in PlayerCounts : UpdateRoomConfig(p, n)
  <2> PICK n \in PlayerCounts : UpdateRoomConfig(p, n)
    BY <1>2
  <2> DEFINE q == [room EXCEPT !.desired = n]
  <2>1. n \in 1..NumSeats /\ n \in Nat
    BY PlayerCountsAssumption, NumSeatsAssumption
  <2>2. /\ RoomOK(q) /\ q.slot = room.slot /\ q.waiting = room.waiting
        /\ q.spectator = room.spectator /\ q.resume = room.resume
    BY <1>0, <2>1 DEF RoomOK, RoomRecord
  <2>3. room' \in Shown(q) /\ members' = members
    BY DEF UpdateRoomConfig
  <2> HIDE DEF q
  <2>4. Spares(room, q, NoPeer)
    BY <2>2 DEF Spares
  <2> QED BY <1>0, <2>2, <2>3, <2>4, RosterSpares
<1>3. CASE AssignRoomSeat(p)
  BY <1>0, <1>3 DEF AssignRoomSeat, CanAssign, CanUnassign, Normal
<1>4. CASE StartGame(p)
  <2>1. RoomOK(BeginStart(room)) /\ Spares(room, BeginStart(room), NoPeer)
    BY <1>0, <1>4, BeginStartLive, GameSpares DEF StartGame, CanStart, Live
  <2> QED BY <1>0, <1>4, <2>1, RosterSpares DEF StartGame
<1>5. CASE BootstrapReady(p)
  <2> DEFINE r == [room EXCEPT !.ready = @ \cup {p}]
  <2>1. room.ready \cup {p} \in SUBSET Peers /\ Live(room)
    BY <1>0, <1>5 DEF BootstrapReady, InRoom, Exists, Live, RoomOK, RoomRecord
  <2>2. Live(r) /\ Spares(room, r, NoPeer)
    BY <2>1, ReadyLive DEF Spares, Live, RoomOK, RoomRecord
  <2>3. room' \in Settled(CommitStart(r)) \cup {r} /\ members' = members
    BY <1>5 DEF BootstrapReady
  <2> HIDE DEF r
  <2>4. Normal(r)
    BY <1>0, <2>2, SparesRetains DEF Retains
  <2>5. Live(CommitStart(r)) /\ Spares(room, CommitStart(r), NoPeer)
    BY <2>2, <2>4, CommitStartLive, GameSpares, SparesTwice DEF Live
  <2> QED BY <1>0, <2>2, <2>3, <2>5, RosterSpares DEF Live
<1>6. CASE BootstrapFailed(p)
  <2>1. RoomOK(AbortStart(room)) /\ Spares(room, AbortStart(room), NoPeer)
    BY <1>0, <1>6, AbortStartLive, GameSpares DEF BootstrapFailed, Live
  <2> QED BY <1>0, <1>6, <2>1, RosterSpares DEF BootstrapFailed
<1>7. CASE LeaveRoom(p)
  <2>1. CASE Exists
    <3> PICK r \in Cancelled : room' \in Left(r, p)
      BY <1>7, <2>1 DEF LeaveRoom
    <3>1. Sound(r) /\ Spares(room, r, NoPeer)
      BY <1>0, CancelledGoes, CancelledSpares DEF Goes, Keeps, RoomInv
    <3> QED BY <1>0, <1>7, <3>1, RosterLeft DEF LeaveRoom
  <2>2. CASE ~Exists
    BY <1>0, <1>7, <2>2 DEF LeaveRoom, RosterInv
  <2> QED BY <2>1, <2>2
<1>8. CASE ForfeitAndLeave(p)
  <2> DEFINE a == ActorOf(room, p)
  <2>1. CASE room.status = "InGame" /\ a # NoSeat /\ ~Forfeited(room, a)
    <3>1. a \in Seats
      BY <1>0, <2>1, ActorType
    <3> PICK r \in MayEnd(Forfeit(room, a)) : room' \in Left(r, p)
      BY <1>8, <2>1 DEF ForfeitAndLeave
    <3> HIDE DEF a
    <3>2. Sound(r) /\ Spares(room, r, NoPeer)
      BY <1>0, <2>1, <3>1, ForfeitRetains DEF Live
    <3> QED BY <1>0, <1>8, <3>2, RosterLeft DEF ForfeitAndLeave
  <2>2. CASE ~(room.status = "InGame" /\ a # NoSeat /\ ~Forfeited(room, a))
    <3>1. room' \in Left(room, p) /\ members' = members \ {p}
      BY <1>8, <2>2 DEF ForfeitAndLeave
    <3> QED BY <1>0, <3>1, SparesReflexive, RosterLeft
  <2> QED BY <2>1, <2>2
<1>9. CASE ActionRequest(p)
  <2>1. ActorOf(room, p) \in Seats /\ room.status = "InGame"
    BY <1>0, <1>9, ActorType DEF ActionRequest
  <2>2. room' \in MayEnd(Forfeit(room, ActorOf(room, p))) \cup MayEnd(room) /\ members' = members
    BY <1>9 DEF ActionRequest, MayEnd
  <2>3. RoomOK(room') /\ Spares(room, room', NoPeer)
    BY <1>0, <2>1, <2>2, ForfeitRetains DEF Live
  <2> QED BY <1>0, <2>2, <2>3, RosterSpares
<1>10. CASE Rollback(p)
  <2> PICK i \in 0..Len(room.forfeits)-1 :
         room' \in Shown([room EXCEPT !.forfeits = SubSeq(@, 1, i)])
    BY <1>10 DEF Rollback
  <2> DEFINE q == [room EXCEPT !.forfeits = SubSeq(@, 1, i)]
  <2>1. room.forfeits \in Seq(Seats) /\ Live(room)
    BY <1>0, <1>10 DEF Rollback, Live, RoomOK, RoomRecord
  <2>2. SubSeq(room.forfeits, 1, i) \in Seq(Seats)
    BY <2>1
  <2>3. Live(q) /\ Spares(room, q, NoPeer)
    BY <2>1, <2>2, ForfeitsLive DEF Spares, Live, RoomOK, RoomRecord
  <2>4. room' \in Shown(q) /\ members' = members
    BY <1>10 DEF Rollback
  <2> HIDE DEF q
  <2> QED BY <1>0, <2>3, <2>4, RosterSpares DEF Live
<1> QED
  BY <1>1, <1>2, <1>3, <1>4, <1>5, <1>6, <1>7, <1>8, <1>9, <1>10 DEF Request

\* A lost connection takes nobody with it.
LEMMA DisconnectedRoster ==
  ASSUME RosterBase, NEW p \in Peers, PeerDisconnected(p)
  PROVE  RosterInv'
<1>0. RoomOK(room) /\ Normal(room) /\ RosterInv /\ RoomInv(room) /\ ViewInv(room)
  BY DEF RosterBase, RosterInv, ViewedInv, RoomInv, Sound
<1>1. CASE InRoom(p)
  <2> PICK r \in Cancelled : room' \in Left(r, p) \cup Dropped(r, p)
    BY <1>1 DEF PeerDisconnected
  <2>1. Sound(r) /\ Spares(room, r, NoPeer)
    BY <1>0, CancelledGoes, CancelledSpares DEF Goes, Keeps, RoomInv
  <2> QED BY <1>0, <2>1, RosterLeft DEF PeerDisconnected
<1>2. CASE ~InRoom(p)
  BY <1>0, <1>2 DEF PeerDisconnected, RosterInv
<1> QED BY <1>1, <1>2

\* A grace timer takes nobody out: the seat it frees is nobody's.
LEMMA TimerRoster ==
  ASSUME RosterBase, TimerFires
  PROVE  RosterInv'
<1> DEFINE k == Head(timers).key
<1>0. /\ RoomOK(room) /\ Sound(room) /\ Normal(room) /\ RosterInv /\ members' = members
      /\ timers \in Seq(Timer) /\ timers # << >>
  BY DEF TimerFires, RosterBase, RosterInv, ViewedInv, RoomInv, Sound, TypeInv, TypeOK
<1>1. k \in Keys
  <2>1. Head(timers) \in Timer
    BY <1>0
  <2> QED BY <2>1 DEF Timer
<1>2. k[1] \in {"seat", "actor"} => k[2] \in Seats
  BY <1>1 DEF Keys
<1>3. LobbyTimeout(k) \/ GameTimeout(k) \/ UNCHANGED room
  BY DEF TimerFires
<1> HIDE DEF k
<1>4. UNCHANGED room => RosterInv'
  BY <1>0 DEF RosterInv
<1>5. ASSUME LobbyTimeout(k) PROVE RosterInv'
  <2>1. ~(k[1] = "waiting" /\ WaitingReleasable(room, k[2]))
    BY <1>0 DEF WaitingReleasable, Waiting, Normal, NoMember
  <2>2. CASE k[1] = "seat" /\ SeatReleasable(room, k[2])
    <3> DEFINE q == FreeSeat(room, k[2])
    <3>1. k[2] \in Seats /\ room.slot[k[2]].peer = NoPeer
      BY <1>2, <2>2 DEF SeatReleasable
    <3>2. Sound(q) /\ Spares(room, q, NoPeer)
      BY <1>0, <3>1, FreeSeatLoses, SeatLeftSpares DEF LosesTo
    <3>3. room' \in OrRemoved(IsEmpty(q), q)
      BY <1>5, <2>2 DEF LobbyTimeout
    <3> HIDE DEF q
    <3>4. Retains(room, room', NoPeer)
      BY <1>0, <3>2, <3>3, OrRemovedRetains
    <3> QED BY <1>0, <3>4, NobodyIsNoPeer, RosterRetains DEF RosterInv
  <2> QED BY <1>4, <1>5, <2>1, <2>2 DEF LobbyTimeout
<1>6. ASSUME GameTimeout(k) PROVE RosterInv'
  <2>1. CASE UNCHANGED room
    BY <1>4, <2>1
  <2>2. CASE k[1] = "actor" /\ room.status = "InGame" /\ \E r \in MayEnd(Forfeit(room, k[2])) : room' \in Shown(r)
    <3> PICK r \in MayEnd(Forfeit(room, k[2])) : room' \in Shown(r)
      BY <2>2
    <3>1. RoomOK(r) /\ Spares(room, r, NoPeer)
      BY <1>0, <1>2, <2>2, ForfeitRetains DEF Live
    <3> QED BY <1>0, <3>1, RosterSpares
  <2> QED BY <1>6, <2>1, <2>2 DEF GameTimeout
<1> QED BY <1>3, <1>4, <1>5, <1>6

\* peer_to_room and a normal room agree on who is in it (room_manager.gd):
\* through replaced connections, leaves, lost connections, releases, cancelled
\* starts and removals nobody is left in only one of the two.
THEOREM RostersAgree ==
  ASSUME ~ResumeMode
  PROVE  Spec => []RosterAgreement
<1>1. Init => RosterInv
  BY EmptyRoomNormal DEF Init, RosterInv
<1>2. RosterBase /\ [Next]_vars => RosterInv'
  <2> SUFFICES ASSUME RosterBase, [Next]_vars PROVE RosterInv'
    OBVIOUS
  <2>0. RosterInv /\ RoomOK(room)
    BY DEF RosterBase, ViewedInv, RoomInv, Sound
  <2>1. ASSUME NEW p \in Peers, NEW t \in Tokens, Hello(p, t)
        PROVE  RosterInv'
    BY <2>1, HelloRoster
  <2>2. ASSUME NEW p \in Peers, Request(p) \/ PeerDisconnected(p)
        PROVE  RosterInv'
    BY <2>2, RequestRoster, DisconnectedRoster
  <2>3. CASE TimerFires
    BY <2>3, TimerRoster
  <2>4. CASE RoomListed
    BY <2>0, <2>4, SparesReflexive, RosterSpares DEF RoomListed
  <2>5. CASE RemoteEnded
    BY <2>5, EmptyRoomNormal DEF RemoteEnded, RosterInv
  <2>6. CASE UNCHANGED vars
    BY <2>0, <2>6 DEF vars, RosterInv
  <2> QED BY <2>1, <2>2, <2>3, <2>4, <2>5, <2>6 DEF Next
<1>3. PlaceInv /\ RosterInv => RosterAgreement
  BY DEF PlaceInv, NoPhantomPeer, RosterInv, RosterAgreement
<1> QED BY <1>1, <1>2, <1>3, ViewedInvInvariant, PlaceInvInvariant, PTL DEF Spec, RosterBase

=============================================================================
