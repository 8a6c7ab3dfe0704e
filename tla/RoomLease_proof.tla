-------------------------- MODULE RoomLease_proof --------------------------
(***************************************************************************)
(* RoomServer implements SeatLease, for any number of users, seats,        *)
(* connections and tokens.                                                 *)
(*                                                                         *)
(* The inductive invariant says what the state of a seat tells about the   *)
(* rest of it; every operation is shown to move each seat as the lease     *)
(* allows.                                                                 *)
(*                                                                         *)
(* Then what becomes of the table of a game: it has somebody to play, it   *)
(* keeps its seats and its forfeits, and the room implements RoomLife.     *)
(***************************************************************************)
EXTENDS RoomServer_proof

SlotFits(t) ==
  /\ t.state = "FREE" => t.user = NoUser /\ t.gen = 0 /\ t.peer = NoPeer
  /\ t.state # "FREE" => t.user # NoUser /\ t.gen >= 1
  /\ t.state = "CONNECTED" => t.peer # NoPeer
  /\ t.state = "RECONNECTING" => t.peer = NoPeer

\* Seats are as their states say, forfeits belong to games, and members who
\* wait have a generation.
SeatInv(r) ==
  /\ \A s \in Seats : /\ SlotFits(r.slot[s])
                      /\ r.status \in {"Lobby", "Starting"} => r.slot[s].state # "FORFEITED"
                      /\ r.status = "None" => r.slot[s].state = "FREE"
  /\ r.status \in {"Lobby", "Starting"} => r.forfeits = << >>
  /\ \A u \in Users : r.waiting[u].role # "none" => r.waiting[u].gen >= 1

\* How a seat may move: by itself it is only lost or freed; a joining player
\* may claim or renew it.
Kept(a, b) == b.state = a.state /\ b.user = a.user /\ b.gen = a.gen
Lost(a, b) ==
  \/ Kept(a, b)
  \/ a.state # "FREE" /\ b.state \in {"RECONNECTING", "FORFEITED"} /\ b.user = a.user /\ b.gen = a.gen
  \/ a.state # "FREE" /\ b.state = "FREE"
Moved(a, b) ==
  \/ Lost(a, b)
  \/ a.state = "FREE" /\ b.state \in {"CONNECTED", "RECONNECTING"}
  \/ /\ a.state \in {"CONNECTED", "RECONNECTING"} /\ b.state = "CONNECTED"
     /\ b.user = a.user /\ b.gen > a.gen

Loses(r, q)  == \A s \in Seats : Lost(r.slot[s], q.slot[s])
Moves(r, q)  == \A s \in Seats : Moved(r.slot[s], q.slot[s])

\* A room that is sound on its own, and one that follows r by losses only.
Sound(r)      == RoomOK(r) /\ SeatInv(r)
LosesTo(r, q) == Sound(q) /\ Loses(r, q)
MovesTo(r, q) == Sound(q) /\ Moves(r, q)

\* Losses may follow one another.
LEMMA LosesTransitive ==
  ASSUME NEW r, NEW q, NEW x, Sound(r), Sound(q), LosesTo(r, q), LosesTo(q, x)
  PROVE  LosesTo(r, x)
<1> SUFFICES ASSUME NEW s \in Seats PROVE Lost(r.slot[s], x.slot[s])
  BY DEF LosesTo, Loses
<1>1. Lost(r.slot[s], q.slot[s]) /\ Lost(q.slot[s], x.slot[s])
  BY DEF LosesTo, Loses
<1>2. r.slot[s] \in Slot /\ q.slot[s] \in Slot /\ x.slot[s] \in Slot
  BY SlotTypes DEF Sound, LosesTo
<1> QED BY <1>1, <1>2 DEF Lost, Kept, Slot, SeatStates

\* A room that does not change loses nothing, and losses are moves.
LEMMA LosesReflexive ==
  ASSUME NEW r, Sound(r)
  PROVE  LosesTo(r, r)
BY DEF LosesTo, Loses, Lost, Kept

\* What only loses seats moves them as the lease allows.
LEMMA LosesMoves ==
  ASSUME NEW r, NEW q, LosesTo(r, q)
  PROVE  MovesTo(r, q)
BY DEF LosesTo, Loses, MovesTo, Moves, Moved

\* The views, and everything else that is not about seats, do not matter.
LEMMA OtherFields ==
  ASSUME NEW r, Sound(r), NEW q, RoomOK(q), q.slot = r.slot, q.status = r.status,
         q.forfeits = r.forfeits, q.waiting = r.waiting
  PROVE  LosesTo(r, q)
BY DEF Sound, SeatInv, LosesTo, Loses, Lost, Kept

-----------------------------------------------------------------------------
(* Broadcasts *)

\* Syncing with the engine loses seats to forfeits, in a game only.
LEMMA SyncedLoses ==
  ASSUME NEW r, Sound(r)
  PROVE  LosesTo(r, Synced(r))
<1> DEFINE q == Synced(r)
<1>1. CASE r.status # "InGame"
  BY <1>1, LosesReflexive DEF Synced
<1>2. CASE r.status = "InGame"
  <2>1. RoomOK(r) /\ RoomOK(q)
    BY SyncedOK DEF Sound
  <2>2. /\ q.status = r.status /\ q.forfeits = r.forfeits /\ q.waiting = r.waiting
        /\ \A s \in Seats : q.slot[s] = IF r.slot[s].state # "FREE" /\ Forfeited(r, s)
                                          THEN [r.slot[s] EXCEPT !.state = "FORFEITED"] ELSE r.slot[s]
    BY <1>2, <2>1 DEF Synced, RoomOK, RoomRecord
  <2> HIDE DEF q
  <2>3. ASSUME NEW s \in Seats
        PROVE  SlotFits(q.slot[s]) /\ Lost(r.slot[s], q.slot[s])
    <3>1. r.slot[s] \in Slot /\ SlotFits(r.slot[s])
      BY SlotTypes DEF Sound, SeatInv
    <3> QED BY <2>2, <3>1 DEF Slot, SlotFits, Lost, Kept
  <2>4. SeatInv(q)
    BY <1>2, <2>2, <2>3 DEF Sound, SeatInv
  <2> QED BY <2>1, <2>3, <2>4 DEF LosesTo, Sound, Loses, q
<1> QED BY <1>1, <1>2

\* Recomputing the views concerns no seat.
LEMMA RebuiltLoses ==
  ASSUME NEW r, Sound(r), NEW q \in Rebuilt(r)
  PROVE  LosesTo(r, q)
<1>1. RoomOK(r) /\ RoomOK(q)
  BY RebuiltOK DEF Sound
<1>2. q.slot = r.slot /\ q.status = r.status /\ q.forfeits = r.forfeits /\ q.waiting = r.waiting
  BY <1>1 DEF Rebuilt, RoomOK, RoomRecord
<1> QED BY <1>1, <1>2, OtherFields

\* A broadcast loses at most the seats of forfeits it takes note of.
LEMMA SettledLoses ==
  ASSUME NEW r, Sound(r), NEW q \in Settled(r) \cup Shown(r) \cup {r}
  PROVE  LosesTo(r, q)
<1>1. Sound(Synced(r)) /\ LosesTo(r, Synced(r))
  BY SyncedLoses DEF LosesTo
<1>2. q \in Rebuilt(Synced(r)) => LosesTo(r, q)
  BY <1>1, RebuiltLoses, LosesTransitive DEF LosesTo
<1> QED BY <1>2, LosesReflexive DEF Settled, Shown

\* Outside a game a broadcast changes no seat.
LEMMA SettledLobby ==
  ASSUME NEW r, Sound(r), r.status # "InGame", NEW q \in Settled(r)
  PROVE  Sound(q) /\ q.slot = r.slot
<1>1. q \in Rebuilt(r)
  BY DEF Settled, Synced
<1>2. q.slot = r.slot
  BY <1>1 DEF Rebuilt, Sound, RoomOK, RoomRecord
<1> QED BY <1>1, <1>2, RebuiltLoses DEF LosesTo

-----------------------------------------------------------------------------
(* Leaving *)

\* Passing the host role on concerns no lease, and no connection.
LEMMA PromoteLoses ==
  ASSUME NEW r, Sound(r)
  PROVE  /\ LosesTo(r, Promote(r))
         /\ \A s \in Seats : /\ Kept(r.slot[s], Promote(r).slot[s])
                             /\ Promote(r).slot[s].peer = r.slot[s].peer
<1> DEFINE d == Demoted(r)
           q == Promote(r)
<1>1. RoomOK(r) /\ RoomOK(d) /\ RoomOK(q)
  BY DemotedOK, PromoteOK DEF Sound
<1>2. /\ d.status = r.status /\ d.forfeits = r.forfeits
      /\ \A s \in Seats : Kept(r.slot[s], d.slot[s]) /\ d.slot[s].peer = r.slot[s].peer
      /\ \A u \in Users : /\ d.waiting[u].gen = r.waiting[u].gen
                          /\ d.waiting[u].role # "none" => r.waiting[u].role # "none"
  <2>1. /\ d.status = r.status /\ d.forfeits = r.forfeits
        /\ d.slot = [s \in Seats |-> [r.slot[s] EXCEPT !.role = "player"]]
        /\ d.waiting = [u \in Users |-> IF u \in Waiting(r)
                           THEN [r.waiting[u] EXCEPT !.role = "player"] ELSE r.waiting[u]]
    BY <1>1 DEF Demoted, RoomOK, RoomRecord
  <2>2. ASSUME NEW s \in Seats
        PROVE  Kept(r.slot[s], d.slot[s]) /\ d.slot[s].peer = r.slot[s].peer
    <3>1. r.slot[s] \in Slot
      BY <1>1, SlotTypes
    <3>2. d.slot[s] = [r.slot[s] EXCEPT !.role = "player"]
      BY <2>1
    <3> QED BY <3>1, <3>2 DEF Slot, Kept
  <2>3. ASSUME NEW u \in Users
        PROVE  /\ d.waiting[u].gen = r.waiting[u].gen
               /\ d.waiting[u].role # "none" => r.waiting[u].role # "none"
    <3>1. r.waiting[u] \in Member
      BY <1>1, SlotTypes
    <3>2. d.waiting[u] = IF u \in Waiting(r)
                           THEN [r.waiting[u] EXCEPT !.role = "player"] ELSE r.waiting[u]
      BY <2>1
    <3> QED BY <3>1, <3>2 DEF Member, Waiting
  <2> HIDE DEF d
  <2> QED BY <2>1, <2>2, <2>3
<1> HIDE DEF d
<1>3. Occupied(d) # {} => LowestSeat(Occupied(d)) \in Seats
  BY SeatsFacts, LowestSeatIsLeast DEF Occupied
<1>4. Waiting(d) # {} => LowestSeat(Waiting(d)) \in Waiting(d) /\ LowestSeat(Waiting(d)) \in Users
  BY SeatsFacts, LowestSeatIsLeast DEF Waiting
<1>5. ASSUME NEW s \in Seats, q = [d EXCEPT !.slot[s].role = "host", !.hostSeat = s]
      PROVE  /\ q.status = d.status /\ q.forfeits = d.forfeits /\ q.waiting = d.waiting
             /\ \A x \in Seats : Kept(d.slot[x], q.slot[x]) /\ q.slot[x].peer = d.slot[x].peer
  <2> HIDE DEF q
  <2>1. /\ q.status = d.status /\ q.forfeits = d.forfeits /\ q.waiting = d.waiting
        /\ \A x \in Seats : q.slot[x] = IF x = s THEN [d.slot[s] EXCEPT !.role = "host"] ELSE d.slot[x]
    BY <1>1, <1>5 DEF RoomOK, RoomRecord
  <2>2. d.slot[s] \in Slot
    BY <1>1, SlotTypes
  <2> QED BY <2>1, <2>2 DEF Slot, Kept
<1>6. ASSUME NEW u \in Waiting(d), q = [d EXCEPT !.waiting[u].role = "host"]
      PROVE  /\ q.status = d.status /\ q.forfeits = d.forfeits /\ q.slot = d.slot
             /\ \A v \in Users : /\ q.waiting[v].gen = d.waiting[v].gen
                                 /\ q.waiting[v].role # "none" => d.waiting[v].role # "none"
  <2> HIDE DEF q
  <2> QED BY <1>1, <1>6, SlotTypes DEF RoomOK, RoomRecord, Member, Waiting
<1>7. \/ \E s \in Seats : q = [d EXCEPT !.slot[s].role = "host", !.hostSeat = s]
      \/ \E u \in Waiting(d) : q = [d EXCEPT !.waiting[u].role = "host"]
      \/ q = d
  BY <1>3, <1>4 DEF Promote, d
<1> HIDE DEF q
<1>8. /\ q.status = r.status /\ q.forfeits = r.forfeits
      /\ \A s \in Seats : Kept(r.slot[s], q.slot[s]) /\ q.slot[s].peer = r.slot[s].peer
      /\ \A u \in Users : /\ q.waiting[u].gen = r.waiting[u].gen
                          /\ q.waiting[u].role # "none" => r.waiting[u].role # "none"
  BY <1>2, <1>5, <1>6, <1>7 DEF Kept
<1>9. SeatInv(q)
  BY <1>8 DEF Sound, SeatInv, SlotFits, Kept
<1> QED BY <1>1, <1>8, <1>9 DEF LosesTo, Sound, Loses, Lost, q

\* Freeing a seat ends its lease.
LEMMA FreeSeatLoses ==
  ASSUME NEW r, Sound(r), NEW s \in Seats
  PROVE  LosesTo(r, FreeSeat(r, s))
<1> DEFINE q == [r EXCEPT !.slot[s] = FreeSlot]
<1>1. RoomOK(q)
  BY FreeTypes DEF Sound, RoomOK, RoomRecord
<1>2. /\ q.status = r.status /\ q.forfeits = r.forfeits /\ q.waiting = r.waiting
      /\ q.slot[s] = FreeSlot /\ \A x \in Seats \ {s} : q.slot[x] = r.slot[x]
  BY DEF Sound, RoomOK, RoomRecord
<1> HIDE DEF q
<1>3. SeatInv(q) /\ Loses(r, q)
  BY <1>2 DEF Sound, SeatInv, SlotFits, FreeSlot, Loses, Lost, Kept
<1>4. LosesTo(r, q)
  BY <1>1, <1>3 DEF LosesTo, Sound
<1>5. FreeSeat(r, s) \in {q, Promote(q)}
  BY DEF FreeSeat, q
<1> QED BY <1>4, <1>5, PromoteLoses, LosesTransitive DEF LosesTo

\* A waiting member who is dropped holds no seat.
LEMMA DropWaitingLoses ==
  ASSUME NEW r, Sound(r), NEW u \in Users
  PROVE  LosesTo(r, DropWaiting(r, u))
<1> DEFINE q == [r EXCEPT !.waiting[u] = NoMember]
<1>1. RoomOK(q)
  BY FreeTypes DEF Sound, RoomOK, RoomRecord
<1>2. /\ q.status = r.status /\ q.forfeits = r.forfeits /\ q.slot = r.slot
      /\ q.waiting[u] = NoMember /\ \A x \in Users \ {u} : q.waiting[x] = r.waiting[x]
  BY DEF Sound, RoomOK, RoomRecord
<1> HIDE DEF q
<1>3. SeatInv(q) /\ Loses(r, q)
  BY <1>2 DEF Sound, SeatInv, NoMember, Loses, Lost, Kept
<1>4. LosesTo(r, q)
  BY <1>1, <1>3 DEF LosesTo, Sound
<1>5. DropWaiting(r, u) \in {q, Promote(q)}
  BY DEF DropWaiting, q
<1> QED BY <1>4, <1>5, PromoteLoses, LosesTransitive DEF LosesTo

\* Only a seat that a connection held is kept for an absent player.
LEMMA VacateSeatLoses ==
  ASSUME NEW r, Sound(r), NEW s \in Seats, r.slot[s].peer # NoPeer
  PROVE  LosesTo(r, VacateSeat(r, s))
<1> DEFINE a == Synced(r)
           q == VacateSeat(r, s)
<1>1. Sound(a) /\ LosesTo(r, a) /\ RoomOK(a) /\ RoomOK(q)
  BY SyncedLoses, VacateSeatOK DEF LosesTo, Sound
<1>2. a.slot[s].state # "FREE" /\ r.slot[s].state # "FREE" /\ a.forfeits = r.forfeits /\ a.status = r.status
  <2>1. r.slot[s].state # "FREE" /\ r.slot[s] \in Slot
    BY SlotTypes DEF Sound, SeatInv, SlotFits
  <2> QED BY <2>1 DEF Synced, Sound, RoomOK, RoomRecord, Slot
<1> HIDE DEF a
<1>3. /\ q.status = a.status /\ q.forfeits = a.forfeits /\ q.waiting = a.waiting
      /\ q.slot[s] = [a.slot[s] EXCEPT !.peer = NoPeer,
                        !.state = IF Forfeited(r, s) THEN "FORFEITED" ELSE "RECONNECTING"]
      /\ \A x \in Seats \ {s} : q.slot[x] = a.slot[x]
  <2>1. q = [a EXCEPT !.slot[s].peer = NoPeer,
                      !.slot[s].state = IF Forfeited(r, s) THEN "FORFEITED" ELSE "RECONNECTING"]
    BY DEF VacateSeat, a
  <2> HIDE DEF q
  <2> QED BY <1>1, <2>1 DEF RoomOK, RoomRecord
<1> HIDE DEF q
<1>4. /\ q.slot[s].user = a.slot[s].user /\ q.slot[s].gen = a.slot[s].gen
      /\ q.slot[s].peer = NoPeer
      /\ q.slot[s].state = IF Forfeited(r, s) THEN "FORFEITED" ELSE "RECONNECTING"
  BY <1>1, <1>3, SlotTypes DEF Slot
<1>5. a.status \in {"Lobby", "Starting"} => ~Forfeited(r, s)
  BY <1>1, <1>2 DEF Sound, SeatInv, Forfeited
<1>6. SeatInv(q)
  <2>1. SeatInv(a)
    BY <1>1 DEF Sound
  <2>2. a.status # "None"
    BY <1>2, <2>1 DEF SeatInv
  <2>3. SlotFits(q.slot[s])
    BY <1>2, <1>4, <2>1 DEF SeatInv, SlotFits
  <2>4. q.status \in {"Lobby", "Starting"} => q.slot[s].state # "FORFEITED"
    BY <1>3, <1>4, <1>5
  <2> QED BY <1>3, <2>1, <2>2, <2>3, <2>4 DEF SeatInv
<1>7. Loses(a, q)
  BY <1>2, <1>3, <1>4 DEF Loses, Lost, Kept
<1>8. LosesTo(a, q)
  BY <1>1, <1>6, <1>7 DEF LosesTo, Sound
<1> QED BY <1>1, <1>8, LosesTransitive DEF q

\* Nor does a spectator.
LEMMA DropSpectatorLoses ==
  ASSUME NEW r, Sound(r), NEW p \in Peers
  PROVE  LosesTo(r, DropSpectator(r, p))
<1>1. RoomOK(DropSpectator(r, p))
  BY DropSpectatorOK DEF Sound
<1> DEFINE q == DropSpectator(r, p)
<1>2. q.slot = r.slot /\ q.status = r.status /\ q.forfeits = r.forfeits /\ q.waiting = r.waiting
  BY DEF DropSpectator, Sound, RoomOK, RoomRecord
<1> QED BY <1>1, <1>2, OtherFields

\* remove_peer and disconnect_peer lose at most the seat of the connection.
LEMMA GoneLoses ==
  ASSUME NEW r, Sound(r), NEW p \in Peers, HasPeer(r, p)
  PROVE  LosesTo(r, RemovePeer(r, p)) /\ LosesTo(r, DisconnectPeer(r, p))
<1>1. CASE p \in Spectators(r)
  BY <1>1, DropSpectatorLoses DEF RemovePeer, DisconnectPeer
<1>2. CASE p \notin Spectators(r) /\ UsersOf(r, p) # {}
  <2> DEFINE u == LowestSeat(UsersOf(r, p))
             q == [r EXCEPT !.waiting[u].peer = NoPeer]
  <2>1. u \in Users
    BY <1>2, PlaceOf DEF Sound
  <2>2. RemovePeer(r, p) = DropWaiting(r, u) /\ DisconnectPeer(r, p) = q
    BY <1>2 DEF RemovePeer, DisconnectPeer
  <2>3. RoomOK(q)
    BY <2>2, DisconnectPeerOK DEF Sound
  <2> HIDE DEF u
  <2>4. /\ q.status = r.status /\ q.forfeits = r.forfeits /\ q.slot = r.slot
        /\ \A v \in Users : q.waiting[v].gen = r.waiting[v].gen /\ q.waiting[v].role = r.waiting[v].role
    BY <2>1, SlotTypes DEF Sound, RoomOK, RoomRecord, Member
  <2> HIDE DEF q
  <2>5. LosesTo(r, q)
    BY <2>3, <2>4 DEF LosesTo, Sound, SeatInv, Loses, Lost, Kept
  <2> QED BY <2>1, <2>2, <2>5, DropWaitingLoses
<1>3. CASE p \notin Spectators(r) /\ UsersOf(r, p) = {}
  <2> DEFINE s == LowestSeat(SeatsOf(r, p))
  <2>1. s \in Seats /\ s \in SeatsOf(r, p)
    BY <1>3, PlaceOf, SeatsFacts, LowestSeatIsLeast DEF Sound, SeatsOf
  <2>2. r.slot[s].peer # NoPeer
    BY <2>1, PeersAssumption DEF SeatsOf
  <2>3. /\ RemovePeer(r, p) \in {FreeSeat(r, s), VacateSeat(r, s)}
        /\ DisconnectPeer(r, p) = VacateSeat(r, s)
    BY <1>3 DEF RemovePeer, DisconnectPeer
  <2> HIDE DEF s
  <2> QED BY <2>1, <2>2, <2>3, FreeSeatLoses, VacateSeatLoses
<1> QED BY <1>1, <1>2, <1>3

\* The record that stands for no room frees every seat.
LEMMA EmptiedLoses ==
  ASSUME NEW r, Sound(r)
  PROVE  LosesTo(r, EmptyRoom)
<1>1. SeatInv(EmptyRoom)
  BY DEF SeatInv, SlotFits, EmptyRoom, FreeSlot, NoMember
<1>2. ASSUME NEW s \in Seats PROVE Lost(r.slot[s], EmptyRoom.slot[s])
  BY DEF Sound, SeatInv, SlotFits, Lost, Kept, EmptyRoom, FreeSlot
<1> QED BY <1>1, <1>2, EmptyRoomOK DEF LosesTo, Sound, Loses

\* A member who leaves, or whose connection is lost, at most loses a seat.
LEMMA LeftLoses ==
  ASSUME NEW r, Sound(r), NEW p \in Peers, NEW q \in Left(r, p) \cup Dropped(r, p)
  PROVE  LosesTo(r, q)
<1>1. CASE ~HasPeer(r, p)
  BY <1>1, LosesReflexive DEF Left, Dropped
<1>2. CASE HasPeer(r, p)
  <2>1. ASSUME NEW x, LosesTo(r, x), q \in Settled(x) \cup {EmptyRoom}
        PROVE  LosesTo(r, q)
    <3>1. Sound(x)
      BY <2>1 DEF LosesTo
    <3>2. LosesTo(x, q)
      BY <2>1, <3>1, SettledLoses, EmptiedLoses
    <3> QED BY <2>1, <3>1, <3>2, LosesTransitive
  <2>2. LosesTo(r, RemovePeer(r, p)) /\ LosesTo(r, DisconnectPeer(r, p))
    BY <1>2, GoneLoses
  <2>3. \/ q \in Settled(RemovePeer(r, p)) \cup {EmptyRoom}
        \/ q \in Settled(DisconnectPeer(r, p)) \cup {EmptyRoom}
    BY <1>2 DEF Left, Dropped, OrRemoved
  <2> QED BY <2>1, <2>2, <2>3
<1> QED BY <1>1, <1>2

-----------------------------------------------------------------------------
(* The start session and the game *)

\* In a game, or once it has ended, only the seats and those who wait count.
LEMMA GameLoses ==
  ASSUME NEW r, Sound(r), NEW q, RoomOK(q), q.slot = r.slot, q.waiting = r.waiting,
         q.status \in {"InGame", "Ended"}
  PROVE  LosesTo(r, q)
BY DEF Sound, SeatInv, LosesTo, Loses, Lost, Kept

\* Beginning a start in a lobby, or aborting one, concerns no seat.
LEMMA StartLoses ==
  ASSUME NEW r, Sound(r), r.status \in {"Lobby", "Starting"}
  PROVE  LosesTo(r, BeginStart(r)) /\ LosesTo(r, AbortStart(r))
<1>1. RoomOK(r) /\ RoomOK(BeginStart(r)) /\ RoomOK(AbortStart(r))
  BY BeginStartLive, AbortStartLive DEF Sound, Live
<1>2. ASSUME NEW q, RoomOK(q), q.slot = r.slot, q.waiting = r.waiting,
             q.status \in {"Lobby", "Starting"}, q.forfeits = << >>
      PROVE  LosesTo(r, q)
  BY <1>2 DEF Sound, SeatInv, LosesTo, Loses, Lost, Kept
<1>3. r.forfeits = << >>
  BY DEF Sound, SeatInv
<1>4. LosesTo(r, BeginStart(r))
  <2> DEFINE q == BeginStart(r)
  <2>1. q.slot = r.slot /\ q.waiting = r.waiting /\ q.status = "Starting" /\ q.forfeits = << >>
    BY <1>1, <1>3 DEF BeginStart, RoomOK, RoomRecord
  <2> QED BY <1>1, <1>2, <2>1
<1>5. LosesTo(r, AbortStart(r))
  <2> DEFINE q == AbortStart(r)
  <2>1. q.slot = r.slot /\ q.waiting = r.waiting /\ q.status = "Lobby" /\ q.forfeits = << >>
    BY <1>1 DEF AbortStart, RoomOK, RoomRecord
  <2> QED BY <1>1, <1>2, <2>1
<1> QED BY <1>4, <1>5

\* A start that commits takes every seat over as it is: the states it assigns
\* are the states the seats have.
LEMMA CommitLoses ==
  ASSUME NEW r, Sound(r), r.status = "Starting"
  PROVE  LosesTo(r, CommitStart(r))
<1> DEFINE q == CommitStart(r)
<1>1. RoomOK(r) /\ RoomOK(q)
  BY CommitStartLive DEF Sound, Live
<1>2. /\ q.status = "InGame"
      /\ \A u \in Users : q.waiting[u] = NoMember
      /\ \A s \in Seats : q.slot[s] = IF r.slot[s].state = "FREE" THEN r.slot[s]
                            ELSE [r.slot[s] EXCEPT !.state =
                                    IF r.slot[s].peer # NoPeer THEN "CONNECTED" ELSE "RECONNECTING"]
  BY <1>1 DEF CommitStart, RoomOK, RoomRecord
<1> HIDE DEF q
<1>3. ASSUME NEW s \in Seats PROVE q.slot[s] = r.slot[s]
  <2>1. /\ r.slot[s] \in Slot /\ SlotFits(r.slot[s]) /\ r.slot[s].state # "FORFEITED"
    BY <1>1, SlotTypes DEF Sound, SeatInv
  <2>2. ASSUME NEW t \in Slot PROVE [t EXCEPT !.state = t.state] = t
    BY DEF Slot
  <2>3. r.slot[s].state # "FREE"
          => r.slot[s].state = IF r.slot[s].peer # NoPeer THEN "CONNECTED" ELSE "RECONNECTING"
    BY <2>1 DEF Slot, SeatStates, SlotFits
  <2>4. CASE r.slot[s].state = "FREE"
    BY <1>2, <2>4
  <2>5. CASE r.slot[s].state # "FREE"
    <3>1. q.slot[s] = [r.slot[s] EXCEPT !.state = r.slot[s].state]
      BY <1>2, <2>3, <2>5
    <3> QED BY <2>1, <2>2, <3>1
  <2> QED BY <2>4, <2>5
<1>4. SeatInv(q)
  BY <1>2, <1>3 DEF Sound, SeatInv, NoMember
<1>5. Loses(r, q)
  BY <1>3 DEF Loses, Lost, Kept
<1> QED BY <1>1, <1>4, <1>5 DEF LosesTo, Sound, q

\* A forfeit, and the end of the game, leave the seats for the next sync.
LEMMA ForfeitLoses ==
  ASSUME NEW r, Sound(r), r.status = "InGame"
  PROVE  /\ \A q \in MayEnd(r) : LosesTo(r, q)
         /\ \A s \in Seats : \A q \in MayEnd(Forfeit(r, s)) : LosesTo(r, q)
<1>0. RoomOK(r) /\ Live(r)
  BY DEF Sound, Live
<1>1. ASSUME NEW q \in MayEnd(r) PROVE LosesTo(r, q)
  <2>1. RoomOK(q)
    BY <1>0, MayEndOK
  <2>2. q.slot = r.slot /\ q.waiting = r.waiting /\ q.status \in {"InGame", "Ended"}
    BY <1>0 DEF MayEnd, RoomOK, RoomRecord
  <2> QED BY <2>1, <2>2, GameLoses
<1>2. ASSUME NEW s \in Seats, NEW q \in MayEnd(Forfeit(r, s)) PROVE LosesTo(r, q)
  <2> DEFINE f == Forfeit(r, s)
  <2>1. Live(f) /\ RoomOK(f)
    BY <1>0, ForfeitLive DEF Live
  <2>2. f.slot = r.slot /\ f.waiting = r.waiting /\ f.status \in {"InGame", "Ended"}
    BY <1>0 DEF Forfeit, RoomOK, RoomRecord
  <2> HIDE DEF f
  <2>3. RoomOK(q)
    BY <2>1, MayEndOK DEF f
  <2>4. q.slot = f.slot /\ q.waiting = f.waiting /\ q.status \in {"InGame", "Ended"}
    BY <2>1, <2>2 DEF MayEnd, RoomOK, RoomRecord, f
  <2> QED BY <2>2, <2>3, <2>4, GameLoses
<1> QED BY <1>1, <1>2

\* A cancelled start is back in the lobby with every seat as it was.
LEMMA CancelledLoses ==
  ASSUME Sound(room), NEW q \in Cancelled
  PROVE  LosesTo(room, q)
<1>1. CASE room.status = "Starting"
  <2>1. LosesTo(room, AbortStart(room)) /\ Sound(AbortStart(room))
    BY <1>1, StartLoses DEF LosesTo
  <2>2. LosesTo(AbortStart(room), q)
    BY <1>1, <2>1, RebuiltLoses DEF Cancelled
  <2> QED BY <2>1, <2>2, LosesTransitive
<1>2. CASE room.status # "Starting"
  BY <1>2, LosesReflexive DEF Cancelled
<1> QED BY <1>1, <1>2

-----------------------------------------------------------------------------
(* Joining *)

\* A generation made for a connection is positive, and newer than the seat's.
LEMMA GenerationGrows ==
  ASSUME NEW g \in Gens, NEW n \in Nat
  PROVE  /\ InitialGeneration(g) >= 1 /\ NextGeneration(n, g) >= 1 /\ AtLeastOne(n) >= 1
         /\ n >= 1 => AtLeastOne(n) = n
         /\ GenerationOk(n, g) => NextGeneration(n, g) > n
BY DEF Gens, NoGen, InitialGeneration, NextGeneration, AtLeastOne, GenerationOk

\* A move of a lobby that is then broadcast.
LEMMA MovesSettled ==
  ASSUME NEW r, NEW q, MovesTo(r, q), q.status = "Lobby", NEW x \in Settled(q)
  PROVE  MovesTo(r, x)
<1>1. Sound(x) /\ x.slot = q.slot
  BY SettledLobby DEF MovesTo
<1> QED BY <1>1 DEF MovesTo, Moves

\* A move from a room whose leases are those of an earlier one.
LEMMA KeptMoves ==
  ASSUME NEW r, NEW q, NEW x, \A s \in Seats : Kept(r.slot[s], q.slot[s]), MovesTo(q, x)
  PROVE  MovesTo(r, x)
BY DEF MovesTo, Moves, Moved, Lost, Kept

\* One seat moves, in a lobby or a game.
LEMMA OneSeatMoves ==
  ASSUME NEW r, Sound(r), r.status # "None", NEW s \in Seats, NEW q, RoomOK(q),
         \A t \in Seats \ {s} : q.slot[t] = r.slot[t],
         SlotFits(q.slot[s]), q.slot[s].state # "FORFEITED", Moved(r.slot[s], q.slot[s]),
         q.status = r.status, q.forfeits = r.forfeits,
         \A u \in Users : q.waiting[u].role # "none" => q.waiting[u].gen >= 1
  PROVE  MovesTo(r, q)
<1>1. SeatInv(q)
  BY DEF Sound, SeatInv
<1>2. Moves(r, q)
  BY DEF Moves, Moved, Lost, Kept
<1> QED BY <1>1, <1>2 DEF MovesTo, Sound

\* A player is put on a free seat.
LEMMA SeatAtMoves ==
  ASSUME NEW r, Sound(r), r.status = "Lobby", NEW p \in Peers, NEW u \in Users,
         NEW s \in Seats, s \notin Occupied(r), NEW role \in Roles, NEW g \in Nat, g >= 1
  PROVE  MovesTo(r, SeatAt(r, p, u, s, role, g)) /\ SeatAt(r, p, u, s, role, g).status = "Lobby"
<1> DEFINE q == SeatAt(r, p, u, s, role, g)
<1>1. RoomOK(r) /\ RoomOK(q)
  BY SeatAtOK DEF Sound
<1>2. /\ q.status = r.status /\ q.forfeits = r.forfeits /\ q.waiting = r.waiting
      /\ q.slot[s] = SeatedSlot(role, u, p, g)
      /\ \A t \in Seats \ {s} : q.slot[t] = r.slot[t]
  BY <1>1 DEF SeatAt, RoomOK, RoomRecord
<1> HIDE DEF q
<1>3. SlotFits(q.slot[s]) /\ q.slot[s].state = "CONNECTED"
  BY <1>2, SeatsFacts, PeersAssumption DEF SeatedSlot, SlotFits
<1>4. Moved(r.slot[s], q.slot[s])
  BY <1>3 DEF Moved, Occupied
<1>5. \A v \in Users : q.waiting[v].role # "none" => q.waiting[v].gen >= 1
  BY <1>2 DEF Sound, SeatInv
<1>6. MovesTo(r, q)
  BY <1>1, <1>2, <1>3, <1>4, <1>5, OneSeatMoves
<1> QED BY <1>2, <1>6 DEF q

\* add_peer and add_peer_at_seat claim a free seat.
LEMMA AddPeerMoves ==
  ASSUME NEW r, Sound(r), NEW p \in Peers, NEW u \in Users, NEW g \in Gens
  PROVE  /\ CanAddPeer(r, p) =>
              MovesTo(r, AddPeer(r, p, u, g)) /\ AddPeer(r, p, u, g).status = "Lobby"
         /\ \A s \in Seats : CanAddPeerAtSeat(r, p, s) =>
              MovesTo(r, AddPeerAtSeat(r, p, u, s, g)) /\ AddPeerAtSeat(r, p, u, s, g).status = "Lobby"
<1>0. InitialGeneration(g) \in Nat /\ InitialGeneration(g) >= 1 /\ RoomOK(r)
  BY GenerationType, GenerationGrows DEF Sound
<1>1. ASSUME CanAddPeer(r, p)
      PROVE  MovesTo(r, AddPeer(r, p, u, g)) /\ AddPeer(r, p, u, g).status = "Lobby"
  <2>1. PickSeat(r) \in Seats /\ PickSeat(r) \notin Occupied(r) /\ r.status = "Lobby"
    BY <1>0, <1>1, PickSeatType DEF CanAddPeer
  <2> QED BY <1>0, <2>1, SeatAtMoves DEF AddPeer, Roles
<1>2. ASSUME NEW s \in Seats, CanAddPeerAtSeat(r, p, s)
      PROVE  MovesTo(r, AddPeerAtSeat(r, p, u, s, g)) /\ AddPeerAtSeat(r, p, u, s, g).status = "Lobby"
  <2>1. s \notin Occupied(r) /\ r.status = "Lobby"
    BY <1>2 DEF CanAddPeerAtSeat, CanAddPeer
  <2> QED BY <1>0, <2>1, SeatAtMoves DEF AddPeerAtSeat, Roles
<1> QED BY <1>1, <1>2

\* The conditions under which a connection may take over a seat.
Takes(r, u, s, g) ==
  /\ s \in Occupied(r) /\ r.slot[s].state # "FORFEITED"
  /\ r.slot[s].user \in {u, NoUser} /\ GenerationOk(r.slot[s].gen, g)

\* reclaim_peer_at_seat renews the lease of the seat's user.
LEMMA ReclaimMoves ==
  ASSUME NEW r, Sound(r), r.status # "None", NEW p \in Peers, NEW u \in Users,
         NEW s \in Seats, NEW g \in Gens, Takes(r, u, s, g)
  PROVE  /\ MovesTo(r, Reclaim(r, p, u, s, g))
         /\ Reclaim(r, p, u, s, g).status = r.status
         /\ Reclaim(r, p, u, s, g).forfeits = r.forfeits
         /\ \A t \in Seats \ {s} : Reclaim(r, p, u, s, g).slot[t] = r.slot[t]
<1> DEFINE q == Reclaim(r, p, u, s, g)
           n == NextGeneration(r.slot[s].gen, g)
<1>1. RoomOK(r) /\ RoomOK(q)
  BY ReclaimOK DEF Sound
<1>2. r.slot[s] \in Slot /\ SlotFits(r.slot[s]) /\ r.slot[s].gen \in Nat
  BY <1>1, SlotTypes DEF Sound, SeatInv, Slot
<1>3. n > r.slot[s].gen /\ n >= 1
  BY <1>2, GenerationGrows DEF Takes
<1> HIDE DEF n
<1>4. /\ q.status = r.status /\ q.forfeits = r.forfeits /\ q.waiting = r.waiting
      /\ q.slot[s] = SeatedSlot(r.slot[s].role, u, p, n)
      /\ \A t \in Seats \ {s} : q.slot[t] = r.slot[t]
  BY <1>1 DEF Reclaim, RoomOK, RoomRecord, n
<1> HIDE DEF q
<1>5. SlotFits(q.slot[s]) /\ q.slot[s].state = "CONNECTED" /\ q.slot[s].user = u /\ q.slot[s].gen = n
  BY <1>3, <1>4, SeatsFacts, PeersAssumption DEF SeatedSlot, SlotFits
<1>6. r.slot[s].user = u /\ r.slot[s].state \in {"CONNECTED", "RECONNECTING"}
  BY <1>2 DEF Takes, Occupied, SlotFits, Slot, SeatStates
<1>7. Moved(r.slot[s], q.slot[s])
  BY <1>3, <1>5, <1>6 DEF Moved
<1>8. \A v \in Users : q.waiting[v].role # "none" => q.waiting[v].gen >= 1
  BY <1>4 DEF Sound, SeatInv
<1>9. MovesTo(r, q)
  BY <1>1, <1>4, <1>5, <1>7, <1>8, OneSeatMoves
<1> QED BY <1>4, <1>9 DEF q

\* reconnect_player, with the syncs before and after it, renews the lease of
\* the seat, loses at most others, and leaves every seat as its state says.
LEMMA ReconnectMoves ==
  ASSUME NEW r, Sound(r), NEW p \in Peers, NEW u \in Users, NEW s \in Seats,
         NEW b, NEW g \in Gens, CanReconnect(r, p, u, s, g),
         NEW x \in Settled(Reconnect(r, p, u, s, b, g))
  PROVE  MovesTo(r, x) /\ Sound(Reconnect(r, p, u, s, b, g))
<1> DEFINE a == Synced(r)
           c == Reclaim(a, p, u, s, g)
           q == Reconnect(r, p, u, s, b, g)
<1>1. Sound(a) /\ LosesTo(r, a) /\ RoomOK(r) /\ RoomOK(a) /\ RoomOK(q)
  BY SyncedLoses, ReconnectOK DEF LosesTo, Sound
<1>2. /\ a.status = "InGame" /\ a.forfeits = r.forfeits
      /\ \A t \in Seats : a.slot[t] = IF r.slot[t].state # "FREE" /\ Forfeited(r, t)
                            THEN [r.slot[t] EXCEPT !.state = "FORFEITED"] ELSE r.slot[t]
  BY <1>1 DEF CanReconnect, Synced, RoomOK, RoomRecord
<1>3. s \in Occupied(r) /\ r.slot[s].user \in {u, NoUser} /\ GenerationOk(r.slot[s].gen, g)
      /\ a.slot[s].state # "FORFEITED"
  BY DEF CanReconnect, TakesSeat
<1> HIDE DEF a
<1>4. a.slot[s] = r.slot[s] /\ ~Forfeited(r, s)
  <2>1. r.slot[s] \in Slot
    BY <1>1, SlotTypes
  <2> QED BY <1>2, <1>3, <2>1 DEF Occupied, Slot
<1>5. Takes(a, u, s, g)
  BY <1>3, <1>4 DEF Takes, Occupied
<1>6. /\ MovesTo(a, c) /\ c.status = "InGame" /\ c.forfeits = a.forfeits
      /\ \A t \in Seats \ {s} : c.slot[t] = a.slot[t]
  BY <1>1, <1>2, <1>5, ReclaimMoves
<1>7. q \in {c, [c EXCEPT !.slot[s].role = "host", !.hostSeat = s]}
  BY DEF Reconnect, a
<1> HIDE DEF c
<1>8. /\ q.status = "InGame" /\ q.forfeits = r.forfeits /\ q.waiting = c.waiting
      /\ \A t \in Seats \ {s} : q.slot[t] = a.slot[t]
      /\ Kept(c.slot[s], q.slot[s]) /\ q.slot[s].peer = c.slot[s].peer
  <2>1. RoomOK(c) /\ c.slot[s] \in Slot
    BY <1>6, SlotTypes DEF MovesTo, Sound
  <2> DEFINE h == [c EXCEPT !.slot[s].role = "host", !.hostSeat = s]
  <2>2. /\ h.status = c.status /\ h.forfeits = c.forfeits /\ h.waiting = c.waiting
        /\ \A t \in Seats \ {s} : h.slot[t] = c.slot[t]
        /\ h.slot[s] = [c.slot[s] EXCEPT !.role = "host"]
    BY <2>1 DEF RoomOK, RoomRecord
  <2>3. Kept(c.slot[s], h.slot[s]) /\ h.slot[s].peer = c.slot[s].peer
    BY <2>1, <2>2 DEF Kept, Slot
  <2> HIDE DEF h
  <2>4. q \in {c, h}
    BY <1>7 DEF h
  <2> QED BY <1>2, <1>6, <2>2, <2>3, <2>4 DEF Kept
<1> HIDE DEF q
<1>9. Sound(q)
  <2>1. SeatInv(c)
    BY <1>6 DEF MovesTo, Sound
  <2>2. \A t \in Seats \ {s} : SlotFits(q.slot[t])
    BY <1>1, <1>8 DEF Sound, SeatInv
  <2>3. SlotFits(q.slot[s])
    BY <1>8, <2>1 DEF SeatInv, SlotFits, Kept
  <2>4. SeatInv(q)
    BY <1>8, <2>1, <2>2, <2>3 DEF SeatInv
  <2> QED BY <1>1, <2>4 DEF Sound
<1>10. LosesTo(q, x)
  BY <1>9, SettledLoses DEF q
<1>11. ASSUME NEW t \in Seats, t # s PROVE Moved(r.slot[t], x.slot[t])
  <2>1. Lost(r.slot[t], a.slot[t]) /\ Lost(a.slot[t], x.slot[t])
    BY <1>1, <1>8, <1>10, <1>11 DEF LosesTo, Loses
  <2>2. r.slot[t] \in Slot /\ a.slot[t] \in Slot /\ x.slot[t] \in Slot
    BY <1>1, <1>10, SlotTypes DEF LosesTo, Sound
  <2> QED BY <2>1, <2>2 DEF Moved, Lost, Kept, Slot, SeatStates
<1>12. Moved(r.slot[s], x.slot[s])
  <2>1. Moved(r.slot[s], c.slot[s])
    BY <1>4, <1>6 DEF MovesTo, Moves
  <2>2. x.slot[s] = q.slot[s]
    <3>1. x \in Rebuilt(Synced(q)) /\ RoomOK(Synced(q))
      BY <1>9, SyncedOK DEF Settled, Sound, q
    <3>2. x.slot = Synced(q).slot
      BY <3>1 DEF Rebuilt, RoomOK, RoomRecord
    <3>3. ~Forfeited(q, s)
      BY <1>4, <1>8 DEF Forfeited
    <3>4. Synced(q).slot[s] = q.slot[s]
      BY <1>1, <1>8, <3>3 DEF Synced, RoomOK, RoomRecord
    <3> QED BY <3>2, <3>4
  <2> QED BY <1>8, <2>1, <2>2 DEF Moved, Lost, Kept
<1> QED BY <1>9, <1>10, <1>11, <1>12 DEF LosesTo, MovesTo, Moves, q

-----------------------------------------------------------------------------
(* The resume lobby *)

\* assign_waiting_member_to_seat claims a free seat, for a member who may be away.
LEMMA AssignMoves ==
  ASSUME NEW r, Sound(r), NEW u, NEW s, CanAssign(r, u, s)
  PROVE  MovesTo(r, Assign(r, u, s)) /\ Assign(r, u, s).status = "Lobby"
<1> DEFINE q == Assign(r, u, s)
           m == r.waiting[u]
<1>1. u \in Users /\ s \in Seats /\ s \notin Occupied(r) /\ u \in Waiting(r) /\ r.status = "Lobby"
  BY DEF CanAssign, Waiting
<1>2. RoomOK(r) /\ RoomOK(q)
  BY <1>1, AssignOK DEF Sound
<1>3. m.gen >= 1
  BY <1>1 DEF Sound, SeatInv, Waiting
<1>4. /\ q.status = r.status /\ q.forfeits = r.forfeits
      /\ q.waiting[u] = NoMember /\ \A v \in Users \ {u} : q.waiting[v] = r.waiting[v]
      /\ q.slot[s] = [state |-> IF m.peer = NoPeer THEN "RECONNECTING" ELSE "CONNECTED",
                      role |-> m.role, user |-> u, peer |-> m.peer, gen |-> m.gen]
      /\ \A t \in Seats \ {s} : q.slot[t] = r.slot[t]
  BY <1>1, <1>2, AssignFields
<1> HIDE DEF q, m
<1>5. SlotFits(q.slot[s]) /\ q.slot[s].state \in {"CONNECTED", "RECONNECTING"}
  BY <1>1, <1>3, <1>4, SeatsFacts DEF SlotFits
<1>6. Moved(r.slot[s], q.slot[s])
  BY <1>1, <1>5 DEF Moved, Occupied
<1>7. \A v \in Users : q.waiting[v].role # "none" => q.waiting[v].gen >= 1
  BY <1>1, <1>4 DEF Sound, SeatInv, NoMember
<1>8. MovesTo(r, q)
  BY <1>1, <1>2, <1>4, <1>5, <1>6, <1>7, OneSeatMoves
<1> QED BY <1>1, <1>4, <1>8 DEF q

\* unassign_seat_to_waiting frees the seat.
LEMMA UnassignMoves ==
  ASSUME NEW r, Sound(r), NEW s, CanUnassign(r, s)
  PROVE  MovesTo(r, Unassign(r, s)) /\ Unassign(r, s).status = "Lobby"
<1> DEFINE q == Unassign(r, s)
           u == r.slot[s].user
<1>1. s \in Seats /\ s \in Occupied(r) /\ r.status = "Lobby"
  BY DEF CanUnassign, Occupied
<1>2. RoomOK(r) /\ RoomOK(q) /\ u \in Users /\ r.slot[s].gen \in Nat
  BY <1>1, UnassignOK, SlotTypes DEF Sound, CanUnassign, Slot
<1> HIDE DEF u
<1>3. /\ q.status = r.status /\ q.forfeits = r.forfeits
      /\ q.waiting[u].gen = AtLeastOne(r.slot[s].gen)
      /\ \A v \in Users \ {u} : q.waiting[v] = r.waiting[v]
      /\ q.slot[s] = FreeSlot
      /\ \A t \in Seats \ {s} : q.slot[t] = r.slot[t]
  BY <1>1, <1>2 DEF Unassign, RoomOK, RoomRecord, u
<1> HIDE DEF q
<1>4. SlotFits(q.slot[s]) /\ q.slot[s].state # "FORFEITED" /\ Moved(r.slot[s], q.slot[s])
  BY <1>1, <1>3 DEF SlotFits, FreeSlot, Moved, Lost, Occupied
<1>5. AtLeastOne(r.slot[s].gen) >= 1
  BY <1>2 DEF AtLeastOne
<1>6. \A v \in Users : q.waiting[v].role # "none" => q.waiting[v].gen >= 1
  BY <1>3, <1>5 DEF Sound, SeatInv
<1>7. MovesTo(r, q)
  BY <1>1, <1>2, <1>3, <1>4, <1>6, OneSeatMoves
<1> QED BY <1>1, <1>3, <1>7 DEF q

\* add_waiting_member renews the seat of its user, or claims the one he had, or none.
LEMMA AddWaitingMoves ==
  ASSUME NEW r, Sound(r), NEW p \in Peers, NEW u \in Users, NEW role \in Roles,
         NEW g \in Gens, CanAddWaiting(r, p, u, g)
  PROVE  MovesTo(r, AddWaiting(r, p, u, role, g)) /\ AddWaiting(r, p, u, role, g).status = "Lobby"
<1>0. r.status = "Lobby" /\ RoomOK(r)
  BY DEF CanAddWaiting, Sound
<1>1. CASE HeldSeat(r, u) # NoSeat
  <2> DEFINE s == HeldSeat(r, u)
  <2>1. s \in Seats
    BY <1>0, <1>1, ResumeSeatType
  <2>2. CanReclaim(r, p, u, s, g)
    BY <1>1 DEF CanAddWaiting
  <2>3. AddWaiting(r, p, u, role, g) = Reclaim(r, p, u, s, g)
    BY <1>1 DEF AddWaiting
  <2> HIDE DEF s
  <2>4. Takes(r, u, s, g)
    BY <1>0, <2>1, <2>2 DEF CanReclaim, TakesSeat, Takes, Sound, SeatInv
  <2> QED BY <1>0, <2>1, <2>3, <2>4, ReclaimMoves
<1>2. CASE HeldSeat(r, u) = NoSeat
  <2> DEFINE q == PutWaiting(r, p, u, role, g)
             s == ExpectedSeat(q, u)
  <2>1. r.waiting[u] \in Member
    BY <1>0, SlotTypes
  <2>2. /\ NextGeneration(r.waiting[u].gen, g) \in Nat /\ InitialGeneration(g) \in Nat
        /\ NextGeneration(r.waiting[u].gen, g) >= 1 /\ InitialGeneration(g) >= 1
    BY <2>1, GenerationType, GenerationGrows DEF Member
  <2>3. RoomOK(q)
    BY <1>0, <2>1, <2>2 DEF PutWaiting, RoomOK, RoomRecord, Member
  <2>4. /\ q.slot = r.slot /\ q.status = "Lobby" /\ q.forfeits = r.forfeits
        /\ q.waiting[u].gen \in {NextGeneration(r.waiting[u].gen, g), InitialGeneration(g)}
        /\ \A v \in Users \ {u} : q.waiting[v] = r.waiting[v]
    BY <1>0 DEF PutWaiting, RoomOK, RoomRecord
  <2> HIDE DEF q
  <2>5. Sound(q)
    BY <1>0, <2>2, <2>3, <2>4 DEF Sound, SeatInv
  <2>6. \A t \in Seats : Kept(r.slot[t], q.slot[t])
    BY <2>4 DEF Kept
  <2>7. MovesTo(q, q)
    BY <2>5, LosesReflexive, LosesMoves
  <2>8. CanAssign(q, u, s) => MovesTo(q, Assign(q, u, s)) /\ Assign(q, u, s).status = "Lobby"
    BY <2>5, AssignMoves
  <2>9. AddWaiting(r, p, u, role, g) = IF CanAssign(q, u, s) THEN Assign(q, u, s) ELSE q
    BY <1>2 DEF AddWaiting, q
  <2> QED BY <2>4, <2>6, <2>7, <2>8, <2>9, KeptMoves
<1> QED BY <1>1, <1>2

-----------------------------------------------------------------------------
(* Every step of the server moves the seats as the lease allows.            *)

\* A spectator takes no seat.
LEMMA AddSpectatorMoves ==
  ASSUME NEW r, Sound(r), NEW p \in Peers, NEW u \in Users, NEW old,
         NEW q \in Shown(AddSpectator(r, p, u, old))
  PROVE  MovesTo(r, q)
<1> DEFINE a == AddSpectator(r, p, u, old)
<1>1. RoomOK(r) /\ RoomOK(a)
  BY AddSpectatorOK DEF Sound
<1>2. a.slot = r.slot /\ a.status = r.status /\ a.forfeits = r.forfeits /\ a.waiting = r.waiting
  BY <1>1 DEF AddSpectator, RoomOK, RoomRecord
<1>3. LosesTo(r, a) /\ Sound(a)
  BY <1>1, <1>2, OtherFields DEF LosesTo
<1>4. LosesTo(r, q)
  BY <1>3, SettledLoses, LosesTransitive
<1> QED BY <1>4, LosesMoves

\* A room that is created seats its host, or lets him wait, at a free table.
LEMMA CreateMoves ==
  ASSUME Sound(room), ~Exists, NEW p \in Peers, NEW t \in Tokens, t.role = "host",
         NEW n \in PlayerCounts,
         NEW x \in Settled(IF ResumeMode THEN AddWaiting(NewRoom(ResumeMode, n), p, t.user, "host", t.gen)
                                         ELSE AddPeer(NewRoom(ResumeMode, n), p, t.user, t.gen))
  PROVE  MovesTo(room, x)
<1> DEFINE r == NewRoom(ResumeMode, n)
           q == IF ResumeMode THEN AddWaiting(r, p, t.user, "host", t.gen)
                              ELSE AddPeer(r, p, t.user, t.gen)
<1>1. n \in 1..NumSeats /\ ResumeMode \in BOOLEAN
  BY PlayerCountsAssumption, ResumeModeAssumption
<1>2. /\ RoomOK(r) /\ r.slot = EmptyRoom.slot /\ r.waiting = EmptyRoom.waiting
      /\ r.spectator = EmptyRoom.spectator /\ r.status = "Lobby" /\ r.desired = n
      /\ r.resume = ResumeMode /\ r.forfeits = << >>
  BY <1>1, NewRoomOK DEF NewRoom, EmptyRoom
<1> HIDE DEF r
<1>3. /\ PeerIds(r) = {} /\ Occupied(r) = {} /\ Waiting(r) = {}
      /\ \A u \in Users : SeatsOfUser(r, u) = {}
  BY <1>2 DEF EmptyRoom, PeerIds, SeatPeers, WaitPeers, Spectators,
              Occupied, Waiting, SeatsOfUser, FreeSlot, NoMember
<1>4. ~HasPeer(r, p) /\ ~IsFull(r)
  <2>1. Cardinality(Occupied(r)) = 0 /\ Cardinality(Waiting(r)) = 0
    BY <1>3, FS_EmptySet
  <2> QED BY <1>1, <1>2, <1>3, <2>1, NumSeatsAssumption DEF HasPeer, IsFull
<1>5. t.user \in Users /\ t.gen \in Gens
  BY TokenTypes
<1>6. SeatInv(r)
  BY <1>2 DEF SeatInv, SlotFits, EmptyRoom, FreeSlot, NoMember
<1>7. \A s \in Seats : Kept(room.slot[s], r.slot[s])
  BY <1>2 DEF Sound, SeatInv, SlotFits, Exists, Kept, EmptyRoom, FreeSlot
<1>8. MovesTo(r, q) /\ q.status = "Lobby"
  <2>1. CASE ResumeMode
    <3>1. CanAddWaiting(r, p, t.user, t.gen)
      BY <1>2, <1>3, <1>4, <1>5, <2>1 DEF CanAddWaiting, HeldSeat
    <3> QED BY <1>2, <1>5, <1>6, <2>1, <3>1, AddWaitingMoves DEF Roles, Sound
  <2>2. CASE ~ResumeMode
    BY <1>2, <1>4, <1>5, <1>6, <2>2, AddPeerMoves DEF CanAddPeer, Sound
  <2> QED BY <2>1, <2>2
<1>9. x \in Settled(q)
  BY DEF r
<1> HIDE DEF q
<1> QED BY <1>7, <1>8, <1>9, MovesSettled, KeptMoves

\* A hello claims a free seat, or renews the seat of its user.
LEMMA HelloMoves ==
  ASSUME TypeInv, Sound(room), NEW p \in Peers, NEW t \in Tokens, Hello(p, t)
  PROVE  MovesTo(room, room')
<1>0. t.user \in Users /\ t.gen \in Gens /\ t.seat \in Seats \cup {NoSeat}
  BY TokenTypes
<1>1. CASE \E n \in PlayerCounts : HelloCreate(p, t, n)
  BY <1>1, CreateMoves DEF HelloCreate
<1>2. CASE HelloReconnect(p, t)
  <2>1. GameSeat(t) \in Seats
    BY <1>2, GameSeatType DEF HelloReconnect
  <2> QED BY <1>0, <1>2, <2>1, ReconnectMoves DEF HelloReconnect
<1>3. CASE HelloWait(p, t)
  <2>1. /\ MovesTo(room, AddWaiting(room, p, t.user, t.role, t.gen))
        /\ AddWaiting(room, p, t.user, t.role, t.gen).status = "Lobby"
    BY <1>0, <1>3, AddWaitingMoves DEF HelloWait, IsMemberToken
  <2> QED BY <1>3, <2>1, MovesSettled DEF HelloWait
<1>4. CASE HelloReclaim(p, t)
  <2>1. Takes(room, t.user, t.seat, t.gen) /\ t.seat \in Seats /\ room.status = "Lobby"
    BY <1>0, <1>4 DEF HelloReclaim, CanReclaim, TakesSeat, Takes, Sound, SeatInv
  <2>2. /\ MovesTo(room, Reclaim(room, p, t.user, t.seat, t.gen))
        /\ Reclaim(room, p, t.user, t.seat, t.gen).status = "Lobby"
    BY <1>0, <2>1, ReclaimMoves
  <2> QED BY <1>4, <2>2, MovesSettled DEF HelloReclaim
<1>5. CASE HelloSeat(p, t)
  <2>1. t.seat \in Seats /\ CanAddPeerAtSeat(room, p, t.seat)
    BY <1>0, <1>5 DEF HelloSeat
  <2>2. /\ MovesTo(room, AddPeerAtSeat(room, p, t.user, t.seat, t.gen))
        /\ AddPeerAtSeat(room, p, t.user, t.seat, t.gen).status = "Lobby"
    BY <1>0, <2>1, AddPeerMoves
  <2> QED BY <1>5, <2>2, MovesSettled DEF HelloSeat
<1>6. CASE HelloSpectate(p, t)
  BY <1>0, <1>6, AddSpectatorMoves DEF HelloSpectate
<1>7. CASE HelloRejected(p, t)
  BY <1>7, SettledLoses, LosesReflexive, LosesMoves DEF HelloRejected
<1> QED
  BY <1>1, <1>2, <1>3, <1>4, <1>5, <1>6, <1>7 DEF Hello

\* JoinRoom claims a free seat, or watches.
LEMMA JoinRoomMoves ==
  ASSUME TypeInv, Sound(room), NEW p \in Peers, JoinRoom(p)
  PROVE  MovesTo(room, room')
<1>1. profile[p] \in Users /\ NoGen \in Gens
  BY DEF JoinRoom, TypeInv, TypeOK, Gens
<1>2. CASE CanAddPeer(room, p) /\ room' \in Settled(AddPeer(room, p, profile[p], NoGen))
  <2>1. /\ MovesTo(room, AddPeer(room, p, profile[p], NoGen))
        /\ AddPeer(room, p, profile[p], NoGen).status = "Lobby"
    BY <1>1, <1>2, AddPeerMoves
  <2> QED BY <1>2, <2>1, MovesSettled
<1>3. CASE \E old \in ReplacedSpectators(profile[p]) :
             room' \in Shown(AddSpectator(room, p, profile[p], old))
  BY <1>1, <1>3, AddSpectatorMoves
<1> QED BY <1>2, <1>3 DEF JoinRoom

\* A request frees, loses, claims or renews seats.
LEMMA RequestMoves ==
  ASSUME TypeInv, Sound(room), NEW p \in Peers, Request(p)
  PROVE  MovesTo(room, room')
<1>0. RoomOK(room)
  BY DEF Sound
<1>a. ASSUME NEW q, LosesTo(room, q), room' \in Settled(q) \cup Shown(q) \cup {q}
      PROVE  MovesTo(room, room')
  BY <1>a, SettledLoses, LosesTransitive, LosesMoves DEF LosesTo
<1>1. CASE JoinRoom(p)
  BY <1>1, JoinRoomMoves
<1>2. CASE \E n \in PlayerCounts : UpdateRoomConfig(p, n)
  <2> PICK n \in PlayerCounts : UpdateRoomConfig(p, n)
    BY <1>2
  <2> DEFINE q == [room EXCEPT !.desired = n]
  <2>1. n \in 1..NumSeats /\ n \in Nat
    BY PlayerCountsAssumption, NumSeatsAssumption
  <2>2. /\ RoomOK(q) /\ q.slot = room.slot /\ q.status = room.status
        /\ q.forfeits = room.forfeits /\ q.waiting = room.waiting
    BY <1>0, <2>1 DEF RoomOK, RoomRecord
  <2>3. room' \in Shown(q)
    BY DEF UpdateRoomConfig
  <2> HIDE DEF q
  <2> QED BY <1>a, <2>2, <2>3, OtherFields
<1>3. CASE AssignRoomSeat(p)
  BY <1>3, AssignMoves, UnassignMoves, MovesSettled DEF AssignRoomSeat
<1>4. CASE StartGame(p)
  BY <1>4, <1>a, StartLoses DEF StartGame, CanStart
<1>5. CASE BootstrapReady(p)
  <2> DEFINE r == [room EXCEPT !.ready = @ \cup {p}]
  <2>1. room.ready \cup {p} \in SUBSET Peers /\ Live(room) /\ room.status = "Starting"
    BY <1>0, <1>5 DEF BootstrapReady, InRoom, Exists, Live, RoomOK, RoomRecord
  <2>2. /\ RoomOK(r) /\ r.slot = room.slot /\ r.status = room.status
        /\ r.forfeits = room.forfeits /\ r.waiting = room.waiting
    BY <1>0, <2>1, ReadyLive DEF Live, RoomOK, RoomRecord
  <2>3. room' \in Settled(CommitStart(r)) \cup {r}
    BY <1>5 DEF BootstrapReady
  <2> HIDE DEF r
  <2>4. LosesTo(room, r) /\ Sound(r)
    BY <2>2, OtherFields DEF LosesTo
  <2>5. LosesTo(room, CommitStart(r))
    BY <2>1, <2>2, <2>4, CommitLoses, LosesTransitive
  <2> QED BY <1>a, <2>3, <2>4, <2>5
<1>6. CASE BootstrapFailed(p)
  <2>1. LosesTo(room, AbortStart(room)) /\ Sound(AbortStart(room))
    BY <1>6, StartLoses DEF BootstrapFailed, LosesTo
  <2>2. LosesTo(AbortStart(room), room')
    BY <1>6, <2>1, RebuiltLoses DEF BootstrapFailed
  <2> QED BY <2>1, <2>2, LosesTransitive, LosesMoves
<1>7. CASE LeaveRoom(p)
  <2>1. CASE Exists
    <3> PICK r \in Cancelled : room' \in Left(r, p)
      BY <1>7, <2>1 DEF LeaveRoom
    <3>1. LosesTo(room, r) /\ Sound(r)
      BY CancelledLoses DEF LosesTo
    <3> QED BY <3>1, LeftLoses, LosesTransitive, LosesMoves
  <2>2. CASE ~Exists
    BY <1>7, <2>2, LosesReflexive, LosesMoves DEF LeaveRoom
  <2> QED BY <2>1, <2>2
<1>8. CASE ForfeitAndLeave(p)
  <2> DEFINE a == ActorOf(room, p)
  <2>1. CASE room.status = "InGame" /\ a # NoSeat /\ ~Forfeited(room, a)
    <3>1. a \in Seats
      BY <1>0, <2>1, ActorType
    <3> PICK r \in MayEnd(Forfeit(room, a)) : room' \in Left(r, p)
      BY <1>8, <2>1 DEF ForfeitAndLeave
    <3> HIDE DEF a
    <3>2. LosesTo(room, r) /\ Sound(r)
      BY <2>1, <3>1, ForfeitLoses DEF LosesTo
    <3> QED BY <3>2, LeftLoses, LosesTransitive, LosesMoves
  <2>2. CASE ~(room.status = "InGame" /\ a # NoSeat /\ ~Forfeited(room, a))
    BY <1>8, <2>2, LeftLoses, LosesMoves DEF ForfeitAndLeave
  <2> QED BY <2>1, <2>2
<1>9. CASE ActionRequest(p)
  <2>1. ActorOf(room, p) \in Seats /\ room.status = "InGame"
    BY <1>0, <1>9, ActorType DEF ActionRequest
  <2>2. room' \in MayEnd(Forfeit(room, ActorOf(room, p))) \cup MayEnd(room)
    BY <1>9 DEF ActionRequest, MayEnd
  <2> QED BY <2>1, <2>2, ForfeitLoses, LosesMoves
<1>10. CASE Rollback(p)
  <2> PICK i \in 0..Len(room.forfeits)-1 :
         room' \in Shown([room EXCEPT !.forfeits = SubSeq(@, 1, i)])
    BY <1>10 DEF Rollback
  <2> DEFINE q == [room EXCEPT !.forfeits = SubSeq(@, 1, i)]
  <2>1. room.forfeits \in Seq(Seats) /\ Live(room) /\ room.status = "InGame"
    BY <1>0, <1>10 DEF Rollback, Live, RoomOK, RoomRecord
  <2>2. SubSeq(room.forfeits, 1, i) \in Seq(Seats)
    BY <2>1
  <2>3. RoomOK(q)
    BY <2>1, <2>2, ForfeitsLive DEF Live
  <2>4. q.slot = room.slot /\ q.waiting = room.waiting /\ q.status = "InGame"
    BY <1>0, <2>1 DEF RoomOK, RoomRecord
  <2> HIDE DEF q
  <2>5. LosesTo(room, q)
    BY <2>3, <2>4, GameLoses
  <2> QED BY <1>a, <2>5 DEF q
<1> QED
  BY <1>1, <1>2, <1>3, <1>4, <1>5, <1>6, <1>7, <1>8, <1>9, <1>10 DEF Request

\* A lost connection loses, or frees, its seat.
LEMMA DisconnectedMoves ==
  ASSUME Sound(room), NEW p \in Peers, PeerDisconnected(p)
  PROVE  MovesTo(room, room')
<1>1. CASE InRoom(p)
  <2> PICK r \in Cancelled : room' \in Left(r, p) \cup Dropped(r, p)
    BY <1>1 DEF PeerDisconnected
  <2>1. LosesTo(room, r) /\ Sound(r)
    BY CancelledLoses DEF LosesTo
  <2> QED BY <2>1, LeftLoses, LosesTransitive, LosesMoves
<1>2. CASE ~InRoom(p)
  BY <1>2, LosesReflexive, LosesMoves DEF PeerDisconnected
<1> QED BY <1>1, <1>2

\* A grace timer frees a seat, or makes its player forfeit.
LEMMA TimerMoves ==
  ASSUME TypeInv, Sound(room), TimerFires
  PROVE  MovesTo(room, room')
<1> DEFINE k == Head(timers).key
<1>0. timers \in Seq(Timer) /\ timers # << >>
  BY DEF TimerFires, TypeInv, TypeOK
<1>1. k \in Keys
  <2>1. Head(timers) \in Timer
    BY <1>0
  <2> QED BY <2>1 DEF Timer
<1>2. /\ k[1] = "waiting" => k[2] \in Users
      /\ k[1] \in {"seat", "actor"} => k[2] \in Seats
  BY <1>1 DEF Keys
<1>3. LobbyTimeout(k) \/ GameTimeout(k) \/ UNCHANGED room
  BY DEF TimerFires
<1> HIDE DEF k
<1>4. UNCHANGED room => MovesTo(room, room')
  BY LosesReflexive, LosesMoves
<1>5. ASSUME NEW q, LosesTo(room, q), room' \in {EmptyRoom} \cup Settled(q) \cup Shown(q)
      PROVE  MovesTo(room, room')
  BY <1>5, EmptiedLoses, SettledLoses, LosesTransitive, LosesMoves DEF LosesTo
<1>6. ASSUME LobbyTimeout(k) PROVE MovesTo(room, room')
  <2>1. CASE k[1] = "waiting" /\ WaitingReleasable(room, k[2])
    BY <1>2, <1>5, <1>6, <2>1, DropWaitingLoses DEF LobbyTimeout, OrRemoved
  <2>2. CASE k[1] = "seat" /\ SeatReleasable(room, k[2])
    BY <1>2, <1>5, <1>6, <2>2, FreeSeatLoses DEF LobbyTimeout, OrRemoved
  <2> QED BY <1>4, <1>6, <2>1, <2>2 DEF LobbyTimeout
<1>7. ASSUME GameTimeout(k) PROVE MovesTo(room, room')
  <2>1. CASE k[1] = "actor" /\ room.status = "InGame" /\ ~Forfeited(room, k[2])
    BY <1>2, <1>5, <1>7, <2>1, ForfeitLoses DEF GameTimeout
  <2> QED BY <1>4, <1>7, <2>1 DEF GameTimeout
<1> QED BY <1>3, <1>4, <1>6, <1>7

\* Every step moves the seats as a lease moves, and keeps the invariant.
LEMMA StepMoves ==
  ASSUME TypeInv, Sound(room), [Next]_vars
  PROVE  MovesTo(room, room')
<1>1. ASSUME NEW p \in Peers, NEW t \in Tokens, Hello(p, t)
      PROVE  MovesTo(room, room')
  BY <1>1, HelloMoves
<1>2. ASSUME NEW p \in Peers, Request(p) \/ PeerDisconnected(p)
      PROVE  MovesTo(room, room')
  BY <1>2, RequestMoves, DisconnectedMoves
<1>3. CASE TimerFires
  BY <1>3, TimerMoves
<1>4. CASE RoomListed
  BY <1>4, SettledLoses, LosesMoves DEF RoomListed
<1>5. CASE RemoteEnded
  BY <1>5, EmptiedLoses, LosesMoves DEF RemoteEnded
<1>6. CASE UNCHANGED vars
  BY <1>6, LosesReflexive, LosesMoves DEF vars
<1> QED BY <1>1, <1>2, <1>3, <1>4, <1>5, <1>6 DEF Next

-----------------------------------------------------------------------------
(* The theorems *)

LeaseInv == TypeInv /\ SeatInv(room)

\* LeaseInv holds in every reachable state.
LEMMA LeaseInvInvariant == Spec => []LeaseInv
<1>1. Init => LeaseInv
  <2> SUFFICES ASSUME Init PROVE LeaseInv
    OBVIOUS
  <2>1. TypeInv
    BY EmptyRoomOK DEF Init, TypeInv, TypeOK, RoomOK
  <2>2. SeatInv(room)
    BY DEF Init, SeatInv, SlotFits, EmptyRoom, FreeSlot, NoMember
  <2> QED BY <2>1, <2>2 DEF LeaseInv
<1>2. LeaseInv /\ [Next]_vars => LeaseInv'
  <2> SUFFICES ASSUME LeaseInv, [Next]_vars PROVE LeaseInv'
    OBVIOUS
  <2>1. TypeInv'
    BY TypeInvStep DEF LeaseInv
  <2>2. SeatInv(room')
    BY StepMoves DEF LeaseInv, TypeInv, Sound, MovesTo
  <2> QED BY <2>1, <2>2 DEF LeaseInv, SeatInv, Forfeited, SlotFits
<1> QED BY <1>1, <1>2, PTL DEF Spec

\* A seat is connected exactly when a connection holds it, unless its player
\* forfeited, and a free seat holds nothing (room.gd): evictions, timeouts,
\* started and rolled back games never leave the two apart.
THEOREM SeatStatesAgree == Spec => []SeatStateAgrees
<1>1. LeaseInv => SeatStateAgrees
  BY DEF LeaseInv, SeatInv, SlotFits, SeatStateAgrees
<1> QED BY <1>1, LeaseInvInvariant, PTL

\* The kind of lease a seat state stands for.
LEMMA Kinds ==
  /\ SeatKind["FREE"] = "free" /\ SeatKind["CONNECTED"] = "held"
  /\ SeatKind["RECONNECTING"] = "away" /\ SeatKind["FORFEITED"] = "lost"
BY DEF SeatKind

\* A sound seat is a lease of the abstract specification.
LEMMA LeaseType ==
  ASSUME NEW t \in Slot, SlotFits(t)
  PROVE  /\ LeaseOf(t).user = t.user /\ LeaseOf(t).gen = t.gen
         /\ LeaseOf(t).kind = SeatKind[t.state]
         /\ t.state = "FREE" => LeaseOf(t) = Lease!Free
         /\ t.state # "FREE" => LeaseOf(t) \in Lease!Held /\ LeaseOf(t) # Lease!Free
<1>1. t.state \in {"FREE", "CONNECTED", "RECONNECTING", "FORFEITED"} /\ t.gen \in Nat
  BY DEF Slot, SeatStates
<1>2. t.state = "FREE" => LeaseOf(t) = Lease!Free
  BY Kinds DEF LeaseOf, Lease!Free, SlotFits, NoUser
<1>3. ASSUME t.state # "FREE" PROVE LeaseOf(t) \in Lease!Held /\ LeaseOf(t) # Lease!Free
  <2>1. t.user \in Users /\ t.gen \in Nat \ {0}
    BY <1>1, <1>3 DEF SlotFits, Slot
  <2>2. SeatKind[t.state] \in {"held", "away", "lost"}
    BY <1>1, <1>3, Kinds
  <2> QED BY <2>1, <2>2 DEF LeaseOf, Lease!Held, Lease!Free
<1> QED BY <1>2, <1>3 DEF LeaseOf

\* A move of a seat is a step of its lease.
LEMMA MovedIsLeaseStep ==
  ASSUME NEW a \in Slot, NEW b \in Slot, SlotFits(a), SlotFits(b), Moved(a, b)
  PROVE  \/ LeaseOf(b) = LeaseOf(a)
         \/ LeaseOf(a) = Lease!Free /\ LeaseOf(b).kind \in {"held", "away"}
         \/ /\ LeaseOf(a).kind \in {"held", "away"} /\ LeaseOf(b).kind = "held"
            /\ LeaseOf(b).user = LeaseOf(a).user /\ LeaseOf(b).gen > LeaseOf(a).gen
         \/ /\ LeaseOf(a).kind \in {"held", "lost"}
            /\ LeaseOf(b) = [LeaseOf(a) EXCEPT !.kind = "away"]
         \/ /\ LeaseOf(a).kind \in {"held", "away"}
            /\ LeaseOf(b) = [LeaseOf(a) EXCEPT !.kind = "lost"]
         \/ LeaseOf(a) # Lease!Free /\ LeaseOf(b) = Lease!Free
<1>1. /\ a.state \in {"FREE", "CONNECTED", "RECONNECTING", "FORFEITED"}
      /\ b.state \in {"FREE", "CONNECTED", "RECONNECTING", "FORFEITED"}
  BY DEF Slot, SeatStates
<1>2. CASE Kept(a, b)
  BY <1>2 DEF Kept, LeaseOf
<1>3. CASE a.state # "FREE" /\ b.state \in {"RECONNECTING", "FORFEITED"} /\ b.user = a.user /\ b.gen = a.gen
  BY <1>1, <1>3, Kinds DEF LeaseOf
<1>4. CASE a.state # "FREE" /\ b.state = "FREE"
  BY <1>4, LeaseType
<1>5. CASE a.state = "FREE" /\ b.state \in {"CONNECTED", "RECONNECTING"}
  BY <1>5, LeaseType, Kinds
<1>6. CASE /\ a.state \in {"CONNECTED", "RECONNECTING"} /\ b.state = "CONNECTED"
           /\ b.user = a.user /\ b.gen > a.gen
  BY <1>6, LeaseType, Kinds
<1> QED BY <1>2, <1>3, <1>4, <1>5, <1>6 DEF Moved, Lost

\* Every step of the server is a step of the leases, or none.
LEMMA LeaseStep == LeaseInv /\ [Next]_vars => Lease!Next
<1> SUFFICES ASSUME LeaseInv, [Next]_vars PROVE Lease!Next
  OBVIOUS
<1>1. Sound(room) /\ MovesTo(room, room')
  BY StepMoves DEF LeaseInv, TypeInv, Sound
<1>2. ASSUME NEW s \in Seats
      PROVE  /\ room.slot[s] \in Slot /\ SlotFits(room.slot[s])
             /\ room'.slot[s] \in Slot /\ SlotFits(room'.slot[s])
             /\ Moved(room.slot[s], room'.slot[s])
  BY <1>1, SlotTypes DEF Sound, SeatInv, MovesTo, Moves
<1> DEFINE l == [s \in Seats |-> LeaseOf(room.slot[s])]
<1>3. l' = [s \in Seats |-> LeaseOf(room'.slot[s])]
  BY DEF LeaseOf, SeatKind
<1>4. l' \in [Seats -> Lease!Held \cup {Lease!Free}]
  BY <1>2, <1>3, LeaseType
<1>5. ASSUME NEW s \in Seats PROVE Lease!SeatStep(s)
  <2>1. l[s] = LeaseOf(room.slot[s]) /\ l'[s] = LeaseOf(room'.slot[s])
    BY <1>3
  <2> HIDE DEF l
  <2> QED BY <1>2, <2>1, MovedIsLeaseStep
          DEF Lease!SeatStep, Lease!Claim, Lease!Renew, Lease!Turn, Lease!Release, l
<1> QED BY <1>4, <1>5 DEF Lease!Next

\* The seats of a room implement the lease, whatever the order of messages,
\* disconnections and timers: a seat changes hands only by being free in
\* between, a connection takes a leased seat only as its user and with a newer
\* generation, and never while the seat is forfeited (room.gd, server.gd).
THEOREM RoomImplementsLease == Spec => ImplementsLease
<1>1. Init => Lease!Init
  <2> SUFFICES ASSUME Init PROVE Lease!Init
    OBVIOUS
  <2>1. \A s \in Seats : room.slot[s] = FreeSlot
    BY DEF Init, EmptyRoom
  <2>2. LeaseOf(FreeSlot) = Lease!Free
    BY Kinds DEF LeaseOf, FreeSlot, Lease!Free, NoUser
  <2> QED BY <2>1, <2>2 DEF Lease!Init
<1> QED BY <1>1, LeaseStep, LeaseInvInvariant, PTL DEF Spec, ImplementsLease, Lease!Spec, Lease!Steps

-----------------------------------------------------------------------------
(* The table of a game.  That a game has a seat that is taken is decided    *)
(* while it is being started: then nobody waits or watches, so a room that  *)
(* loses its last seat is empty and goes.                                   *)

TableInv(r) ==
  /\ ~r.resume \/ r.status = "Starting" => Waiting(r) = {}
  /\ r.status \in {"Lobby", "Starting"} => Spectators(r) = {}
  /\ r.status = "Starting" \/ GameOn(r) => Occupied(r) # {}
  /\ r.status = "None" => r.forfeits = << >>

\* A seat stays taken, or free, and no connection comes to it.
SeatAs(a, b)  == (b.state = "FREE" <=> a.state = "FREE") /\ b.peer \in {a.peer, NoPeer}
SeatsAs(r, q) == \A s \in Seats : SeatAs(r.slot[s], q.slot[s])

\* Some of its members go, but the game keeps its seats.
Thins(r, q) ==
  /\ q.status = r.status /\ q.resume = r.resume /\ q.forfeits = r.forfeits
  /\ Waiting(q) \subseteq Waiting(r) /\ Spectators(q) \subseteq Spectators(r)
  /\ GameOn(r) => SeatsAs(r, q)

\* What is left of a room that members leave: a room that is not a game may go.
Stays(r, q) ==
  /\ TableInv(q)
  /\ q.status = r.status \/ (q.status = "None" /\ ~GameOn(r))
  /\ GameOn(r) => SeatsAs(r, q)

\* What every step makes of a room, unless it removes it: a game goes on or
\* ends, its seats stay taken or free, and no connection comes to the seat of
\* a player whose forfeit is in the history.
Follows(a, b) ==
  \/ a = b
  \/ a = "None" /\ b = "Lobby"
  \/ a \in {"Lobby", "Starting"} /\ b \in {"None", "Lobby", "Starting", "InGame"}
  \/ a = "InGame" /\ b = "Ended"
Lives(r, q) ==
  /\ TableInv(q)
  /\ Follows(r.status, q.status)
  /\ GameOn(r) => \A s \in Seats :
       /\ q.slot[s].state = "FREE" <=> r.slot[s].state = "FREE"
       /\ Forfeited(r, s) => q.slot[s].peer \in {r.slot[s].peer, NoPeer}

\* Who is on a seat or waits no more, is where remove_peer and disconnect_peer look.
LEMMA SeatOf ==
  ASSUME NEW r, RoomOK(r), NEW p \in Peers, HasPeer(r, p), p \notin Spectators(r),
         UsersOf(r, p) = {}
  PROVE  LET s == LowestSeat(SeatsOf(r, p)) IN s \in Seats /\ r.slot[s].peer = p /\ p # NoPeer
<1>1. SeatsOf(r, p) # {}
  BY PlaceOf
<1>2. LowestSeat(SeatsOf(r, p)) \in SeatsOf(r, p)
  BY <1>1, SeatsFacts, LowestSeatIsLeast DEF SeatsOf
<1> QED BY <1>2, PeersAssumption DEF SeatsOf

\* The operations of the resume lobby are for resume rooms, and keep them so.
LEMMA ResumeStays ==
  ASSUME NEW r, RoomOK(r)
  PROVE  /\ \A u \in Users, s \in Seats : Assign(r, u, s).resume = r.resume
         /\ \A s \in Seats : Unassign(r, s).resume = r.resume
         /\ \A p \in Peers, u \in Users, role \in Roles, g \in Gens :
              AddWaiting(r, p, u, role, g).resume = r.resume
<1>1. ASSUME NEW q, RoomOK(q), NEW u \in Users, NEW s
      PROVE  Assign(q, u, s).resume = q.resume
  BY <1>1 DEF Assign, RoomOK, RoomRecord
<1>2. ASSUME NEW s \in Seats PROVE Unassign(r, s).resume = r.resume
  BY DEF Unassign, RoomOK, RoomRecord
<1>3. ASSUME NEW p \in Peers, NEW u \in Users, NEW role \in Roles, NEW g \in Gens
      PROVE  AddWaiting(r, p, u, role, g).resume = r.resume
  <2> DEFINE q == PutWaiting(r, p, u, role, g)
  <2>1. Reclaim(r, p, u, HeldSeat(r, u), g).resume = r.resume
    BY DEF Reclaim, RoomOK, RoomRecord
  <2>2. r.waiting[u] \in Member
    BY SlotTypes
  <2>3. NextGeneration(r.waiting[u].gen, g) \in Nat /\ InitialGeneration(g) \in Nat
    BY <2>2, GenerationType DEF Member
  <2>4. RoomOK(q) /\ q.resume = r.resume
    BY <2>2, <2>3 DEF PutWaiting, RoomOK, RoomRecord, Member
  <2> HIDE DEF q
  <2>5. AddWaiting(r, p, u, role, g) \in
          {Reclaim(r, p, u, HeldSeat(r, u), g), q, Assign(q, u, ExpectedSeat(q, u))}
    BY DEF AddWaiting, q
  <2> QED BY <1>1, <2>1, <2>4, <2>5
<1> QED BY <1>1, <1>2, <1>3

\* A room that thins is as it was, if its start has kept a seat.
LEMMA ThinsStays ==
  ASSUME NEW r, TableInv(r), NEW q, Thins(r, q), r.status = "Starting" => Occupied(q) # {}
  PROVE  Stays(r, q)
<1>1. GameOn(r) => Occupied(q) = Occupied(r)
  BY DEF Thins, SeatsAs, SeatAs, Occupied
<1>2. TableInv(q)
  BY <1>1 DEF TableInv, Thins, GameOn
<1> QED BY <1>2 DEF Stays, Thins

\* A room with the same members at the same places thins.
LEMMA SameThins ==
  ASSUME NEW r, TableInv(r), NEW q, Thins(r, q), SeatsAs(r, q)
  PROVE  Stays(r, q)
<1>1. Occupied(q) = Occupied(r)
  BY DEF SeatsAs, SeatAs, Occupied
<1> QED BY <1>1, ThinsStays DEF TableInv

\* Stays composes.
LEMMA StaysThenStays ==
  ASSUME NEW r, NEW q, NEW x, Stays(r, q), Stays(q, x)
  PROVE  Stays(r, x)
BY DEF Stays, GameOn, SeatsAs, SeatAs

\* No room is a table nobody sits at.
LEMMA EmptyTable == TableInv(EmptyRoom) /\ EmptyRoom.status = "None"
BY DEF TableInv, EmptyRoom, GameOn, Waiting, Spectators, NoMember

\* A room that is not a game may go.
LEMMA EmptiedStays ==
  ASSUME NEW r, ~GameOn(r)
  PROVE  Stays(r, EmptyRoom)
BY EmptyTable DEF Stays

\* Syncing with the engine and rebuilding the views move nobody.
LEMMA SyncedAs ==
  ASSUME NEW r, RoomOK(r)
  PROVE  LET a == Synced(r)
         IN  /\ RoomOK(a) /\ a.status = r.status /\ a.resume = r.resume /\ a.forfeits = r.forfeits
             /\ a.waiting = r.waiting /\ a.spectator = r.spectator /\ SeatsAs(r, a)
<1> DEFINE a == Synced(r)
<1>1. RoomOK(a)
  BY SyncedOK
<1>2. /\ a.status = r.status /\ a.resume = r.resume /\ a.forfeits = r.forfeits
      /\ a.waiting = r.waiting /\ a.spectator = r.spectator
      /\ \A s \in Seats : a.slot[s] = r.slot[s] \/
           (r.slot[s].state # "FREE" /\ a.slot[s] = [r.slot[s] EXCEPT !.state = "FORFEITED"])
  BY <1>1 DEF Synced, RoomOK, RoomRecord
<1> HIDE DEF a
<1>3. ASSUME NEW s \in Seats PROVE SeatAs(r.slot[s], a.slot[s])
  <2>1. r.slot[s] \in Slot
    BY SlotTypes
  <2> QED BY <1>2, <2>1 DEF SeatAs, Slot
<1> QED BY <1>1, <1>2, <1>3 DEF SeatsAs, a

\* So does every broadcast.
LEMMA SettledStays ==
  ASSUME NEW r, RoomOK(r), TableInv(r), NEW q \in Settled(r) \cup Shown(r) \cup {r}
  PROVE  Stays(r, q)
<1> DEFINE a == Synced(r)
<1>1. Thins(r, r) /\ SeatsAs(r, r)
  BY DEF Thins, SeatsAs, SeatAs
<1>2. ASSUME NEW x \in Rebuilt(a) PROVE Stays(r, x)
  <2>1. /\ RoomOK(a) /\ a.status = r.status /\ a.resume = r.resume /\ a.forfeits = r.forfeits
        /\ a.waiting = r.waiting /\ a.spectator = r.spectator /\ SeatsAs(r, a)
    BY SyncedAs
  <2> HIDE DEF a
  <2>2. /\ x.status = a.status /\ x.resume = a.resume /\ x.forfeits = a.forfeits
        /\ x.waiting = a.waiting /\ x.spectator = a.spectator /\ x.slot = a.slot
    BY <2>1 DEF Rebuilt, RoomOK, RoomRecord
  <2>3. Thins(r, x) /\ SeatsAs(r, x)
    BY <2>1, <2>2 DEF Thins, SeatsAs, Waiting, Spectators
  <2> QED BY <2>3, SameThins
<1> QED BY <1>1, <1>2, SameThins DEF Settled, Shown

\* Passing the host role on moves nobody.
LEMMA PromoteThins ==
  ASSUME NEW r, RoomOK(r)
  PROVE  Thins(r, Promote(r)) /\ SeatsAs(r, Promote(r))
<1> DEFINE d == Demoted(r)
           Same(q) == /\ q.status = r.status /\ q.resume = r.resume /\ q.forfeits = r.forfeits
                      /\ q.spectator = r.spectator
                      /\ \A u \in Users : q.waiting[u].role = "none" <=> r.waiting[u].role = "none"
                      /\ SeatsAs(r, q)
<1>1. RoomOK(d)
  BY DemotedOK
<1>2. Same(d)
  <2>1. /\ d.status = r.status /\ d.resume = r.resume /\ d.forfeits = r.forfeits
        /\ d.spectator = r.spectator
        /\ \A s \in Seats : d.slot[s] = [r.slot[s] EXCEPT !.role = "player"]
        /\ \A u \in Users : d.waiting[u] = IF u \in Waiting(r)
                           THEN [r.waiting[u] EXCEPT !.role = "player"] ELSE r.waiting[u]
    BY DEF Demoted, RoomOK, RoomRecord
  <2> HIDE DEF d
  <2>2. ASSUME NEW s \in Seats PROVE SeatAs(r.slot[s], d.slot[s])
    <3>1. r.slot[s] \in Slot
      BY SlotTypes
    <3>2. d.slot[s] = [r.slot[s] EXCEPT !.role = "player"]
      BY <2>1
    <3> QED BY <3>1, <3>2 DEF Slot, SeatAs
  <2>3. ASSUME NEW u \in Users PROVE d.waiting[u].role = "none" <=> r.waiting[u].role = "none"
    <3>1. r.waiting[u] \in Member
      BY SlotTypes
    <3>2. d.waiting[u] = IF u \in Waiting(r)
                           THEN [r.waiting[u] EXCEPT !.role = "player"] ELSE r.waiting[u]
      BY <2>1
    <3> QED BY <3>1, <3>2 DEF Member, Waiting
  <2> QED BY <2>1, <2>2, <2>3 DEF SeatsAs
<1> HIDE DEF d
<1>3. ASSUME NEW s \in Seats, NEW q, q = [d EXCEPT !.slot[s].role = "host", !.hostSeat = s]
      PROVE  Same(q)
  <2>1. /\ q.status = d.status /\ q.resume = d.resume /\ q.forfeits = d.forfeits
        /\ q.spectator = d.spectator /\ q.waiting = d.waiting
        /\ \A x \in Seats : q.slot[x] = IF x = s THEN [d.slot[s] EXCEPT !.role = "host"] ELSE d.slot[x]
    BY <1>1, <1>3 DEF RoomOK, RoomRecord
  <2>2. \A x \in Seats : q.slot[x].state = d.slot[x].state /\ q.slot[x].peer = d.slot[x].peer
    BY <1>1, <2>1, SlotTypes DEF Slot
  <2> QED BY <1>2, <2>1, <2>2 DEF SeatsAs, SeatAs
<1>4. ASSUME NEW u \in Waiting(d), NEW q, q = [d EXCEPT !.waiting[u].role = "host"]
      PROVE  Same(q)
  <2>1. /\ q.status = d.status /\ q.resume = d.resume /\ q.forfeits = d.forfeits
        /\ q.spectator = d.spectator /\ q.slot = d.slot
        /\ \A x \in Users : q.waiting[x].role = IF x = u THEN "host" ELSE d.waiting[x].role
    BY <1>1, <1>4, SlotTypes DEF RoomOK, RoomRecord, Waiting, Member
  <2> QED BY <1>2, <2>1 DEF SeatsAs, SeatAs, Waiting
<1>5. Occupied(d) # {} => LowestSeat(Occupied(d)) \in Seats
  BY SeatsFacts, LowestSeatIsLeast DEF Occupied
<1>6. Waiting(d) # {} => LowestSeat(Waiting(d)) \in Waiting(d)
  BY SeatsFacts, LowestSeatIsLeast DEF Waiting
<1> HIDE DEF Same
<1>7. Same(Promote(r))
  BY <1>2, <1>3, <1>4, <1>5, <1>6 DEF Promote, d
<1>8. \A q : Same(q) => Thins(r, q) /\ SeatsAs(r, q)
  BY DEF Same, Thins, Waiting, Spectators
<1> QED BY <1>7, <1>8

\* One thinning after another.
LEMMA ThinsThenThins ==
  ASSUME NEW r, NEW q, NEW x, Thins(r, q), Thins(q, x)
  PROVE  Thins(r, x)
BY DEF Thins, GameOn, SeatsAs, SeatAs

\* A seat that is freed in a lobby, a member who waits no more.
LEMMA FreedThins ==
  ASSUME NEW r, RoomOK(r)
  PROVE  /\ \A s \in Seats : ~GameOn(r) => Thins(r, FreeSeat(r, s))
         /\ \A u \in Users : Thins(r, DropWaiting(r, u))
<1>1. ASSUME NEW s \in Seats, ~GameOn(r) PROVE Thins(r, FreeSeat(r, s))
  <2> DEFINE q == [r EXCEPT !.slot[s] = FreeSlot]
  <2>1. RoomOK(q)
    BY FreeTypes DEF RoomOK, RoomRecord
  <2>2. Thins(r, q)
    BY <1>1 DEF RoomOK, RoomRecord, Thins, Waiting, Spectators
  <2>3. FreeSeat(r, s) \in {q, Promote(q)}
    BY DEF FreeSeat
  <2> HIDE DEF q
  <2> QED BY <2>1, <2>2, <2>3, PromoteThins, ThinsThenThins
<1>2. ASSUME NEW u \in Users PROVE Thins(r, DropWaiting(r, u))
  <2> DEFINE q == [r EXCEPT !.waiting[u] = NoMember]
  <2>1. RoomOK(q)
    BY FreeTypes DEF RoomOK, RoomRecord
  <2>2. /\ q.status = r.status /\ q.resume = r.resume /\ q.forfeits = r.forfeits
        /\ q.spectator = r.spectator /\ q.slot = r.slot
        /\ q.waiting[u] = NoMember /\ \A v \in Users \ {u} : q.waiting[v] = r.waiting[v]
    BY DEF RoomOK, RoomRecord
  <2>3. DropWaiting(r, u) \in {q, Promote(q)}
    BY DEF DropWaiting
  <2> HIDE DEF q
  <2>4. Thins(r, q)
    BY <2>2 DEF Thins, Waiting, Spectators, NoMember, SeatsAs, SeatAs
  <2> QED BY <2>1, <2>3, <2>4, PromoteThins, ThinsThenThins
<1> QED BY <1>1, <1>2

\* A seat that is vacated is still taken.
LEMMA VacatedThins ==
  ASSUME NEW r, RoomOK(r), NEW s \in Seats, r.slot[s].state # "FREE"
  PROVE  Thins(r, VacateSeat(r, s))
<1> DEFINE a == Synced(r)
           q == VacateSeat(r, s)
<1>1. /\ RoomOK(a) /\ a.status = r.status /\ a.resume = r.resume /\ a.forfeits = r.forfeits
      /\ a.waiting = r.waiting /\ a.spectator = r.spectator /\ SeatsAs(r, a)
  BY SyncedAs
<1> HIDE DEF a
<1>2. /\ q.status = a.status /\ q.resume = a.resume /\ q.forfeits = a.forfeits
      /\ q.waiting = a.waiting /\ q.spectator = a.spectator
      /\ q.slot[s] = [a.slot[s] EXCEPT !.peer = NoPeer,
                        !.state = IF Forfeited(r, s) THEN "FORFEITED" ELSE "RECONNECTING"]
      /\ \A x \in Seats \ {s} : q.slot[x] = a.slot[x]
  <2>1. q = [a EXCEPT !.slot[s].peer = NoPeer,
                      !.slot[s].state = IF Forfeited(r, s) THEN "FORFEITED" ELSE "RECONNECTING"]
    BY DEF VacateSeat, a
  <2> HIDE DEF q
  <2> QED BY <1>1, <2>1 DEF RoomOK, RoomRecord
<1> HIDE DEF q
<1>3. q.slot[s].peer = NoPeer /\ q.slot[s].state \in {"FORFEITED", "RECONNECTING"}
  BY <1>1, <1>2, SlotTypes DEF Slot
<1>4. SeatsAs(r, q)
  <2>1. SeatAs(r.slot[s], q.slot[s])
    BY <1>3 DEF SeatAs
  <2>2. ASSUME NEW x \in Seats \ {s} PROVE SeatAs(r.slot[x], q.slot[x])
    BY <1>1, <1>2 DEF SeatsAs
  <2> QED BY <2>1, <2>2 DEF SeatsAs
<1>5. q.status = r.status /\ q.resume = r.resume /\ q.forfeits = r.forfeits
      /\ Waiting(q) = Waiting(r) /\ Spectators(q) = Spectators(r)
  BY <1>1, <1>2 DEF Waiting, Spectators
<1> QED BY <1>4, <1>5 DEF Thins, q

\* remove_peer and disconnect_peer thin the room.
LEMMA GoneThins ==
  ASSUME NEW r, Sound(r), NEW p \in Peers, HasPeer(r, p)
  PROVE  Thins(r, RemovePeer(r, p)) /\ Thins(r, DisconnectPeer(r, p))
<1>0. RoomOK(r)
  BY DEF Sound
<1>1. CASE p \in Spectators(r)
  <2> DEFINE q == DropSpectator(r, p)
  <2>1. /\ q.status = r.status /\ q.resume = r.resume /\ q.forfeits = r.forfeits
        /\ q.waiting = r.waiting /\ q.slot = r.slot
        /\ \A x \in Peers : q.spectator[x] = IF x = p THEN NoUser ELSE r.spectator[x]
    BY <1>0 DEF DropSpectator, RoomOK, RoomRecord
  <2> HIDE DEF q
  <2>2. Thins(r, q)
    BY <2>1 DEF Thins, Waiting, Spectators, SeatsAs, SeatAs
  <2> QED BY <1>1, <2>2 DEF RemovePeer, DisconnectPeer, q
<1>2. CASE p \notin Spectators(r) /\ UsersOf(r, p) # {}
  <2> DEFINE u == LowestSeat(UsersOf(r, p))
             q == [r EXCEPT !.waiting[u].peer = NoPeer]
  <2>1. u \in Users
    BY <1>0, <1>2, PlaceOf
  <2>2. RemovePeer(r, p) = DropWaiting(r, u) /\ DisconnectPeer(r, p) = q
    BY <1>2 DEF RemovePeer, DisconnectPeer
  <2> HIDE DEF u
  <2>3. /\ q.status = r.status /\ q.resume = r.resume /\ q.forfeits = r.forfeits
        /\ q.spectator = r.spectator /\ q.slot = r.slot
        /\ \A v \in Users : q.waiting[v].role = r.waiting[v].role
    BY <1>0, <2>1, SlotTypes DEF RoomOK, RoomRecord, Member
  <2> HIDE DEF q
  <2>4. Thins(r, q)
    BY <2>3 DEF Thins, Waiting, Spectators, SeatsAs, SeatAs
  <2> QED BY <1>0, <2>1, <2>2, <2>4, FreedThins
<1>3. CASE p \notin Spectators(r) /\ UsersOf(r, p) = {}
  <2> DEFINE s == LowestSeat(SeatsOf(r, p))
  <2>1. s \in Seats /\ r.slot[s].peer = p /\ p # NoPeer
    BY <1>0, <1>3, SeatOf
  <2>2. /\ RemovePeer(r, p) = IF r.status \in {"Lobby", "Starting"} THEN FreeSeat(r, s)
                              ELSE VacateSeat(r, s)
        /\ DisconnectPeer(r, p) = VacateSeat(r, s)
    BY <1>3 DEF RemovePeer, DisconnectPeer
  <2> HIDE DEF s
  <2>3. r.slot[s].state # "FREE"
    BY <2>1 DEF Sound, SeatInv, SlotFits
  <2> QED BY <1>0, <2>1, <2>2, <2>3, FreedThins, VacatedThins DEF GameOn
<1> QED BY <1>1, <1>2, <1>3

\* A member who leaves, or whose connection is lost, leaves no game without a
\* seat: a room that has lost its last one is removed.
LEMMA LeftStays ==
  ASSUME NEW r, Sound(r), TableInv(r), NEW p \in Peers, NEW x
  PROVE  /\ x \in Left(r, p) => Stays(r, x)
         /\ x \in Dropped(r, p) /\ r.status \in {"Lobby", "InGame"} => Stays(r, x)
<1>0. RoomOK(r) /\ Stays(r, r)
  BY SettledStays DEF Sound
<1>1. CASE ~HasPeer(r, p)
  BY <1>0, <1>1 DEF Left, Dropped
<1>2. CASE HasPeer(r, p)
  <2>1. /\ Thins(r, RemovePeer(r, p)) /\ Thins(r, DisconnectPeer(r, p))
        /\ RoomOK(RemovePeer(r, p)) /\ RoomOK(DisconnectPeer(r, p))
    BY <1>2, GoneThins, GoneLoses DEF LosesTo, Sound
  <2>2. ASSUME NEW q, Thins(r, q), GameOn(r) PROVE Occupied(q) # {} /\ q.status = r.status
    BY <2>2 DEF Thins, SeatsAs, SeatAs, Occupied, TableInv
  <2>3. ASSUME NEW q, Thins(r, q), RoomOK(q), r.status = "Starting" => ~IsEmpty(q), x \in Settled(q)
        PROVE  Stays(r, x)
    <3>1. r.status = "Starting" => Occupied(q) # {}
      BY <2>3 DEF TableInv, Thins, IsEmpty
    <3>2. Stays(r, q)
      BY <2>3, <3>1, ThinsStays
    <3> QED BY <2>3, <3>2, SettledStays, StaysThenStays DEF Stays
  <2>4. ASSUME x \in Left(r, p) PROVE Stays(r, x)
    <3> DEFINE q == RemovePeer(r, p)
    <3>1. CASE IsEmpty(q)
      <4>1. ~GameOn(r) /\ x = EmptyRoom
        BY <1>2, <2>1, <2>2, <2>4, <3>1 DEF IsEmpty, Left, OrRemoved
      <4> QED BY <4>1, EmptiedStays
    <3>2. CASE ~IsEmpty(q)
      <4>1. x \in Settled(q)
        BY <1>2, <2>4, <3>2 DEF Left, OrRemoved
      <4> QED BY <2>1, <2>3, <3>2, <4>1
    <3> QED BY <3>1, <3>2
  <2>5. ASSUME x \in Dropped(r, p), r.status \in {"Lobby", "InGame"} PROVE Stays(r, x)
    <3> DEFINE q == DisconnectPeer(r, p)
    <3>1. CASE NobodyKeeps(q) \/ IsEmpty(q)
      <4>1. x = EmptyRoom
        BY <1>2, <2>5, <3>1 DEF Dropped, OrRemoved
      <4>2. ~GameOn(r)
        BY <2>1, <2>2, <2>5, <3>1 DEF IsEmpty, NobodyKeeps, GameOn
      <4> QED BY <4>1, <4>2, EmptiedStays
    <3>2. CASE ~(NobodyKeeps(q) \/ IsEmpty(q))
      <4>1. x \in Settled(q)
        BY <1>2, <2>5, <3>2 DEF Dropped, OrRemoved
      <4> QED BY <2>1, <2>3, <2>5, <4>1
    <3> QED BY <3>1, <3>2
  <2> QED BY <2>4, <2>5
<1> QED BY <1>1, <1>2

-----------------------------------------------------------------------------
(* Every step keeps the table of a game.                                    *)

\* A step of the room, and what its members and broadcasts make of it.
LEMMA LivesThenStays ==
  ASSUME NEW r, r.status \in Statuses, NEW q, NEW x, Lives(r, q), Stays(q, x)
  PROVE  Lives(r, x)
<1>1. GameOn(r) => GameOn(q)
  BY DEF Lives, Follows, GameOn
<1>2. Follows(r.status, x.status)
  BY DEF Lives, Stays, Follows, GameOn, Statuses
<1> QED BY <1>1, <1>2 DEF Lives, Stays, SeatsAs, SeatAs

\* What stays lives.
LEMMA StaysLives ==
  ASSUME NEW r, TableInv(r), r.status \in Statuses, NEW q, Stays(r, q)
  PROVE  Lives(r, q)
BY DEF Lives, Stays, Follows, GameOn, SeatsAs, SeatAs, Statuses

\* Before the game only the table counts.
LEMMA LobbyLives ==
  ASSUME NEW r, r.status \in Statuses, NEW q, RoomOK(q), ~GameOn(r), TableInv(q),
         Follows(r.status, q.status), NEW x \in Settled(q) \cup Shown(q) \cup {q}
  PROVE  Lives(r, x)
<1>1. Lives(r, q)
  BY DEF Lives
<1>2. Stays(q, x)
  BY SettledStays
<1> QED BY <1>1, <1>2, LivesThenStays

\* In a game only the seats count.
LEMMA GameLives ==
  ASSUME NEW r, TableInv(r), r.status = "InGame", NEW q, RoomOK(q), q.slot = r.slot,
         q.waiting = r.waiting, q.resume = r.resume, q.status \in {"InGame", "Ended"},
         NEW x \in Settled(q) \cup Shown(q) \cup {q}
  PROVE  Lives(r, x)
<1>1. TableInv(q)
  BY DEF TableInv, Waiting, Occupied, GameOn
<1>2. Lives(r, q)
  BY <1>1 DEF Lives, Follows
<1>3. Stays(q, x)
  BY <1>1, SettledStays
<1> QED BY <1>2, <1>3, LivesThenStays DEF Statuses

\* Forfeits, and the end of the game, leave the seats as they are.
LEMMA ForfeitLives ==
  ASSUME NEW r, RoomOK(r), TableInv(r), r.status = "InGame", NEW s \in Seats,
         NEW q \in MayEnd(r) \cup MayEnd(Forfeit(r, s)), NEW x \in Settled(q) \cup Shown(q) \cup {q}
  PROVE  Lives(r, x)
<1> DEFINE f == Forfeit(r, s)
<1>1. Live(r) /\ Live(f) /\ RoomOK(f)
  BY ForfeitLive DEF Live
<1>2. /\ f.slot = r.slot /\ f.waiting = r.waiting /\ f.resume = r.resume
      /\ f.status \in {"InGame", "Ended"}
  BY <1>1 DEF Forfeit, RoomOK, RoomRecord
<1> HIDE DEF f
<1>3. RoomOK(q)
  BY <1>1, MayEndOK DEF f
<1>4. q \in MayEnd(r) \cup MayEnd(f)
  BY DEF f
<1>5. /\ q.slot = r.slot /\ q.waiting = r.waiting /\ q.resume = r.resume
      /\ q.status \in {"InGame", "Ended"}
  BY <1>1, <1>2, <1>4 DEF MayEnd, RoomOK, RoomRecord
<1> QED BY <1>3, <1>5, GameLives

\* A player comes back to his own seat, which is taken and not forfeited.
LEMMA ReconnectLives ==
  ASSUME NEW r, Sound(r), TableInv(r), NEW p \in Peers, NEW u \in Users, NEW s \in Seats,
         NEW b, NEW g \in Gens, CanReconnect(r, p, u, s, g),
         NEW x \in Settled(Reconnect(r, p, u, s, b, g))
  PROVE  Lives(r, x)
<1> DEFINE a == Synced(r)
           c == Reclaim(a, p, u, s, g)
           q == Reconnect(r, p, u, s, b, g)
<1>1. /\ RoomOK(r) /\ RoomOK(a) /\ RoomOK(q) /\ a.status = "InGame" /\ a.resume = r.resume
      /\ a.waiting = r.waiting /\ SeatsAs(r, a)
  BY SyncedAs, ReconnectOK DEF Sound, CanReconnect
<1>2. r.slot[s].state # "FREE" /\ a.slot[s].state # "FORFEITED" /\ r.status = "InGame"
  BY DEF CanReconnect, TakesSeat, Occupied
<1>3. ~Forfeited(r, s)
  <2>1. Forfeited(r, s) => a.slot[s] = [r.slot[s] EXCEPT !.state = "FORFEITED"]
    BY <1>1, <1>2 DEF Synced, RoomOK, RoomRecord
  <2> QED BY <1>1, <1>2, <2>1, SlotTypes DEF Slot
<1> HIDE DEF a
<1>4. RoomOK(c)
  BY <1>1, ReclaimOK
<1>5. /\ c.status = a.status /\ c.resume = a.resume /\ c.waiting = a.waiting
      /\ c.slot[s].state = "CONNECTED" /\ \A t \in Seats \ {s} : c.slot[t] = a.slot[t]
  BY <1>1 DEF Reclaim, SeatedSlot, RoomOK, RoomRecord
<1>6. q \in {c, [c EXCEPT !.slot[s].role = "host", !.hostSeat = s]}
  BY DEF Reconnect, a
<1> HIDE DEF c
<1>7. /\ q.status = a.status /\ q.resume = a.resume /\ q.waiting = a.waiting
      /\ q.slot[s].state = "CONNECTED" /\ \A t \in Seats \ {s} : q.slot[t] = a.slot[t]
  <2> DEFINE h == [c EXCEPT !.slot[s].role = "host", !.hostSeat = s]
  <2>1. /\ h.status = c.status /\ h.resume = c.resume /\ h.waiting = c.waiting
        /\ h.slot[s] = [c.slot[s] EXCEPT !.role = "host"]
        /\ \A t \in Seats \ {s} : h.slot[t] = c.slot[t]
    BY <1>4 DEF RoomOK, RoomRecord
  <2>2. h.slot[s].state = c.slot[s].state
    BY <1>4, <2>1, SlotTypes DEF Slot
  <2>3. q \in {c, h}
    BY <1>6
  <2> HIDE DEF h, q
  <2> QED BY <1>5, <2>1, <2>2, <2>3
<1> HIDE DEF q
<1>8. \A t \in Seats : /\ q.slot[t].state = "FREE" <=> r.slot[t].state = "FREE"
                       /\ Forfeited(r, t) => q.slot[t].peer \in {r.slot[t].peer, NoPeer}
  BY <1>1, <1>2, <1>3, <1>7 DEF SeatsAs, SeatAs
<1>9. TableInv(q)
  <2>1. Occupied(q) = Occupied(r)
    BY <1>8 DEF Occupied
  <2> QED BY <1>1, <1>2, <1>7, <2>1 DEF TableInv, Waiting, GameOn
<1>10. Lives(r, q)
  BY <1>1, <1>2, <1>7, <1>8, <1>9 DEF Lives, Follows
<1>11. Stays(q, x)
  BY <1>1, <1>9, SettledStays DEF q
<1> QED BY <1>2, <1>10, <1>11, LivesThenStays DEF Statuses

\* A spectator who joins changes nothing at the table.
LEMMA AddSpectatorLives ==
  ASSUME NEW r, RoomOK(r), TableInv(r), NEW p \in Peers, CanSpectate(r, p), NEW u \in Users,
         NEW old, NEW x \in Shown(AddSpectator(r, p, u, old))
  PROVE  Lives(r, x)
<1> DEFINE q == AddSpectator(r, p, u, old)
<1>1. RoomOK(q)
  BY AddSpectatorOK
<1>2. q.slot = r.slot /\ q.waiting = r.waiting /\ q.resume = r.resume /\ q.status = r.status
  BY DEF AddSpectator, RoomOK, RoomRecord
<1> QED BY <1>1, <1>2, GameLives DEF CanSpectate

LobbyTable(q) == TableInv(q) /\ q.status = "Lobby"

\* Whoever takes or renews a seat of the lobby, or waits in a resume room,
\* neither waits where one may not nor watches.
LEMMA LobbyJoinTable ==
  ASSUME NEW r, RoomOK(r), LobbyTable(r), NEW p \in Peers, NEW u \in Users,
         NEW g \in Gens, NEW role \in Roles
  PROVE  /\ \A s \in Seats : LobbyTable(Reclaim(r, p, u, s, g))
         /\ \A s \in Seats : LobbyTable(AddPeerAtSeat(r, p, u, s, g))
         /\ LobbyTable(AddPeer(r, p, u, g))
         /\ r.resume => LobbyTable(AddWaiting(r, p, u, role, g))
<1>1. ASSUME NEW q, q.status = r.status, q.spectator = r.spectator, q.resume = r.resume,
             ~q.resume => q.waiting = r.waiting
      PROVE  LobbyTable(q)
  BY <1>1 DEF LobbyTable, TableInv, Waiting, Spectators, GameOn
<1>2. ASSUME NEW s \in Seats
      PROVE  LobbyTable(Reclaim(r, p, u, s, g)) /\ LobbyTable(AddPeerAtSeat(r, p, u, s, g))
  <2>1. LET q == Reclaim(r, p, u, s, g)
        IN  /\ q.status = r.status /\ q.spectator = r.spectator
            /\ q.resume = r.resume /\ q.waiting = r.waiting
    BY DEF Reclaim, RoomOK, RoomRecord
  <2>2. LET q == AddPeerAtSeat(r, p, u, s, g)
        IN  /\ q.status = r.status /\ q.spectator = r.spectator
            /\ q.resume = r.resume /\ q.waiting = r.waiting
    BY DEF AddPeerAtSeat, SeatAt, RoomOK, RoomRecord
  <2> QED BY <1>1, <2>1, <2>2
<1>3. LobbyTable(AddPeer(r, p, u, g))
  <2>1. LET q == AddPeer(r, p, u, g)
        IN  /\ q.status = r.status /\ q.spectator = r.spectator
            /\ q.resume = r.resume /\ q.waiting = r.waiting
    BY DEF AddPeer, SeatAt, RoomOK, RoomRecord
  <2> QED BY <1>1, <2>1
<1>4. ASSUME r.resume PROVE LobbyTable(AddWaiting(r, p, u, role, g))
  <2> DEFINE w == PutWaiting(r, p, u, role, g)
  <2>1. w.status = r.status /\ w.spectator = r.spectator /\ w.resume = r.resume
    BY DEF PutWaiting, RoomOK, RoomRecord
  <2>2. ASSUME NEW s
        PROVE  LET q == Assign(w, u, s)
               IN  q.status = w.status /\ q.spectator = w.spectator /\ q.resume = w.resume
    BY DEF Assign, PutWaiting, RoomOK, RoomRecord
  <2>3. AddWaiting(r, p, u, role, g) \in
          {Reclaim(r, p, u, HeldSeat(r, u), g), w, Assign(w, u, ExpectedSeat(w, u))}
    BY DEF AddWaiting
  <2>4. LET q == Reclaim(r, p, u, HeldSeat(r, u), g)
        IN  q.status = r.status /\ q.spectator = r.spectator /\ q.resume = r.resume
    BY DEF Reclaim, RoomOK, RoomRecord
  <2> HIDE DEF w
  <2> QED BY <1>1, <1>4, <2>1, <2>2, <2>3, <2>4
<1> QED BY <1>2, <1>3, <1>4

\* A room that is created has its host on a seat, or waiting in a resume room.
LEMMA CreateLives ==
  ASSUME ~Exists, NEW p \in Peers, NEW t \in Tokens, NEW n \in PlayerCounts,
         NEW x \in Settled(IF ResumeMode THEN AddWaiting(NewRoom(ResumeMode, n), p, t.user, "host", t.gen)
                                         ELSE AddPeer(NewRoom(ResumeMode, n), p, t.user, t.gen))
  PROVE  Lives(room, x)
<1> DEFINE r == NewRoom(ResumeMode, n)
           q == IF ResumeMode THEN AddWaiting(r, p, t.user, "host", t.gen)
                              ELSE AddPeer(r, p, t.user, t.gen)
<1>1. n \in 1..NumSeats /\ ResumeMode \in BOOLEAN
  BY PlayerCountsAssumption, ResumeModeAssumption
<1>2. /\ RoomOK(r) /\ r.slot = EmptyRoom.slot /\ r.waiting = EmptyRoom.waiting
      /\ r.spectator = EmptyRoom.spectator /\ r.status = "Lobby" /\ r.desired = n
      /\ r.resume = ResumeMode
  BY <1>1, NewRoomOK DEF NewRoom, EmptyRoom
<1> HIDE DEF r
<1>3. PeerIds(r) = {} /\ Occupied(r) = {} /\ Waiting(r) = {} /\ Spectators(r) = {}
  BY <1>2 DEF EmptyRoom, PeerIds, SeatPeers, WaitPeers, Spectators, Occupied, Waiting,
              FreeSlot, NoMember
<1>4. CanAddPeer(r, p) \/ ResumeMode
  <2>1. Cardinality(Occupied(r)) = 0
    BY <1>3, FS_EmptySet
  <2> QED BY <1>1, <1>2, <1>3, <2>1, NumSeatsAssumption DEF CanAddPeer, HasPeer, IsFull
<1>5. t.user \in Users /\ t.gen \in Gens /\ "host" \in Roles
  BY TokenTypes DEF Roles
<1>6. LobbyTable(r)
  BY <1>2, <1>3 DEF LobbyTable, TableInv, GameOn
<1>7. RoomOK(q) /\ LobbyTable(q)
  BY <1>2, <1>4, <1>5, <1>6, LobbyJoinTable, AddWaitingOK, AddPeerOK
<1>8. x \in Settled(q)
  BY DEF r
<1> HIDE DEF q
<1> QED BY <1>7, <1>8, LobbyLives DEF LobbyTable, Follows, Exists, GameOn, Statuses

\* What the steps of the server start from.
TableBase == TypeInv /\ Sound(room) /\ TableInv(room)

\* A hello.
LEMMA HelloLives ==
  ASSUME TableBase, NEW p \in Peers, NEW t \in Tokens, Hello(p, t)
  PROVE  Lives(room, room')
<1>0. /\ t.user \in Users /\ t.gen \in Gens /\ t.seat \in Seats \cup {NoSeat}
      /\ RoomOK(room) /\ room.status \in Statuses
      /\ room.status = "Lobby" => LobbyTable(room)
  BY TokenTypes DEF TableBase, Sound, RoomOK, RoomRecord, LobbyTable
<1>a. ASSUME NEW q, RoomOK(q), LobbyTable(q), room.status = "Lobby", room' \in Settled(q)
      PROVE  Lives(room, room')
  BY <1>0, <1>a, LobbyLives DEF LobbyTable, Follows, GameOn
<1>1. CASE \E n \in PlayerCounts : HelloCreate(p, t, n)
  BY <1>1, CreateLives DEF HelloCreate
<1>2. CASE HelloReconnect(p, t)
  <2>1. GameSeat(t) \in Seats
    BY <1>2, GameSeatType DEF HelloReconnect, TableBase
  <2> QED BY <1>0, <1>2, <2>1, ReconnectLives DEF HelloReconnect, TableBase
<1>3. CASE HelloWait(p, t)
  <2> DEFINE q == AddWaiting(room, p, t.user, t.role, t.gen)
  <2>1. t.role \in Roles /\ room.status = "Lobby" /\ room.resume /\ room' \in Settled(q)
    BY <1>3 DEF HelloWait, IsMemberToken, CanAddWaiting
  <2>2. RoomOK(q) /\ LobbyTable(q)
    BY <1>0, <1>3, <2>1, AddWaitingOK, LobbyJoinTable DEF HelloWait
  <2> HIDE DEF q
  <2> QED BY <1>a, <2>1, <2>2
<1>4. CASE HelloReclaim(p, t)
  <2> DEFINE q == Reclaim(room, p, t.user, t.seat, t.gen)
  <2>1. t.seat \in Seats /\ room.status = "Lobby" /\ room' \in Settled(q)
    BY <1>0, <1>4 DEF HelloReclaim, CanReclaim
  <2>2. RoomOK(q) /\ LobbyTable(q)
    BY <1>0, <2>1, ReclaimOK, LobbyJoinTable DEF Roles
  <2> HIDE DEF q
  <2> QED BY <1>a, <2>1, <2>2
<1>5. CASE HelloSeat(p, t)
  <2> DEFINE q == AddPeerAtSeat(room, p, t.user, t.seat, t.gen)
  <2>1. t.seat \in Seats /\ room.status = "Lobby" /\ room' \in Settled(q)
    BY <1>0, <1>5 DEF HelloSeat, CanAddPeerAtSeat, CanAddPeer
  <2>2. RoomOK(q) /\ LobbyTable(q)
    BY <1>0, <2>1, AddPeerAtSeatOK, LobbyJoinTable DEF Roles
  <2> HIDE DEF q
  <2> QED BY <1>a, <2>1, <2>2
<1>6. CASE HelloSpectate(p, t)
  BY <1>0, <1>6, AddSpectatorLives DEF HelloSpectate, TableBase
<1>7. CASE HelloRejected(p, t)
  BY <1>0, <1>7, SettledStays, StaysLives DEF HelloRejected, TableBase
<1> QED
  BY <1>1, <1>2, <1>3, <1>4, <1>5, <1>6, <1>7 DEF Hello

\* JoinRoom.
LEMMA JoinRoomLives ==
  ASSUME TableBase, NEW p \in Peers, JoinRoom(p)
  PROVE  Lives(room, room')
<1>1. /\ profile[p] \in Users /\ NoGen \in Gens /\ RoomOK(room) /\ TableInv(room)
      /\ room.status \in Statuses
  BY DEF JoinRoom, TableBase, TypeInv, TypeOK, Gens, Sound, RoomOK, RoomRecord
<1>2. CASE CanAddPeer(room, p) /\ room' \in Settled(AddPeer(room, p, profile[p], NoGen))
  <2> DEFINE q == AddPeer(room, p, profile[p], NoGen)
  <2>1. RoomOK(q) /\ LobbyTable(q) /\ room.status = "Lobby"
    BY <1>1, <1>2, AddPeerOK, LobbyJoinTable DEF CanAddPeer, LobbyTable, Roles
  <2> HIDE DEF q
  <2> QED BY <1>1, <1>2, <2>1, LobbyLives DEF LobbyTable, Follows, GameOn, q
<1>3. CASE CanSpectate(room, p) /\ \E old \in ReplacedSpectators(profile[p]) :
             room' \in Shown(AddSpectator(room, p, profile[p], old))
  BY <1>1, <1>3, AddSpectatorLives
<1> QED BY <1>2, <1>3 DEF JoinRoom

\* Starting takes a room whose seats are taken and where nobody waits;
\* aborting takes it back to the lobby.
LEMMA StartLives ==
  ASSUME NEW r, RoomOK(r), TableInv(r), NEW x
  PROVE  /\ CanStart(r) /\ x \in Shown(BeginStart(r)) => Lives(r, x)
         /\ r.status = "Starting" /\ x \in Rebuilt(AbortStart(r)) => Lives(r, x)
<1>0. r.status \in Statuses
  BY DEF RoomOK, RoomRecord
<1>1. ASSUME CanStart(r), x \in Shown(BeginStart(r)) PROVE Lives(r, x)
  <2> DEFINE b == BeginStart(r)
  <2>1. /\ RoomOK(b) /\ b.slot = r.slot /\ b.status = "Starting" /\ b.resume = r.resume
        /\ b.waiting = r.waiting /\ b.spectator = r.spectator
    BY <1>1, BeginStartLive DEF CanStart, Live, BeginStart, RoomOK, RoomRecord
  <2>2. Occupied(r) # {}
    <3>1. 0 \in 0..r.desired-1
      BY <1>1 DEF CanStart, RoomOK, RoomRecord
    <3> QED BY <1>1, <3>1 DEF CanStart
  <2>3. TableInv(b)
    BY <1>1, <2>1, <2>2 DEF TableInv, CanStart, Waiting, Spectators, Occupied
  <2> HIDE DEF b
  <2> QED BY <1>0, <1>1, <2>1, <2>3, LobbyLives DEF CanStart, Follows, GameOn, b
<1>2. ASSUME r.status = "Starting", x \in Rebuilt(AbortStart(r)) PROVE Lives(r, x)
  <2> DEFINE a == AbortStart(r)
  <2>1. /\ RoomOK(a) /\ a.slot = r.slot /\ a.status = "Lobby" /\ a.resume = r.resume
        /\ a.waiting = r.waiting /\ a.spectator = r.spectator
    BY <1>2, AbortStartLive DEF Live, AbortStart, RoomOK, RoomRecord
  <2>2. TableInv(a)
    BY <1>2, <2>1 DEF TableInv, Waiting, Spectators, GameOn
  <2>3. x \in Settled(a)
    BY <1>2, <2>1 DEF Settled, Synced
  <2> HIDE DEF a
  <2> QED BY <1>0, <1>2, <2>1, <2>2, <2>3, LobbyLives DEF Follows, GameOn
<1> QED BY <1>1, <1>2

\* The last target that is ready commits the start with a seat taken.
LEMMA ReadyLives ==
  ASSUME NEW r, Sound(r), TableInv(r), r.status = "Starting", NEW p \in Peers, NEW q,
         q = [r EXCEPT !.ready = @ \cup {p}], NEW x \in Settled(CommitStart(q)) \cup {q}
  PROVE  Lives(r, x)
<1>1. RoomOK(r) /\ Live(r) /\ r.status \in Statuses /\ r.ready \cup {p} \in SUBSET Peers
  BY DEF Sound, Live, RoomOK, RoomRecord
<1>2. /\ Live(q) /\ RoomOK(q) /\ q.slot = r.slot /\ q.status = r.status /\ q.resume = r.resume
      /\ q.waiting = r.waiting /\ q.spectator = r.spectator
  BY <1>1, ReadyLive DEF Live, RoomOK, RoomRecord
<1>3. TableInv(q)
  BY <1>2 DEF TableInv, Waiting, Spectators, Occupied
<1> DEFINE c == CommitStart(q)
<1>a. RoomOK(c)
  BY <1>2, CommitStartLive DEF Live
<1>4. /\ c.status = "InGame"
      /\ \A u \in Users : c.waiting[u] = NoMember
      /\ \A s \in Seats : c.slot[s] = IF q.slot[s].state = "FREE" THEN q.slot[s]
                            ELSE [q.slot[s] EXCEPT !.state =
                                    IF q.slot[s].peer # NoPeer THEN "CONNECTED" ELSE "RECONNECTING"]
  BY <1>2 DEF CommitStart, RoomOK, RoomRecord
<1>5. x \in Settled(c) \cup {q}
  OBVIOUS
<1> HIDE DEF c
<1>6. ASSUME NEW s \in Seats PROVE c.slot[s].state = "FREE" <=> q.slot[s].state = "FREE"
  <2>1. q.slot[s] \in Slot
    BY <1>2, SlotTypes
  <2> QED BY <1>4, <2>1 DEF Slot
<1>7. Occupied(c) = Occupied(r) /\ Waiting(c) = {}
  BY <1>2, <1>4, <1>6 DEF Occupied, Waiting, NoMember
<1>8. TableInv(c)
  BY <1>4, <1>7 DEF TableInv
<1>9. x \in Settled(c) => Lives(r, x)
  BY <1>1, <1>4, <1>8, <1>a, LobbyLives DEF Follows, GameOn
<1>10. x = q => Lives(r, x)
  BY <1>1, <1>2, <1>3, LobbyLives DEF Follows, GameOn
<1> QED BY <1>5, <1>9, <1>10

\* A cancelled start is a lobby again.
LEMMA CancelledLives ==
  ASSUME TableBase, NEW r \in Cancelled
  PROVE  Lives(room, r) /\ Sound(r) /\ TableInv(r)
<1>1. RoomOK(room) /\ room.status \in Statuses /\ Sound(r)
  BY CancelledLoses DEF TableBase, Sound, LosesTo, RoomOK, RoomRecord
<1>2. CASE room.status = "Starting"
  BY <1>1, <1>2, StartLives DEF TableBase, Cancelled, Lives
<1>3. CASE room.status # "Starting"
  <2>1. r = room
    BY <1>3 DEF Cancelled
  <2>2. Stays(room, r)
    BY <1>1, <2>1, SettledStays DEF TableBase
  <2> QED BY <1>1, <2>1, <2>2, StaysLives DEF TableBase
<1> QED BY <1>1, <1>2, <1>3

\* A request of a member, or of one who joins.
LEMMA RequestLives ==
  ASSUME TableBase, NEW p \in Peers, Request(p)
  PROVE  Lives(room, room')
<1>0. RoomOK(room) /\ Sound(room) /\ TableInv(room) /\ room.status \in Statuses
  BY DEF TableBase, Sound, RoomOK, RoomRecord
<1>1. CASE JoinRoom(p)
  BY <1>1, JoinRoomLives
<1>2. CASE \E n \in PlayerCounts : UpdateRoomConfig(p, n)
  <2> PICK n \in PlayerCounts : UpdateRoomConfig(p, n)
    BY <1>2
  <2> DEFINE q == [room EXCEPT !.desired = n]
  <2>1. n \in 1..NumSeats /\ n \in Nat
    BY PlayerCountsAssumption, NumSeatsAssumption
  <2>2. /\ RoomOK(q) /\ q.slot = room.slot /\ q.status = room.status /\ q.resume = room.resume
        /\ q.forfeits = room.forfeits /\ q.waiting = room.waiting /\ q.spectator = room.spectator
    BY <1>0, <2>1 DEF RoomOK, RoomRecord
  <2>3. room' \in Shown(q)
    BY DEF UpdateRoomConfig
  <2> HIDE DEF q
  <2>4. Thins(room, q) /\ SeatsAs(room, q)
    BY <2>2 DEF Thins, SeatsAs, SeatAs, Waiting, Spectators
  <2>5. Stays(room, q) /\ Stays(q, room')
    BY <1>0, <2>2, <2>3, <2>4, SameThins, SettledStays DEF Stays
  <2> QED BY <1>0, <2>5, StaysThenStays, StaysLives
<1>3. CASE AssignRoomSeat(p)
  <2>1. ASSUME NEW q, Sound(q), q.status = "Lobby", q.resume, q.spectator = room.spectator,
               room.status = "Lobby", room' \in Settled(q)
        PROVE  Lives(room, room')
    <3>1. TableInv(q) /\ RoomOK(q)
      BY <1>0, <2>1 DEF TableInv, Spectators, GameOn, Sound
    <3> QED BY <1>0, <2>1, <3>1, LobbyLives DEF Follows, GameOn
  <2>2. ASSUME NEW s \in Seats, NEW u \in Users, CanAssign(room, u, s), room' \in Settled(Assign(room, u, s))
        PROVE  Lives(room, room')
    <3>1. Assign(room, u, s).spectator = room.spectator
      BY <1>0 DEF Assign, RoomOK, RoomRecord
    <3> QED BY <1>0, <2>1, <2>2, <3>1, AssignMoves, ResumeStays DEF MovesTo, CanAssign
  <2>3. ASSUME NEW s \in Seats, CanUnassign(room, s), room' \in Settled(Unassign(room, s))
        PROVE  Lives(room, room')
    <3>1. Unassign(room, s).spectator = room.spectator
      BY <1>0 DEF Unassign, RoomOK, RoomRecord
    <3> QED BY <1>0, <2>1, <2>3, <3>1, UnassignMoves, ResumeStays DEF MovesTo, CanUnassign
  <2> QED BY <1>3, <2>2, <2>3 DEF AssignRoomSeat
<1>4. CASE StartGame(p)
  BY <1>0, <1>4, StartLives DEF StartGame
<1>5. CASE BootstrapReady(p)
  <2> DEFINE r == [room EXCEPT !.ready = @ \cup {p}]
  <2>1. room.status = "Starting" /\ room' \in Settled(CommitStart(r)) \cup {r}
    BY <1>5 DEF BootstrapReady
  <2> QED BY <1>0, <2>1, ReadyLives
<1>6. CASE BootstrapFailed(p)
  BY <1>0, <1>6, StartLives DEF BootstrapFailed
<1>7. CASE LeaveRoom(p)
  <2>1. CASE Exists
    <3> PICK r \in Cancelled : room' \in Left(r, p)
      BY <1>7, <2>1 DEF LeaveRoom
    <3>1. Lives(room, r) /\ Stays(r, room')
      BY CancelledLives, LeftStays
    <3> QED BY <1>0, <3>1, LivesThenStays
  <2>2. CASE ~Exists
    BY <1>0, <1>7, <2>2, SettledStays, StaysLives DEF LeaveRoom
  <2> QED BY <2>1, <2>2
<1>8. CASE ForfeitAndLeave(p)
  <2> DEFINE a == ActorOf(room, p)
  <2>1. CASE room.status = "InGame" /\ a # NoSeat /\ ~Forfeited(room, a)
    <3>1. a \in Seats
      BY <1>0, <2>1, ActorType
    <3> PICK r \in MayEnd(Forfeit(room, a)) : room' \in Left(r, p)
      BY <1>8, <2>1 DEF ForfeitAndLeave
    <3> HIDE DEF a
    <3>2. Lives(room, r) /\ Sound(r)
      BY <1>0, <2>1, <3>1, ForfeitLives, ForfeitLoses DEF LosesTo
    <3>3. Stays(r, room')
      BY <3>2, LeftStays DEF Lives
    <3> QED BY <1>0, <3>2, <3>3, LivesThenStays
  <2>2. CASE ~(room.status = "InGame" /\ a # NoSeat /\ ~Forfeited(room, a))
    BY <1>0, <1>8, <2>2, LeftStays, StaysLives DEF ForfeitAndLeave
  <2> QED BY <2>1, <2>2
<1>9. CASE ActionRequest(p)
  <2>1. ActorOf(room, p) \in Seats /\ room.status = "InGame"
    BY <1>0, <1>9, ActorType DEF ActionRequest
  <2>2. room' \in MayEnd(Forfeit(room, ActorOf(room, p))) \cup MayEnd(room)
    BY <1>9 DEF ActionRequest, MayEnd
  <2> QED BY <1>0, <2>1, <2>2, ForfeitLives
<1>10. CASE Rollback(p)
  <2> PICK i \in 0..Len(room.forfeits)-1 :
         room' \in Shown([room EXCEPT !.forfeits = SubSeq(@, 1, i)])
    BY <1>10 DEF Rollback
  <2> DEFINE q == [room EXCEPT !.forfeits = SubSeq(@, 1, i)]
  <2>1. room.forfeits \in Seq(Seats) /\ Live(room) /\ room.status = "InGame"
    BY <1>0, <1>10 DEF Rollback, Live, RoomOK, RoomRecord
  <2>2. SubSeq(room.forfeits, 1, i) \in Seq(Seats)
    BY <2>1
  <2>3. RoomOK(q)
    BY <2>1, <2>2, ForfeitsLive DEF Live
  <2>4. q.slot = room.slot /\ q.waiting = room.waiting /\ q.status = "InGame" /\ q.resume = room.resume
    BY <1>0, <2>1 DEF RoomOK, RoomRecord
  <2>5. room' \in Shown(q)
    OBVIOUS
  <2> HIDE DEF q
  <2> QED BY <1>0, <2>1, <2>3, <2>4, <2>5, GameLives
<1> QED
  BY <1>1, <1>2, <1>3, <1>4, <1>5, <1>6, <1>7, <1>8, <1>9, <1>10 DEF Request

\* A lost connection.
LEMMA DisconnectedLives ==
  ASSUME TableBase, NEW p \in Peers, PeerDisconnected(p)
  PROVE  Lives(room, room')
<1>0. RoomOK(room) /\ TableInv(room) /\ room.status \in Statuses
  BY DEF TableBase, Sound, RoomOK, RoomRecord
<1>1. CASE InRoom(p)
  <2> PICK r \in Cancelled : room' \in IF r.status \in {"Lobby", "InGame"} THEN Dropped(r, p) ELSE Left(r, p)
    BY <1>1 DEF PeerDisconnected
  <2>1. Lives(room, r) /\ Stays(r, room')
    BY CancelledLives, LeftStays
  <2> QED BY <1>0, <2>1, LivesThenStays
<1>2. CASE ~InRoom(p)
  BY <1>0, <1>2, SettledStays, StaysLives DEF PeerDisconnected
<1> QED BY <1>1, <1>2

\* A grace timer.
LEMMA TimerLives ==
  ASSUME TableBase, TimerFires
  PROVE  Lives(room, room')
<1> DEFINE k == Head(timers).key
<1>0. /\ timers \in Seq(Timer) /\ timers # << >>
      /\ RoomOK(room) /\ TableInv(room) /\ room.status \in Statuses
  BY DEF TimerFires, TableBase, TypeInv, TypeOK, Sound, RoomOK, RoomRecord
<1>1. k \in Keys
  <2>1. Head(timers) \in Timer
    BY <1>0
  <2> QED BY <2>1 DEF Timer
<1>2. /\ k[1] = "waiting" => k[2] \in Users
      /\ k[1] \in {"seat", "actor"} => k[2] \in Seats
  BY <1>1 DEF Keys
<1>3. (room.status = "Lobby" /\ LobbyTimeout(k)) \/ GameTimeout(k) \/ UNCHANGED room
  BY DEF TimerFires
<1> HIDE DEF k
<1>4. UNCHANGED room => Lives(room, room')
  BY <1>0, SettledStays, StaysLives
<1>5. ASSUME room.status = "Lobby", LobbyTimeout(k) PROVE Lives(room, room')
  <2>1. ASSUME NEW q, RoomOK(q), Thins(room, q), room' \in {EmptyRoom} \cup Settled(q)
        PROVE  Lives(room, room')
    <3>1. Stays(room, q)
      BY <1>0, <1>5, <2>1, ThinsStays
    <3>2. room' \in Settled(q) => Stays(room, room')
      BY <2>1, <3>1, SettledStays, StaysThenStays DEF Stays
    <3>3. room' = EmptyRoom => Stays(room, room')
      BY <1>5, EmptiedStays DEF GameOn
    <3> QED BY <1>0, <2>1, <3>2, <3>3, StaysLives
  <2>2. CASE k[1] = "waiting" /\ WaitingReleasable(room, k[2])
    BY <1>0, <1>2, <1>5, <2>1, <2>2, FreedThins, DropWaitingOK DEF LobbyTimeout, OrRemoved
  <2>3. CASE k[1] = "seat" /\ SeatReleasable(room, k[2])
    BY <1>0, <1>2, <1>5, <2>1, <2>3, FreedThins, FreeSeatOK DEF LobbyTimeout, OrRemoved, GameOn
  <2> QED BY <1>4, <1>5, <2>2, <2>3 DEF LobbyTimeout
<1>6. ASSUME GameTimeout(k) PROVE Lives(room, room')
  <2>1. CASE k[1] = "actor" /\ room.status = "InGame" /\ ~Forfeited(room, k[2])
    BY <1>0, <1>2, <1>6, <2>1, ForfeitLives DEF GameTimeout
  <2> QED BY <1>4, <1>6, <2>1 DEF GameTimeout
<1> QED BY <1>3, <1>4, <1>5, <1>6

\* Every step keeps the table of the game, unless the backend ends the room.
LEMMA StepLives ==
  ASSUME TableBase, [Next]_vars
  PROVE  Lives(room, room') \/ (room' = EmptyRoom /\ members' = {})
<1>0. RoomOK(room) /\ TableInv(room) /\ room.status \in Statuses
  BY DEF TableBase, Sound, RoomOK, RoomRecord
<1>1. ASSUME NEW p \in Peers, NEW t \in Tokens, Hello(p, t)
      PROVE  Lives(room, room')
  BY <1>1, HelloLives
<1>2. ASSUME NEW p \in Peers, Request(p) \/ PeerDisconnected(p)
      PROVE  Lives(room, room')
  BY <1>2, RequestLives, DisconnectedLives
<1>3. CASE TimerFires
  BY <1>3, TimerLives
<1>4. CASE RoomListed
  BY <1>0, <1>4, SettledStays, StaysLives DEF RoomListed
<1>5. CASE RemoteEnded
  BY <1>5 DEF RemoteEnded
<1>6. CASE UNCHANGED vars
  BY <1>0, <1>6, SettledStays, StaysLives DEF vars
<1> QED BY <1>1, <1>2, <1>3, <1>4, <1>5, <1>6 DEF Next

-----------------------------------------------------------------------------
(* The theorems about games *)

\* TableBase holds in every reachable state.
LEMMA TableInvariant == Spec => []TableBase
<1>1. Init => TableBase
  <2> SUFFICES ASSUME Init PROVE TableBase
    OBVIOUS
  <2>1. TypeInv /\ room = EmptyRoom
    BY EmptyRoomOK DEF Init, TypeInv, TypeOK, RoomOK
  <2>2. SeatInv(room)
    BY <2>1 DEF SeatInv, SlotFits, EmptyRoom, FreeSlot, NoMember
  <2> QED BY <2>1, <2>2, EmptyTable DEF TableBase, TypeInv, Sound
<1>2. TableBase /\ [Next]_vars => TableBase'
  <2> SUFFICES ASSUME TableBase, [Next]_vars PROVE TableBase'
    OBVIOUS
  <2>1. TypeInv' /\ Sound(room')
    BY TypeInvStep, StepMoves DEF TableBase, MovesTo
  <2>2. TableInv(room')
    BY EmptyTable, StepLives DEF Lives
  <2> QED BY <2>1, <2>2 DEF TableBase
<1> QED BY <1>1, <1>2, PTL DEF Spec

\* A game, running or over, always has a seat that is taken (room.gd is_empty,
\* remove_peer; server.gd): whoever leaves while it is being started, with or
\* without aborting the start, and whoever leaves it later.
THEOREM GamesStaySeated == Spec => []GameSeated
<1>1. TableBase => GameSeated
  BY DEF TableBase, TableInv, GameSeated
<1> QED BY <1>1, TableInvariant, PTL

\* No connection comes to the seat of a player whose forfeit is in the history
\* of the game (room.gd reconnect_player, _sync_seat_states_from_engine),
\* whether or not the seat has been marked, and whatever was rolled back.
THEOREM ForfeitsHold == Spec => ForfeitHolds
<1> DEFINE A == \A s \in Seats : Forfeited(room, s) =>
                  room'.slot[s].peer \in {room.slot[s].peer, NoPeer}
<1>1. TableBase /\ [Next]_vars => [A]_vars
  <2> SUFFICES ASSUME TableBase, [Next]_vars, NEW s \in Seats, Forfeited(room, s)
               PROVE  room'.slot[s].peer \in {room.slot[s].peer, NoPeer}
    OBVIOUS
  <2>1. GameOn(room)
    <3>1. room.status \notin {"Lobby", "Starting", "None"}
      BY DEF TableBase, Sound, SeatInv, TableInv, Forfeited
    <3> QED BY <3>1 DEF TableBase, Sound, RoomOK, RoomRecord, Statuses, GameOn
  <2>2. room' = EmptyRoom => room'.slot[s].peer = NoPeer
    BY DEF EmptyRoom, FreeSlot
  <2> QED BY <2>1, <2>2, StepLives DEF Lives
<1> QED BY <1>1, TableInvariant, PTL DEF Spec, ForfeitHolds

\* A step never gives up or gives away a seat of a game: as long as the room is
\* there the game is on and the same seats are taken, and only the report of
\* the backend that the room has ended removes it, with all its members.
THEOREM GamesKeepTheirSeats ==
  Spec => [][GameOn(room) =>
               \/ GameOn(room') /\ Occupied(room') = Occupied(room)
               \/ room' = EmptyRoom /\ members' = {}]_vars
<1> DEFINE A == GameOn(room) => \/ GameOn(room') /\ Occupied(room') = Occupied(room)
                                \/ room' = EmptyRoom /\ members' = {}
<1>1. TableBase /\ [Next]_vars => [A]_vars
  <2> SUFFICES ASSUME TableBase, [Next]_vars, GameOn(room), Lives(room, room')
               PROVE  GameOn(room') /\ Occupied(room') = Occupied(room)
    BY StepLives
  <2>1. GameOn(room')
    BY DEF Lives, Follows, GameOn
  <2> QED BY <2>1 DEF Lives, Occupied
<1> QED BY <1>1, TableInvariant, PTL DEF Spec

\* Every step is one of the life of the room, or none.
LEMMA LifeStep == TableBase /\ [Next]_vars => [Life!Next]_([c \in {0} |-> LifeStatus[room.status]])
<1> SUFFICES ASSUME TableBase, [Next]_vars PROVE Life!Next
  OBVIOUS
<1> DEFINE st == [c \in {0} |-> LifeStatus[room.status]]
<1>1. room.status \in Statuses /\ room'.status \in Statuses
  BY TypeInvStep DEF TableBase, TypeInv, Sound, RoomOK, RoomRecord
<1>2. /\ LifeStatus["None"] = "none" /\ LifeStatus["Lobby"] = "Lobby"
      /\ LifeStatus["Starting"] = "Lobby" /\ LifeStatus["InGame"] = "InGame"
      /\ LifeStatus["Ended"] = "Ended"
  BY DEF LifeStatus
<1>3. st' = [c \in {0} |-> LifeStatus[room'.status]]
  BY DEF LifeStatus
<1>4. Follows(room.status, room'.status) \/ room'.status = "None"
  BY StepLives DEF Lives, EmptyRoom
<1>5. \/ LifeStatus[room'.status] = LifeStatus[room.status]
      \/ <<LifeStatus[room.status], LifeStatus[room'.status]>> \in Life!Moves
  BY <1>1, <1>2, <1>4 DEF Follows, Statuses, Life!Moves
<1>6. st' \in [{0} -> {"none", "Lobby", "InGame", "Ended"}]
  BY <1>1, <1>2, <1>3 DEF Statuses
<1>7. \A c \in {0} : st'[c] = st[c] \/ <<st[c], st'[c]>> \in Life!Moves
  BY <1>3, <1>5
<1> QED BY <1>6, <1>7 DEF Life!Next

\* The room under a code lives as the jobs of the server take rooms to live,
\* for which a room that is being started is a lobby (room_manager.gd,
\* dedicated_server.gd): a game never goes back to the lobby, and one that has
\* ended is not resumed.
THEOREM RoomLives == Spec => ImplementsLife
<1>1. Init => Life!Init
  BY DEF Init, EmptyRoom, LifeStatus, Life!Init
<1> QED BY <1>1, LifeStep, TableInvariant, PTL DEF Spec, ImplementsLife, Life!Spec

=============================================================================
