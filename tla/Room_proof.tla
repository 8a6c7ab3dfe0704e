----------------------------- MODULE Room_proof -----------------------------
(***************************************************************************)
(* Lemmas about the operators of Room: every operation keeps a room well   *)
(* formed, keeps each connection at one place, brings in at most the one   *)
(* that joins, and takes out the one that leaves.                          *)
(***************************************************************************)
EXTENDS Room, FiniteSetTheorems, WellFoundedInduction, TLAPS

\* A well-formed room; one that exists has a player count within the table.
RoomOK(r) == r \in RoomRecord /\ (r.status # "None" => r.desired \in 1..NumSeats)

\* Seats and users are numbers, and the markers for none are not among them.
LEMMA SeatsFacts ==
  /\ Seats \subseteq Nat /\ NoSeat \notin Seats /\ IsFiniteSet(Seats)
  /\ Users \subseteq Nat /\ NoUser \notin Users
BY NumSeatsAssumption, UsersAssumption, FS_Interval DEF Seats, NoSeat, NoUser

\* A nonempty set of seats, or of users, has a lowest element.
LEMMA LowestSeatIsLeast ==
  ASSUME NEW S \in SUBSET Nat, S # {}
  PROVE  LowestSeat(S) \in S /\ \A t \in S : LowestSeat(S) <= t
<1> DEFINE R == {x \in Nat \X Nat : x[1] < x[2]}
<1>1. IsWellFoundedOn(R, Nat)
  <2>1. R = OpToRel(<, Nat)
    BY DEF OpToRel
  <2> QED BY <2>1, NatLessThanWellFounded
<1>2. PICK s \in S : \A t \in S : ~(<<t, s>> \in R)
  BY <1>1, WFMin
<1>3. \A t \in S : s <= t
  <2> TAKE t \in S
  <2>1. s \in Nat /\ t \in Nat
    OBVIOUS
  <2>2. t < s => <<t, s>> \in R
    BY <2>1
  <2> QED BY <1>2, <2>1, <2>2
<1> HIDE DEF R
<1> QED BY <1>3 DEF LowestSeat

-----------------------------------------------------------------------------
(* Creation and derived views *)

\* The record that stands for no room is well formed.
LEMMA EmptyRoomOK == RoomOK(EmptyRoom)
BY DEF RoomOK, EmptyRoom, RoomRecord, Statuses, FreeSlot, Slot, SeatStates, Roles,
       NoMember, Member

\* A new room is well formed.
LEMMA NewRoomOK ==
  ASSUME NEW b \in BOOLEAN, NEW n \in 1..NumSeats
  PROVE  RoomOK(NewRoom(b, n))
<1>1. n \in Nat
  BY NumSeatsAssumption
<1>2. NewRoom(b, n) \in RoomRecord
  BY EmptyRoomOK, <1>1 DEF RoomOK, NewRoom, RoomRecord, Statuses
<1>3. NewRoom(b, n).desired = n
  BY EmptyRoomOK DEF RoomOK, NewRoom, RoomRecord
<1> QED BY <1>2, <1>3 DEF RoomOK

\* Replacing the seats by seats keeps a room well formed.
LEMMA SlotsOK ==
  ASSUME NEW r, RoomOK(r), NEW f \in [Seats -> Slot]
  PROVE  RoomOK([r EXCEPT !.slot = f])
BY DEF RoomOK, RoomRecord

\* The seats and members of a well-formed room are slot and member records.
LEMMA SlotTypes ==
  ASSUME NEW r, RoomOK(r)
  PROVE  /\ \A s \in Seats : r.slot[s] \in Slot
         /\ \A u \in Users : r.waiting[u] \in Member
BY DEF RoomOK, RoomRecord

\* _sync_seat_states_from_engine keeps a room well formed.
LEMMA SyncedOK ==
  ASSUME NEW r, RoomOK(r)
  PROVE  RoomOK(Synced(r))
<1> DEFINE f == [s \in Seats |->
          IF r.slot[s].state # "FREE" /\ Forfeited(r, s)
            THEN [r.slot[s] EXCEPT !.state = "FORFEITED"] ELSE r.slot[s]]
<1>1. r.slot \in [Seats -> Slot]
  BY DEF RoomOK, RoomRecord
<1>2. f \in [Seats -> Slot]
  BY <1>1 DEF Slot, SeatStates
<1>3. Synced(r) \in {r, [r EXCEPT !.slot = f]}
  BY DEF Synced
<1> HIDE DEF f
<1> QED BY <1>2, <1>3, SlotsOK

\* Syncing touches only the state of a seat.
LEMMA SyncedSlot ==
  ASSUME NEW r, RoomOK(r), NEW s \in Seats
  PROVE  /\ Synced(r).slot[s].peer = r.slot[s].peer
         /\ Synced(r).slot[s] \in {r.slot[s], [r.slot[s] EXCEPT !.state = "FORFEITED"]}
<1> DEFINE f == [x \in Seats |->
          IF r.slot[x].state # "FREE" /\ Forfeited(r, x)
            THEN [r.slot[x] EXCEPT !.state = "FORFEITED"] ELSE r.slot[x]]
<1>1. Synced(r) \in {r, [r EXCEPT !.slot = f]}
  BY DEF Synced
<1>2. f[s] \in {r.slot[s], [r.slot[s] EXCEPT !.state = "FORFEITED"]}
  OBVIOUS
<1> HIDE DEF f
<1>3. Synced(r).slot \in {r.slot, f}
  BY <1>1 DEF RoomOK, RoomRecord
<1>4. Synced(r).slot[s] \in {r.slot[s], [r.slot[s] EXCEPT !.state = "FORFEITED"]}
  BY <1>2, <1>3
<1>5. r.slot[s] \in Slot
  BY SlotTypes
<1> QED BY <1>4, <1>5 DEF Slot

\* _rebuild_runtime_views keeps a room well formed.
LEMMA RebuiltOK ==
  ASSUME NEW r, RoomOK(r), NEW q \in Rebuilt(r)
  PROVE  RoomOK(q)
<1>1. HostChoices(r) \subseteq Peers \cup {NoPeer}
  BY DEF HostChoices, RoomOK, RoomRecord, Slot, Member
<1>2. MappedPeers(r) \in SUBSET Peers
  BY DEF MappedPeers
<1>3. PICK h \in HostChoices(r) : q = [r EXCEPT !.hostPeer = h, !.mapped = MappedPeers(r)]
  BY DEF Rebuilt
<1>4. h \in Peers \cup {NoPeer}
  BY <1>1
<1> QED BY <1>2, <1>3, <1>4 DEF RoomOK, RoomRecord

\* Building a room state keeps a room well formed.
LEMMA ShownOK ==
  ASSUME NEW r, RoomOK(r), NEW q \in Shown(r)
  PROVE  RoomOK(q)
BY SyncedOK, RebuiltOK DEF Shown

\* The tail of a handler that changes the members keeps a room well formed.
LEMMA SettledOK ==
  ASSUME NEW r, RoomOK(r), NEW q \in Settled(r)
  PROVE  RoomOK(q)
BY SyncedOK, RebuiltOK DEF Settled

-----------------------------------------------------------------------------
(* Joining *)

Gens == Nat \cup {NoGen}

\* Generations computed from tokens, with or without one, are natural numbers.
LEMMA GenerationType ==
  ASSUME NEW g \in Gens, NEW n \in Nat
  PROVE  InitialGeneration(g) \in Nat /\ NextGeneration(n, g) \in Nat /\ AtLeastOne(n) \in Nat
BY DEF Gens, NoGen, InitialGeneration, NextGeneration, AtLeastOne

\* A seat record made for a joining player is well formed.
LEMMA SeatAtOK ==
  ASSUME NEW r, RoomOK(r), NEW p \in Peers, NEW u \in Users, NEW s \in Seats,
         NEW role \in Roles, NEW g \in Nat
  PROVE  RoomOK(SeatAt(r, p, u, s, role, g))
BY DEF RoomOK, SeatAt, SeatedSlot, RoomRecord, Slot, SeatStates

\* A lobby that is not full has a free seat below its player count.
LEMMA PickSeatType ==
  ASSUME NEW r, RoomOK(r), NEW p, CanAddPeer(r, p)
  PROVE  PickSeat(r) \in Seats /\ PickSeat(r) \notin Occupied(r)
<1> DEFINE Free == {s \in Seats : s < r.desired /\ s \notin Occupied(r)}
<1>1. r.desired \in 1..NumSeats
  BY DEF CanAddPeer, RoomOK
<1>2. IsFiniteSet(Occupied(r)) /\ Cardinality(Occupied(r)) \in Nat
  BY SeatsFacts, FS_Subset, FS_CardinalityType DEF Occupied
<1>3. Cardinality(Occupied(r)) < r.desired
  <2>1. Cardinality(Waiting(r)) \in Nat
    BY UsersAssumption, FS_Subset, FS_CardinalityType DEF Waiting
  <2>2. r.resume \in BOOLEAN
    BY DEF RoomOK, RoomRecord
  <2> QED
    BY <1>1, <1>2, <2>1, <2>2 DEF CanAddPeer, IsFull
<1>4. Free # {}
  <2> SUFFICES ASSUME Free = {} PROVE FALSE
    OBVIOUS
  <2>1. 0..r.desired-1 \subseteq Occupied(r)
    BY <1>1, NumSeatsAssumption DEF Seats
  <2>2. Cardinality(0..r.desired-1) = r.desired
    BY <1>1, NumSeatsAssumption, FS_Interval
  <2>3. Cardinality(0..r.desired-1) <= Cardinality(Occupied(r))
    BY <2>1, <1>2, FS_Subset
  <2> QED BY <1>1, <1>2, <1>3, <2>2, <2>3
<1>5. Free \in SUBSET Nat
  BY SeatsFacts
<1> QED BY <1>4, <1>5, LowestSeatIsLeast DEF PickSeat

\* add_peer keeps a room well formed.
LEMMA AddPeerOK ==
  ASSUME NEW r, RoomOK(r), NEW p \in Peers, NEW u \in Users, NEW g \in Gens,
         CanAddPeer(r, p)
  PROVE  RoomOK(AddPeer(r, p, u, g))
BY SeatAtOK, PickSeatType, GenerationType DEF AddPeer, Roles

\* add_peer_at_seat keeps a room well formed.
LEMMA AddPeerAtSeatOK ==
  ASSUME NEW r, RoomOK(r), NEW p \in Peers, NEW u \in Users, NEW s \in Seats,
         NEW g \in Gens
  PROVE  RoomOK(AddPeerAtSeat(r, p, u, s, g))
BY SeatAtOK, GenerationType DEF AddPeerAtSeat, Roles

\* reclaim_peer_at_seat keeps a room well formed.
LEMMA ReclaimOK ==
  ASSUME NEW r, RoomOK(r), NEW p \in Peers, NEW u \in Users, NEW s \in Seats,
         NEW g \in Gens
  PROVE  RoomOK(Reclaim(r, p, u, s, g))
<1> DEFINE t == SeatedSlot(r.slot[s].role, u, p, NextGeneration(r.slot[s].gen, g))
<1>1. NextGeneration(r.slot[s].gen, g) \in Nat
  BY GenerationType DEF RoomOK, RoomRecord, Slot
<1>2. t \in Slot
  BY <1>1 DEF SeatedSlot, RoomOK, RoomRecord, Slot, SeatStates
<1>3. RoomOK([r EXCEPT !.slot[s] = t])
  BY <1>2 DEF RoomOK, RoomRecord
<1> QED BY <1>3 DEF Reclaim

\* reconnect_player keeps a room well formed.
LEMMA ReconnectOK ==
  ASSUME NEW r, RoomOK(r), NEW p \in Peers, NEW u \in Users, NEW s \in Seats,
         NEW b, NEW g \in Gens
  PROVE  RoomOK(Reconnect(r, p, u, s, b, g))
<1> DEFINE q == Reclaim(Synced(r), p, u, s, g)
<1>1. RoomOK(q)
  BY SyncedOK, ReclaimOK
<1>2. RoomOK([q EXCEPT !.slot[s].role = "host", !.hostSeat = s])
  <2> HIDE DEF q
  <2> DEFINE t == [q.slot[s] EXCEPT !.role = "host"]
  <2>1. t \in Slot
    BY <1>1, SlotTypes DEF Slot, Roles
  <2> HIDE DEF t
  <2>2. RoomOK([q EXCEPT !.slot[s] = t, !.hostSeat = s])
    BY <1>1, <2>1 DEF RoomOK, RoomRecord
  <2> QED BY <2>2 DEF t
<1> QED BY <1>1, <1>2 DEF Reconnect

\* add_spectator keeps a room well formed.
LEMMA AddSpectatorOK ==
  ASSUME NEW r, RoomOK(r), NEW p \in Peers, NEW u \in Users, NEW old
  PROVE  RoomOK(AddSpectator(r, p, u, old))
BY DEF AddSpectator, RoomOK, RoomRecord

-----------------------------------------------------------------------------
(* The resume lobby *)

\* assign_waiting_member_to_seat keeps a room well formed.
LEMMA AssignOK ==
  ASSUME NEW r, RoomOK(r), NEW u \in Users, NEW s \in Seats, u \in Waiting(r)
  PROVE  RoomOK(Assign(r, u, s))
<1> DEFINE m == r.waiting[u]
           t == [state |-> IF m.peer = NoPeer THEN "RECONNECTING" ELSE "CONNECTED",
                 role |-> m.role, user |-> u, peer |-> m.peer, gen |-> m.gen]
<1>1. t \in Slot
  BY DEF RoomOK, RoomRecord, Member, Slot, SeatStates, Waiting, Roles
<1>2. NoMember \in Member
  BY DEF NoMember, Member
<1> HIDE DEF t
<1>3. RoomOK([r EXCEPT !.slot[s] = t, !.hostSeat = IF m.role = "host" THEN s ELSE @,
                       !.waiting[u] = NoMember])
  BY <1>1, <1>2 DEF RoomOK, RoomRecord
<1> QED BY <1>3 DEF Assign, t

\* What assigning a seat changes.
LEMMA AssignFields ==
  ASSUME NEW r, RoomOK(r), NEW u \in Users, NEW s \in Seats
  PROVE  LET q == Assign(r, u, s)
             m == r.waiting[u]
         IN  /\ q.status = r.status /\ q.forfeits = r.forfeits /\ q.spectator = r.spectator
             /\ q.waiting[u] = NoMember /\ \A v \in Users \ {u} : q.waiting[v] = r.waiting[v]
             /\ q.slot[s] = [state |-> IF m.peer = NoPeer THEN "RECONNECTING" ELSE "CONNECTED",
                             role |-> m.role, user |-> u, peer |-> m.peer, gen |-> m.gen]
             /\ \A t \in Seats \ {s} : q.slot[t] = r.slot[t]
<1> DEFINE m == r.waiting[u]
           t == [state |-> IF m.peer = NoPeer THEN "RECONNECTING" ELSE "CONNECTED",
                 role |-> m.role, user |-> u, peer |-> m.peer, gen |-> m.gen]
           h == IF m.role = "host" THEN s ELSE r.hostSeat
<1>1. Assign(r, u, s) = [r EXCEPT !.slot[s] = t, !.hostSeat = h, !.waiting[u] = NoMember]
  BY DEF Assign
<1> HIDE DEF t, h
<1>2. LET q == [r EXCEPT !.slot[s] = t, !.hostSeat = h, !.waiting[u] = NoMember]
      IN  /\ q.status = r.status /\ q.forfeits = r.forfeits /\ q.spectator = r.spectator
          /\ q.waiting[u] = NoMember /\ \A v \in Users \ {u} : q.waiting[v] = r.waiting[v]
          /\ q.slot[s] = t /\ \A x \in Seats \ {s} : q.slot[x] = r.slot[x]
  BY DEF RoomOK, RoomRecord
<1> QED BY <1>1, <1>2 DEF t

\* unassign_seat_to_waiting keeps a room well formed.
LEMMA UnassignOK ==
  ASSUME NEW r, RoomOK(r), NEW s \in Seats, CanUnassign(r, s)
  PROVE  RoomOK(Unassign(r, s))
<1> DEFINE t == r.slot[s]
           m == [role |-> t.role, peer |-> t.peer, gen |-> AtLeastOne(t.gen)]
<1>1. t.user \in Users
  BY DEF CanUnassign, RoomOK, RoomRecord, Slot
<1>2. m \in Member
  BY DEF AtLeastOne, RoomOK, RoomRecord, Slot, Member
<1>3. FreeSlot \in Slot
  BY DEF FreeSlot, Slot, SeatStates, Roles
<1> HIDE DEF m
<1>4. RoomOK([r EXCEPT !.waiting[t.user] = m, !.slot[s] = FreeSlot,
                       !.hostSeat = IF s = @ THEN NoSeat ELSE @])
  BY <1>1, <1>2, <1>3 DEF RoomOK, RoomRecord
<1> QED BY <1>4 DEF Unassign, m

\* What the seats of the operations of the resume lobby range over.
LEMMA ResumeSeatType ==
  ASSUME NEW r, RoomOK(r), NEW u \in Users
  PROVE  HeldSeat(r, u) \in Seats \cup {NoSeat} /\ ExpectedSeat(r, u) \in Seats \cup {NoSeat}
<1>1. SeatsOfUser(r, u) \in SUBSET Seats
  BY DEF SeatsOfUser, Occupied
<1>2. SeatsOfUser(r, u) # {} => LowestSeat(SeatsOfUser(r, u)) \in Seats
  BY <1>1, SeatsFacts, LowestSeatIsLeast
<1> QED BY <1>2, BindingAssumption DEF HeldSeat, ExpectedSeat

\* add_waiting_member keeps a room well formed.
LEMMA AddWaitingOK ==
  ASSUME NEW r, RoomOK(r), NEW p \in Peers, NEW u \in Users, NEW role \in Roles,
         NEW g \in Gens
  PROVE  RoomOK(AddWaiting(r, p, u, role, g))
<1> DEFINE q == PutWaiting(r, p, u, role, g)
<1>1. CASE HeldSeat(r, u) # NoSeat
  BY <1>1, ResumeSeatType, ReclaimOK DEF AddWaiting
<1>2. CASE HeldSeat(r, u) = NoSeat
  <2>1. r.waiting[u] \in Member
    BY DEF RoomOK, RoomRecord
  <2>2. NextGeneration(r.waiting[u].gen, g) \in Nat /\ InitialGeneration(g) \in Nat
    BY <2>1, GenerationType DEF Member
  <2>3. RoomOK(q)
    BY <2>1, <2>2 DEF PutWaiting, RoomOK, RoomRecord, Member
  <2>4. CanAssign(q, u, ExpectedSeat(q, u)) => RoomOK(Assign(q, u, ExpectedSeat(q, u)))
    <3> HIDE DEF q
    <3> QED BY <2>3, AssignOK DEF CanAssign
  <2> QED BY <1>2, <2>3, <2>4 DEF AddWaiting
<1> QED BY <1>1, <1>2

-----------------------------------------------------------------------------
(* Leaving *)

\* A free seat and a user who does not wait are records of their type.
LEMMA FreeTypes == FreeSlot \in Slot /\ NoMember \in Member
BY DEF FreeSlot, Slot, SeatStates, Roles, NoMember, Member

\* Taking every host role back keeps a room well formed.
LEMMA DemotedOK ==
  ASSUME NEW r, RoomOK(r)
  PROVE  RoomOK(Demoted(r))
<1> DEFINE f == [s \in Seats |-> [r.slot[s] EXCEPT !.role = "player"]]
           w == [u \in Users |-> IF u \in Waiting(r)
                   THEN [r.waiting[u] EXCEPT !.role = "player"] ELSE r.waiting[u]]
<1>1. f \in [Seats -> Slot]
  BY SlotTypes DEF Slot, Roles
<1>2. w \in [Users -> Member]
  BY SlotTypes DEF Member, Roles
<1> HIDE DEF f, w
<1>3. RoomOK([r EXCEPT !.hostSeat = NoSeat, !.slot = f, !.waiting = w])
  BY <1>1, <1>2 DEF RoomOK, RoomRecord
<1> QED BY <1>3 DEF Demoted, f, w

\* _promote_new_host_after_lobby_leave keeps a room well formed.
LEMMA PromoteOK ==
  ASSUME NEW r, RoomOK(r)
  PROVE  RoomOK(Promote(r))
<1> DEFINE d == Demoted(r)
<1>1. RoomOK(d)
  BY DemotedOK
<1> HIDE DEF d
<1>2. ASSUME NEW s \in Seats
      PROVE  RoomOK([d EXCEPT !.slot[s].role = "host", !.hostSeat = s])
  <2> DEFINE t == [d.slot[s] EXCEPT !.role = "host"]
  <2>1. t \in Slot
    BY <1>1, SlotTypes DEF Slot, Roles
  <2> HIDE DEF t
  <2>2. RoomOK([d EXCEPT !.slot[s] = t, !.hostSeat = s])
    BY <1>1, <2>1 DEF RoomOK, RoomRecord
  <2> QED BY <2>2 DEF t
<1>3. ASSUME NEW u \in Users
      PROVE  RoomOK([d EXCEPT !.waiting[u].role = "host"])
  <2> DEFINE m == [d.waiting[u] EXCEPT !.role = "host"]
  <2>1. m \in Member
    BY <1>1, SlotTypes DEF Member, Roles
  <2> HIDE DEF m
  <2>2. RoomOK([d EXCEPT !.waiting[u] = m])
    BY <1>1, <2>1 DEF RoomOK, RoomRecord
  <2> QED BY <2>2 DEF m
<1>4. Occupied(d) # {} => LowestSeat(Occupied(d)) \in Seats
  BY SeatsFacts, LowestSeatIsLeast DEF Occupied
<1>5. Waiting(d) # {} => LowestSeat(Waiting(d)) \in Users
  BY SeatsFacts, LowestSeatIsLeast DEF Waiting
<1> QED BY <1>1, <1>2, <1>3, <1>4, <1>5 DEF Promote, d

\* Freeing a seat keeps a room well formed.
LEMMA FreeSeatOK ==
  ASSUME NEW r, RoomOK(r), NEW s \in Seats
  PROVE  RoomOK(FreeSeat(r, s))
<1>1. RoomOK([r EXCEPT !.slot[s] = FreeSlot])
  BY FreeTypes DEF RoomOK, RoomRecord
<1> QED BY <1>1, PromoteOK DEF FreeSeat

\* Dropping a waiting member keeps a room well formed.
LEMMA DropWaitingOK ==
  ASSUME NEW r, RoomOK(r), NEW u \in Users
  PROVE  RoomOK(DropWaiting(r, u))
<1>1. RoomOK([r EXCEPT !.waiting[u] = NoMember])
  BY FreeTypes DEF RoomOK, RoomRecord
<1> QED BY <1>1, PromoteOK DEF DropWaiting

\* Keeping a seat for an absent player keeps a room well formed.
LEMMA VacateSeatOK ==
  ASSUME NEW r, RoomOK(r), NEW s \in Seats
  PROVE  RoomOK(VacateSeat(r, s))
<1> DEFINE q == Synced(r)
           away == IF Forfeited(r, s) THEN "FORFEITED" ELSE "RECONNECTING"
<1>1. RoomOK(q)
  BY SyncedOK
<1>2. away \in SeatStates
  BY DEF SeatStates
<1> HIDE DEF q, away
<1> DEFINE t == [q.slot[s] EXCEPT !.peer = NoPeer, !.state = away]
<1>3. t \in Slot
  BY <1>1, <1>2, SlotTypes DEF Slot
<1> HIDE DEF t
<1>4. RoomOK([q EXCEPT !.slot[s] = t])
  BY <1>1, <1>3 DEF RoomOK, RoomRecord
<1>5. VacateSeat(r, s) = [q EXCEPT !.slot[s].peer = NoPeer, !.slot[s].state = away]
  BY DEF VacateSeat, q, away
<1>6. [q EXCEPT !.slot[s].peer = NoPeer, !.slot[s].state = away] = [q EXCEPT !.slot[s] = t]
  BY <1>1 DEF t, RoomOK, RoomRecord
<1> QED BY <1>4, <1>5, <1>6

\* Where a connection of the room is.
LEMMA PlaceOf ==
  ASSUME NEW r, RoomOK(r), NEW p \in Peers
  PROVE  /\ UsersOf(r, p) # {} => LowestSeat(UsersOf(r, p)) \in Users
         /\ SeatsOf(r, p) # {} => LowestSeat(SeatsOf(r, p)) \in Seats
         /\ HasPeer(r, p) => p \in Spectators(r) \/ UsersOf(r, p) # {} \/ SeatsOf(r, p) # {}
<1>1. UsersOf(r, p) \in SUBSET Users /\ SeatsOf(r, p) \in SUBSET Seats
  BY DEF UsersOf, SeatsOf
<1>2. HasPeer(r, p) => p \in Spectators(r) \/ UsersOf(r, p) # {} \/ SeatsOf(r, p) # {}
  BY DEF HasPeer, PeerIds, SeatPeers, WaitPeers, UsersOf, SeatsOf
<1> QED BY <1>1, <1>2, SeatsFacts, LowestSeatIsLeast

\* The actor of a connection is a seat, or none.
LEMMA ActorType ==
  ASSUME NEW r, RoomOK(r), NEW p \in Peers
  PROVE  ActorOf(r, p) \in Seats \cup {NoSeat}
BY PlaceOf DEF ActorOf

\* Dropping a spectator keeps a room well formed.
LEMMA DropSpectatorOK ==
  ASSUME NEW r, RoomOK(r), NEW p \in Peers
  PROVE  RoomOK(DropSpectator(r, p))
BY DEF DropSpectator, RoomOK, RoomRecord

\* remove_peer keeps a room well formed.
LEMMA RemovePeerOK ==
  ASSUME NEW r, RoomOK(r), NEW p \in Peers, HasPeer(r, p)
  PROVE  RoomOK(RemovePeer(r, p))
BY PlaceOf, DropSpectatorOK, DropWaitingOK, FreeSeatOK, VacateSeatOK DEF RemovePeer

\* disconnect_peer keeps a room well formed.
LEMMA DisconnectPeerOK ==
  ASSUME NEW r, RoomOK(r), NEW p \in Peers, HasPeer(r, p)
  PROVE  RoomOK(DisconnectPeer(r, p))
<1>1. ASSUME NEW u \in Users
      PROVE  RoomOK([r EXCEPT !.waiting[u].peer = NoPeer])
  <2> DEFINE m == [r.waiting[u] EXCEPT !.peer = NoPeer]
  <2>1. m \in Member
    BY SlotTypes DEF Member
  <2> HIDE DEF m
  <2>2. RoomOK([r EXCEPT !.waiting[u] = m])
    BY <2>1 DEF RoomOK, RoomRecord
  <2> QED BY <2>2 DEF m
<1> QED BY <1>1, PlaceOf, DropSpectatorOK, VacateSeatOK DEF DisconnectPeer

-----------------------------------------------------------------------------
(* The start session and the game *)

\* Changing one field at a time; a room that exists goes on existing.
Live(r) == RoomOK(r) /\ r.status # "None"

\* Changing the status.
LEMMA StatusLive ==
  ASSUME NEW r, Live(r), NEW x \in Statuses \ {"None"}
  PROVE  Live([r EXCEPT !.status = x])
BY DEF Live, RoomOK, RoomRecord

\* Changing the targets of the start session.
LEMMA TargetsLive ==
  ASSUME NEW r, Live(r), NEW x \in SUBSET Peers
  PROVE  Live([r EXCEPT !.targets = x])
BY DEF Live, RoomOK, RoomRecord

\* Changing who is ready.
LEMMA ReadyLive ==
  ASSUME NEW r, Live(r), NEW x \in SUBSET Peers
  PROVE  Live([r EXCEPT !.ready = x])
BY DEF Live, RoomOK, RoomRecord

\* Changing the number of players of the prepared engine.
LEMMA PlayersLive ==
  ASSUME NEW r, Live(r), NEW x \in Nat
  PROVE  Live([r EXCEPT !.players = x])
BY DEF Live, RoomOK, RoomRecord

\* Changing the forfeits in the history.
LEMMA ForfeitsLive ==
  ASSUME NEW r, Live(r), NEW x \in Seq(Seats)
  PROVE  Live([r EXCEPT !.forfeits = x])
BY DEF Live, RoomOK, RoomRecord

\* begin_start_game_session keeps a room well formed.
LEMMA BeginStartLive ==
  ASSUME NEW r, Live(r)
  PROVE  Live(BeginStart(r))
<1> DEFINE a == [r EXCEPT !.status = "Starting"]
           b == [a EXCEPT !.targets = PeerIds(r)]
           c == [b EXCEPT !.ready = {}]
<1>1. PeerIds(r) \in SUBSET Peers
  BY DEF PeerIds, SeatPeers, WaitPeers, Spectators, Live, RoomOK, RoomRecord, Slot, Member
<1>2. Live(a)
  BY StatusLive DEF Statuses
<1>3. Live(b)
  BY <1>1, <1>2, TargetsLive
<1>4. Live(c)
  BY <1>3, ReadyLive
<1>5. r.desired \in Nat
  BY DEF Live, RoomOK, RoomRecord
<1>6. Live([c EXCEPT !.players = r.desired])
  BY <1>4, <1>5, PlayersLive
<1> QED BY <1>6 DEF BeginStart

\* abort_prepared_start_game keeps a room well formed.
LEMMA AbortStartLive ==
  ASSUME NEW r, Live(r)
  PROVE  Live(AbortStart(r))
<1> DEFINE a == [r EXCEPT !.status = "Lobby"]
           b == [a EXCEPT !.targets = {}]
           c == [b EXCEPT !.ready = {}]
           d == [c EXCEPT !.players = 0]
<1>1. Live(a)
  BY StatusLive DEF Statuses
<1>2. Live(b)
  BY <1>1, TargetsLive
<1>3. Live(c)
  BY <1>2, ReadyLive
<1>4. Live(d)
  BY <1>3, PlayersLive
<1>5. << >> \in Seq(Seats)
  OBVIOUS
<1>6. Live([d EXCEPT !.forfeits = << >>])
  BY <1>4, <1>5, ForfeitsLive
<1> QED BY <1>6 DEF AbortStart

\* commit_prepared_start_game keeps a room well formed.
LEMMA CommitStartLive ==
  ASSUME NEW r, Live(r)
  PROVE  Live(CommitStart(r))
<1> DEFINE f == [s \in Seats |-> IF r.slot[s].state = "FREE" THEN r.slot[s]
                   ELSE [r.slot[s] EXCEPT !.state =
                           IF r.slot[s].peer # NoPeer THEN "CONNECTED" ELSE "RECONNECTING"]]
           w == [u \in Users |-> NoMember]
           a == [r EXCEPT !.status = "InGame"]
           b == [a EXCEPT !.targets = {}]
           c == [b EXCEPT !.ready = {}]
           d == [c EXCEPT !.forfeits = << >>]
           e == [d EXCEPT !.waiting = w]
<1>1. f \in [Seats -> Slot]
  BY SlotTypes DEF Live, Slot, SeatStates
<1>2. w \in [Users -> Member]
  BY FreeTypes
<1>3. Live(a)
  BY StatusLive DEF Statuses
<1>4. Live(b)
  BY <1>3, TargetsLive
<1>5. Live(c)
  BY <1>4, ReadyLive
<1>6. << >> \in Seq(Seats)
  OBVIOUS
<1>7. Live(d)
  BY <1>5, <1>6, ForfeitsLive
<1> HIDE DEF f, w, d
<1>8. Live(e)
  BY <1>2, <1>7 DEF Live, RoomOK, RoomRecord
<1> HIDE DEF e
<1>9. Live([e EXCEPT !.slot = f])
  BY <1>1, <1>8 DEF Live, RoomOK, RoomRecord
<1> QED BY <1>9 DEF CommitStart, d, e, f, w

\* A forfeit keeps a room well formed.
LEMMA ForfeitLive ==
  ASSUME NEW r, Live(r), NEW s \in Seats
  PROVE  Live(Forfeit(r, s))
<1> DEFINE q == [r EXCEPT !.forfeits = Append(@, s)]
<1>1. Append(r.forfeits, s) \in Seq(Seats)
  BY DEF Live, RoomOK, RoomRecord
<1>2. Live(q)
  BY <1>1, ForfeitsLive
<1>3. Live([q EXCEPT !.status = "Ended"])
  BY <1>2, StatusLive DEF Statuses
<1> QED BY <1>2, <1>3 DEF Forfeit

-----------------------------------------------------------------------------
(* Where the connections of a room are *)

\* The invariant: connections at distinct places, none in a room that is not.
Fit(r) == RoomOK(r) /\ PlacesDistinct(r) /\ (r.status = "None" => PeerIds(r) = {})

\* From r to q connections only go: each place keeps its own or is empty.
Shrinks(r, q) ==
  /\ \A s \in Seats : q.slot[s].peer \in {r.slot[s].peer, NoPeer}
  /\ \A u \in Users : q.waiting[u].peer \in {r.waiting[u].peer, NoPeer}
  /\ \A x \in Peers : q.spectator[x] \in {r.spectator[x], NoUser}
  /\ q.status = "None" => r.status = "None"

\* From r to q connections only go, and p is not there any more.
ShrinksBy(r, q, p) == Shrinks(r, q) /\ p \notin PeerIds(q)

\* A room that only loses connections keeps the rest at distinct places.
LEMMA ShrinksFit ==
  ASSUME NEW r, Fit(r), NEW q, RoomOK(q), Shrinks(r, q)
  PROVE  Fit(q) /\ PeerIds(q) \subseteq PeerIds(r)
<1>1. /\ SeatPeers(q) \subseteq SeatPeers(r)
      /\ WaitPeers(q) \subseteq WaitPeers(r)
      /\ Spectators(q) \subseteq Spectators(r)
  BY DEF Shrinks, SeatPeers, WaitPeers, Spectators
<1>2. PeerIds(q) \subseteq PeerIds(r)
  BY <1>1 DEF PeerIds
<1>3. PlacesDistinct(q)
  <2>1. \A s, t \in Seats : q.slot[s].peer = q.slot[t].peer => s = t \/ q.slot[s].peer = NoPeer
    BY DEF Shrinks, Fit, PlacesDistinct
  <2>2. \A u, v \in Users : q.waiting[u].peer = q.waiting[v].peer => u = v \/ q.waiting[u].peer = NoPeer
    BY DEF Shrinks, Fit, PlacesDistinct
  <2>3. \A s \in Seats, u \in Users : q.slot[s].peer = q.waiting[u].peer => q.slot[s].peer = NoPeer
    BY DEF Shrinks, Fit, PlacesDistinct
  <2>4. Spectators(q) \cap (SeatPeers(q) \cup WaitPeers(q)) = {}
    BY <1>1 DEF Fit, PlacesDistinct
  <2> QED BY <2>1, <2>2, <2>3, <2>4 DEF PlacesDistinct
<1>4. q.status = "None" => PeerIds(q) = {}
  BY <1>2 DEF Fit, Shrinks
<1> QED BY <1>2, <1>3, <1>4 DEF Fit

\* Losing connections in two steps is losing them in one.
LEMMA ShrinksTransitive ==
  ASSUME NEW r, NEW q, NEW x, Shrinks(r, q), Shrinks(q, x)
  PROVE  Shrinks(r, x)
BY DEF Shrinks

\* A room that keeps all its connections loses none it had not.
LEMMA ShrinksReflexive ==
  ASSUME NEW r
  PROVE  Shrinks(r, r)
BY DEF Shrinks

\* Marking seats, recomputing the views and passing the host role leave every
\* connection where it is.
LEMMA SyncedShrinks ==
  ASSUME NEW r, RoomOK(r)
  PROVE  Shrinks(r, Synced(r))
BY SlotTypes DEF RoomOK, RoomRecord, Slot, Shrinks, Synced

\* _rebuild_runtime_views moves no connection.
LEMMA RebuiltShrinks ==
  ASSUME NEW r, RoomOK(r), NEW q \in Rebuilt(r)
  PROVE  Shrinks(r, q)
BY DEF RoomOK, RoomRecord, Shrinks, Rebuilt

\* Broadcasting the state of a room moves no connection.
LEMMA SettledShrinks ==
  ASSUME NEW r, RoomOK(r), NEW q \in Settled(r) \cup Shown(r)
  PROVE  Shrinks(r, q)
<1>1. q \in Rebuilt(Synced(r)) => Shrinks(r, q)
  BY SyncedShrinks, SyncedOK, RebuiltShrinks, ShrinksTransitive
<1> QED BY <1>1, ShrinksReflexive DEF Settled, Shown

\* Passing the host role on moves no connection.
LEMMA PromoteShrinks ==
  ASSUME NEW r, RoomOK(r)
  PROVE  Shrinks(r, Promote(r))
<1> DEFINE d == Demoted(r)
<1>1. RoomOK(d)
  BY DemotedOK
<1>2. Shrinks(r, d)
  <2>1. /\ d.spectator = r.spectator /\ d.status = r.status
        /\ d.slot = [s \in Seats |-> [r.slot[s] EXCEPT !.role = "player"]]
        /\ d.waiting = [u \in Users |-> IF u \in Waiting(r)
                           THEN [r.waiting[u] EXCEPT !.role = "player"] ELSE r.waiting[u]]
    BY DEF Demoted, RoomOK, RoomRecord
  <2> HIDE DEF d
  <2>2. \A s \in Seats : d.slot[s].peer = r.slot[s].peer
    BY <2>1, SlotTypes DEF Slot
  <2>3. \A u \in Users : d.waiting[u].peer = r.waiting[u].peer
    BY <2>1, SlotTypes DEF Member
  <2> QED BY <2>1, <2>2, <2>3 DEF Shrinks
<1> HIDE DEF d
<1>3. ASSUME NEW s \in Seats
      PROVE  Shrinks(d, [d EXCEPT !.slot[s].role = "host", !.hostSeat = s])
  BY <1>1, SlotTypes DEF RoomOK, RoomRecord, Slot, Shrinks
<1>4. ASSUME NEW u \in Users
      PROVE  Shrinks(d, [d EXCEPT !.waiting[u].role = "host"])
  BY <1>1, SlotTypes DEF RoomOK, RoomRecord, Member, Shrinks
<1>5. Occupied(d) # {} => LowestSeat(Occupied(d)) \in Seats
  BY SeatsFacts, LowestSeatIsLeast DEF Occupied
<1>6. Waiting(d) # {} => LowestSeat(Waiting(d)) \in Users
  BY SeatsFacts, LowestSeatIsLeast DEF Waiting
<1>7. Shrinks(d, Promote(r))
  BY <1>3, <1>4, <1>5, <1>6, ShrinksReflexive DEF Promote, d
<1> QED BY <1>2, <1>7, ShrinksTransitive

-----------------------------------------------------------------------------
(* Joining: p comes in, and e is evicted from the place it takes.           *)

Admits(r, q, p, e) == Fit(q) /\ PeerIds(q) \subseteq (PeerIds(r) \ {e}) \cup {p}

TakesSlot(r, q, p, s) ==
  /\ q.slot[s].peer = p
  /\ \A t \in Seats \ {s} : q.slot[t].peer = r.slot[t].peer
  /\ \A u \in Users : q.waiting[u].peer = r.waiting[u].peer
  /\ q.spectator = r.spectator
  /\ q.status # "None"

\* A new connection on a seat evicts exactly the one that was there.
LEMMA TakesSlotAdmits ==
  ASSUME NEW r, Fit(r), NEW q, RoomOK(q), NEW p \in Peers, ~HasPeer(r, p),
         NEW s \in Seats, TakesSlot(r, q, p, s)
  PROVE  Admits(r, q, p, r.slot[s].peer)
<1> DEFINE e == r.slot[s].peer
<1>1. SeatPeers(q) \subseteq (SeatPeers(r) \ {e}) \cup {p}
  <2> SUFFICES ASSUME NEW t \in Seats, q.slot[t].peer # NoPeer
               PROVE  q.slot[t].peer \in (SeatPeers(r) \ {e}) \cup {p}
    BY DEF SeatPeers
  <2>1. CASE t = s
    BY <2>1 DEF TakesSlot
  <2>2. CASE t # s
    BY <2>2 DEF TakesSlot, Fit, PlacesDistinct, SeatPeers
  <2> QED BY <2>1, <2>2
<1>2. WaitPeers(q) = WaitPeers(r) /\ Spectators(q) = Spectators(r)
  BY DEF TakesSlot, WaitPeers, Spectators
<1>3. e \notin WaitPeers(r) /\ (e \in Spectators(r) => e = NoPeer)
  BY DEF Fit, PlacesDistinct, WaitPeers, SeatPeers
<1>4. NoPeer \notin PeerIds(r)
  BY PeersAssumption DEF PeerIds, SeatPeers, WaitPeers, Spectators
<1>5. PeerIds(q) \subseteq (PeerIds(r) \ {e}) \cup {p}
  BY <1>1, <1>2, <1>3, <1>4 DEF PeerIds
<1>6. p \notin SeatPeers(r) /\ p \notin WaitPeers(r) /\ p \notin Spectators(r) /\ p # NoPeer
  BY PeersAssumption DEF HasPeer, PeerIds
<1>7. PlacesDistinct(q)
  <2>1. ASSUME NEW x \in Seats, NEW y \in Seats, q.slot[x].peer = q.slot[y].peer
        PROVE  x = y \/ q.slot[x].peer = NoPeer
    <3>1. x # s => r.slot[x].peer # p
      BY <1>6 DEF SeatPeers
    <3>2. y # s => r.slot[y].peer # p
      BY <1>6 DEF SeatPeers
    <3> QED BY <2>1, <3>1, <3>2 DEF TakesSlot, Fit, PlacesDistinct
  <2>2. \A u, v \in Users : q.waiting[u].peer = q.waiting[v].peer => u = v \/ q.waiting[u].peer = NoPeer
    BY DEF TakesSlot, Fit, PlacesDistinct
  <2>3. ASSUME NEW x \in Seats, NEW u \in Users, q.slot[x].peer = q.waiting[u].peer
        PROVE  q.slot[x].peer = NoPeer
    <3>1. r.waiting[u].peer # p
      BY <1>6 DEF WaitPeers
    <3> QED BY <2>3, <3>1 DEF TakesSlot, Fit, PlacesDistinct
  <2>4. Spectators(q) \cap (SeatPeers(q) \cup WaitPeers(q)) = {}
    BY <1>1, <1>2, <1>6 DEF Fit, PlacesDistinct
  <2> QED BY <2>1, <2>2, <2>3, <2>4 DEF PlacesDistinct
<1> QED BY <1>5, <1>7 DEF Admits, Fit, TakesSlot

TakesWait(r, q, p, u) ==
  /\ q.waiting[u].peer = p
  /\ \A v \in Users \ {u} : q.waiting[v].peer = r.waiting[v].peer
  /\ \A s \in Seats : q.slot[s].peer = r.slot[s].peer
  /\ q.spectator = r.spectator
  /\ q.status # "None"

\* A new connection of a waiting user evicts exactly the old one.
LEMMA TakesWaitAdmits ==
  ASSUME NEW r, Fit(r), NEW q, RoomOK(q), NEW p \in Peers, ~HasPeer(r, p),
         NEW u \in Users, TakesWait(r, q, p, u)
  PROVE  Admits(r, q, p, r.waiting[u].peer)
<1> DEFINE e == r.waiting[u].peer
<1>1. WaitPeers(q) \subseteq (WaitPeers(r) \ {e}) \cup {p}
  <2> SUFFICES ASSUME NEW v \in Users, q.waiting[v].peer # NoPeer
               PROVE  q.waiting[v].peer \in (WaitPeers(r) \ {e}) \cup {p}
    BY DEF WaitPeers
  <2>1. CASE v = u
    BY <2>1 DEF TakesWait
  <2>2. CASE v # u
    BY <2>2 DEF TakesWait, Fit, PlacesDistinct, WaitPeers
  <2> QED BY <2>1, <2>2
<1>2. SeatPeers(q) = SeatPeers(r) /\ Spectators(q) = Spectators(r)
  BY DEF TakesWait, SeatPeers, Spectators
<1>3. e \notin SeatPeers(r) /\ (e \in Spectators(r) => e = NoPeer)
  BY DEF Fit, PlacesDistinct, WaitPeers, SeatPeers
<1>4. NoPeer \notin PeerIds(r)
  BY PeersAssumption DEF PeerIds, SeatPeers, WaitPeers, Spectators
<1>5. PeerIds(q) \subseteq (PeerIds(r) \ {e}) \cup {p}
  BY <1>1, <1>2, <1>3, <1>4 DEF PeerIds
<1>6. p \notin SeatPeers(r) /\ p \notin WaitPeers(r) /\ p \notin Spectators(r) /\ p # NoPeer
  BY PeersAssumption DEF HasPeer, PeerIds
<1>7. PlacesDistinct(q)
  <2>1. \A x, y \in Seats : q.slot[x].peer = q.slot[y].peer => x = y \/ q.slot[x].peer = NoPeer
    BY DEF TakesWait, Fit, PlacesDistinct
  <2>2. ASSUME NEW v \in Users, NEW w \in Users, q.waiting[v].peer = q.waiting[w].peer
        PROVE  v = w \/ q.waiting[v].peer = NoPeer
    <3>1. v # u => r.waiting[v].peer # p
      BY <1>6 DEF WaitPeers
    <3>2. w # u => r.waiting[w].peer # p
      BY <1>6 DEF WaitPeers
    <3> QED BY <2>2, <3>1, <3>2 DEF TakesWait, Fit, PlacesDistinct
  <2>3. ASSUME NEW x \in Seats, NEW v \in Users, q.slot[x].peer = q.waiting[v].peer
        PROVE  q.slot[x].peer = NoPeer
    <3>1. r.slot[x].peer # p
      BY <1>6 DEF SeatPeers
    <3> QED BY <2>3, <3>1 DEF TakesWait, Fit, PlacesDistinct
  <2>4. Spectators(q) \cap (SeatPeers(q) \cup WaitPeers(q)) = {}
    BY <1>1, <1>2, <1>6 DEF Fit, PlacesDistinct
  <2> QED BY <2>1, <2>2, <2>3, <2>4 DEF PlacesDistinct
<1> QED BY <1>5, <1>7 DEF Admits, Fit, TakesWait

\* A step that only drops connections may follow.
LEMMA AdmitsThenShrinks ==
  ASSUME NEW r, NEW q, NEW p, NEW e, Admits(r, q, p, e),
         NEW x, RoomOK(x), Shrinks(q, x)
  PROVE  Admits(r, x, p, e)
BY ShrinksFit DEF Admits

\* The broadcast that follows a join admits and evicts nobody else.
LEMMA AdmitsSettled ==
  ASSUME NEW r, NEW q, NEW p, NEW e, Admits(r, q, p, e), NEW x \in Settled(q) \cup Shown(q)
  PROVE  Admits(r, x, p, e)
<1>1. RoomOK(q)
  BY DEF Admits, Fit
<1> QED BY <1>1, SettledOK, ShownOK, SettledShrinks, AdmitsThenShrinks

\* Seating a player brings in one connection (add_peer, add_peer_at_seat).
LEMMA SeatAtAdmits ==
  ASSUME NEW r, Fit(r), r.status # "None", NEW p \in Peers, ~HasPeer(r, p), NEW u \in Users,
         NEW s \in Seats, NEW role \in Roles, NEW g \in Nat
  PROVE  Admits(r, SeatAt(r, p, u, s, role, g), p, r.slot[s].peer)
<1> DEFINE q == SeatAt(r, p, u, s, role, g)
<1>1. RoomOK(q)
  BY SeatAtOK DEF Fit
<1>2. TakesSlot(r, q, p, s)
  BY DEF Fit, RoomOK, RoomRecord, TakesSlot, SeatAt, SeatedSlot
<1> HIDE DEF q
<1> QED BY <1>1, <1>2, TakesSlotAdmits DEF q

\* A join that evicts somebody also fits the weaker claim that nobody need go.
LEMMA AdmitsNobodyOut ==
  ASSUME NEW r, NEW q, NEW p, NEW e, Admits(r, q, p, e)
  PROVE  Admits(r, q, p, NoPeer)
BY PeersAssumption DEF Admits, PeerIds, SeatPeers, WaitPeers, Spectators

\* add_peer brings in one connection.
LEMMA AddPeerAdmits ==
  ASSUME NEW r, Fit(r), NEW p \in Peers, NEW u \in Users, NEW g \in Gens, CanAddPeer(r, p)
  PROVE  Admits(r, AddPeer(r, p, u, g), p, NoPeer)
<1>1. PickSeat(r) \in Seats
  BY PickSeatType DEF Fit
<1>2. Admits(r, AddPeer(r, p, u, g), p, r.slot[PickSeat(r)].peer)
  BY <1>1, SeatAtAdmits, GenerationType DEF CanAddPeer, AddPeer, Roles
<1> QED BY <1>2, AdmitsNobodyOut

\* add_peer_at_seat brings in one connection.
LEMMA AddPeerAtSeatAdmits ==
  ASSUME NEW r, Fit(r), NEW p \in Peers, NEW u \in Users, NEW s, NEW g \in Gens,
         CanAddPeerAtSeat(r, p, s)
  PROVE  Admits(r, AddPeerAtSeat(r, p, u, s, g), p, NoPeer)
<1>1. Admits(r, AddPeerAtSeat(r, p, u, s, g), p, r.slot[s].peer)
  BY SeatAtAdmits, GenerationType DEF CanAddPeerAtSeat, CanAddPeer, AddPeerAtSeat, Roles
<1> QED BY <1>1, AdmitsNobodyOut

\* reclaim_peer_at_seat evicts the connection that held the seat.
LEMMA ReclaimAdmits ==
  ASSUME NEW r, Fit(r), r.status # "None", NEW p \in Peers, ~HasPeer(r, p), NEW u \in Users,
         NEW s \in Seats, NEW g \in Gens
  PROVE  Admits(r, Reclaim(r, p, u, s, g), p, r.slot[s].peer)
<1> DEFINE q == Reclaim(r, p, u, s, g)
<1>1. RoomOK(q)
  BY ReclaimOK DEF Fit
<1>2. TakesSlot(r, q, p, s)
  BY DEF Fit, RoomOK, RoomRecord, TakesSlot, Reclaim, SeatedSlot
<1> HIDE DEF q
<1> QED BY <1>1, <1>2, TakesSlotAdmits DEF q

\* reconnect_player evicts the connection that held the seat.
LEMMA ReconnectAdmits ==
  ASSUME NEW r, Fit(r), r.status # "None", NEW p \in Peers, ~HasPeer(r, p), NEW u \in Users,
         NEW s \in Seats, NEW b, NEW g \in Gens
  PROVE  Admits(r, Reconnect(r, p, u, s, b, g), p, r.slot[s].peer)
<1> DEFINE a == Synced(r)
           q == Reclaim(a, p, u, s, g)
           x == Reconnect(r, p, u, s, b, g)
<1>1. RoomOK(r) /\ RoomOK(a) /\ RoomOK(q) /\ RoomOK(x)
  BY SyncedOK, ReclaimOK, ReconnectOK DEF Fit
<1>2. Shrinks(r, a)
  BY SyncedShrinks, <1>1
<1>3. Fit(a) /\ PeerIds(a) \subseteq PeerIds(r)
  BY <1>1, <1>2, ShrinksFit
<1>4. a.status # "None" /\ ~HasPeer(a, p)
  BY <1>2, <1>3 DEF Shrinks, HasPeer
<1>5. a.slot[s].peer = r.slot[s].peer
  BY SyncedSlot DEF Fit
<1> HIDE DEF a
<1>6. Admits(a, q, p, r.slot[s].peer)
  BY <1>3, <1>4, <1>5, ReclaimAdmits
<1>7. Admits(r, q, p, r.slot[s].peer)
  BY <1>3, <1>6 DEF Admits
<1> HIDE DEF q
<1>8. Shrinks(q, [q EXCEPT !.slot[s].role = "host", !.hostSeat = s])
  BY <1>1, SlotTypes DEF RoomOK, RoomRecord, Slot, Shrinks
<1>9. Shrinks(q, x)
  BY <1>8, ShrinksReflexive DEF Reconnect, q, a
<1> HIDE DEF x
<1>10. Admits(r, x, p, r.slot[s].peer)
  BY <1>1, <1>7, <1>9, AdmitsThenShrinks
<1> QED BY <1>10 DEF x

\* A connection that starts to watch replaces one that watched.
LEMMA AddSpectatorAdmits ==
  ASSUME NEW r, Fit(r), r.status # "None", NEW p \in Peers, ~HasPeer(r, p), NEW u \in Users,
         NEW old, old \in Spectators(r) \/ old = NoPeer
  PROVE  Admits(r, AddSpectator(r, p, u, old), p, old)
<1> DEFINE q == AddSpectator(r, p, u, old)
<1>1. RoomOK(q)
  BY AddSpectatorOK DEF Fit
<1>2. /\ q.slot = r.slot /\ q.waiting = r.waiting /\ q.status # "None"
      /\ q.spectator = [x \in Peers |-> IF x = p THEN u ELSE IF x = old THEN NoUser ELSE r.spectator[x]]
  BY DEF AddSpectator, Fit, RoomOK, RoomRecord
<1> HIDE DEF q
<1>3. SeatPeers(q) = SeatPeers(r) /\ WaitPeers(q) = WaitPeers(r)
  BY <1>2 DEF SeatPeers, WaitPeers
<1>4. Spectators(q) \subseteq (Spectators(r) \ {old}) \cup {p}
  BY <1>2 DEF Spectators
<1>5. old \notin SeatPeers(r) \cup WaitPeers(r)
  BY DEF Fit, PlacesDistinct, SeatPeers, WaitPeers
<1>6. p \notin SeatPeers(r) \cup WaitPeers(r)
  BY DEF HasPeer, PeerIds
<1>7. PeerIds(q) \subseteq (PeerIds(r) \ {old}) \cup {p}
  BY <1>3, <1>4, <1>5 DEF PeerIds
<1>8. PlacesDistinct(q)
  BY <1>2, <1>3, <1>4, <1>6 DEF Fit, PlacesDistinct
<1> QED BY <1>1, <1>2, <1>7, <1>8 DEF Admits, Fit, q

-----------------------------------------------------------------------------
(* The resume lobby: a member moves between the waiting list and a seat.    *)

\* assign_waiting_member_to_seat takes the member's connection with him.
LEMMA AssignFit ==
  ASSUME NEW r, Fit(r), NEW u, NEW s, CanAssign(r, u, s)
  PROVE  Fit(Assign(r, u, s)) /\ PeerIds(Assign(r, u, s)) \subseteq PeerIds(r)
<1> DEFINE q == Assign(r, u, s)
<1>1. RoomOK(q) /\ u \in Users /\ s \in Seats
  BY AssignOK DEF Fit, CanAssign, Waiting
<1>2. /\ q.slot[s].peer = r.waiting[u].peer
      /\ \A t \in Seats \ {s} : q.slot[t].peer = r.slot[t].peer
      /\ q.waiting[u].peer = NoPeer
      /\ \A v \in Users \ {u} : q.waiting[v].peer = r.waiting[v].peer
      /\ q.spectator = r.spectator
      /\ q.status = r.status
  <2>1. RoomOK(r)
    BY DEF Fit
  <2>2. /\ q.waiting[u] = NoMember /\ \A v \in Users \ {u} : q.waiting[v] = r.waiting[v]
        /\ q.slot[s] = [state |-> IF r.waiting[u].peer = NoPeer THEN "RECONNECTING" ELSE "CONNECTED",
                        role |-> r.waiting[u].role, user |-> u, peer |-> r.waiting[u].peer,
                        gen |-> r.waiting[u].gen]
        /\ \A t \in Seats \ {s} : q.slot[t] = r.slot[t]
        /\ q.spectator = r.spectator /\ q.status = r.status
    BY <1>1, <2>1, AssignFields
  <2> HIDE DEF q
  <2> QED BY <2>2 DEF NoMember
<1> HIDE DEF q
<1>3. SeatPeers(q) \cup WaitPeers(q) \subseteq SeatPeers(r) \cup WaitPeers(r)
  BY <1>1, <1>2 DEF SeatPeers, WaitPeers
<1>4. Spectators(q) = Spectators(r)
  BY <1>2 DEF Spectators
<1>5. PeerIds(q) \subseteq PeerIds(r)
  BY <1>3, <1>4 DEF PeerIds
<1>6. PlacesDistinct(q)
  <2>1. \A x, y \in Seats : q.slot[x].peer = q.slot[y].peer => x = y \/ q.slot[x].peer = NoPeer
    BY <1>1, <1>2 DEF Fit, PlacesDistinct
  <2>2. \A v, w \in Users : q.waiting[v].peer = q.waiting[w].peer => v = w \/ q.waiting[v].peer = NoPeer
    BY <1>1, <1>2 DEF Fit, PlacesDistinct
  <2>3. \A x \in Seats, v \in Users : q.slot[x].peer = q.waiting[v].peer => q.slot[x].peer = NoPeer
    BY <1>1, <1>2 DEF Fit, PlacesDistinct
  <2>4. Spectators(q) \cap (SeatPeers(q) \cup WaitPeers(q)) = {}
    BY <1>3, <1>4 DEF Fit, PlacesDistinct
  <2> QED BY <2>1, <2>2, <2>3, <2>4 DEF PlacesDistinct
<1> QED BY <1>1, <1>2, <1>5, <1>6 DEF Fit, CanAssign, q

\* unassign_seat_to_waiting may lose the connection it overwrites, and doubles none.
LEMMA UnassignFit ==
  ASSUME NEW r, Fit(r), NEW s, CanUnassign(r, s)
  PROVE  Fit(Unassign(r, s)) /\ PeerIds(Unassign(r, s)) \subseteq PeerIds(r)
<1> DEFINE q == Unassign(r, s)
           u == r.slot[s].user
<1>1. s \in Seats
  BY DEF CanUnassign, Occupied
<1>2. RoomOK(q) /\ u \in Users
  BY <1>1, UnassignOK, SlotTypes DEF Fit, CanUnassign, Slot
<1> HIDE DEF u
<1>3. /\ q.waiting[u].peer = r.slot[s].peer
      /\ \A v \in Users \ {u} : q.waiting[v].peer = r.waiting[v].peer
      /\ q.slot[s].peer = NoPeer
      /\ \A t \in Seats \ {s} : q.slot[t].peer = r.slot[t].peer
      /\ q.spectator = r.spectator
      /\ q.status = r.status
  BY <1>1, <1>2 DEF Unassign, FreeSlot, Fit, RoomOK, RoomRecord, u
<1> HIDE DEF q
<1>4. SeatPeers(q) \cup WaitPeers(q) \subseteq SeatPeers(r) \cup WaitPeers(r)
  BY <1>1, <1>2, <1>3 DEF SeatPeers, WaitPeers
<1>5. Spectators(q) = Spectators(r)
  BY <1>3 DEF Spectators
<1>6. PeerIds(q) \subseteq PeerIds(r)
  BY <1>4, <1>5 DEF PeerIds
<1>7. PlacesDistinct(q)
  <2>1. \A x, y \in Seats : q.slot[x].peer = q.slot[y].peer => x = y \/ q.slot[x].peer = NoPeer
    BY <1>1, <1>3 DEF Fit, PlacesDistinct
  <2>2. \A v, w \in Users : q.waiting[v].peer = q.waiting[w].peer => v = w \/ q.waiting[v].peer = NoPeer
    BY <1>1, <1>2, <1>3 DEF Fit, PlacesDistinct
  <2>3. \A x \in Seats, v \in Users : q.slot[x].peer = q.waiting[v].peer => q.slot[x].peer = NoPeer
    BY <1>1, <1>2, <1>3 DEF Fit, PlacesDistinct
  <2>4. Spectators(q) \cap (SeatPeers(q) \cup WaitPeers(q)) = {}
    BY <1>4, <1>5 DEF Fit, PlacesDistinct
  <2> QED BY <2>1, <2>2, <2>3, <2>4 DEF PlacesDistinct
<1> QED BY <1>2, <1>3, <1>6, <1>7 DEF Fit, CanUnassign, q

\* add_waiting_member, with the seat it may reclaim or assign at once, evicts only
\* the user's earlier connection.
LEMMA AddWaitingAdmits ==
  ASSUME NEW r, Fit(r), NEW p \in Peers, NEW u \in Users, NEW role \in Roles,
         NEW g \in Gens, CanAddWaiting(r, p, u, g)
  PROVE  Admits(r, AddWaiting(r, p, u, role, g), p, WaitingReplaces(r, u))
<1>1. ~HasPeer(r, p) /\ r.status # "None"
  BY DEF CanAddWaiting
<1>2. CASE HeldSeat(r, u) # NoSeat
  <2>1. HeldSeat(r, u) \in Seats
    BY <1>2, ResumeSeatType DEF Fit
  <2> QED BY <1>1, <1>2, <2>1, ReclaimAdmits DEF AddWaiting, WaitingReplaces
<1>3. CASE HeldSeat(r, u) = NoSeat
  <2> DEFINE q == PutWaiting(r, p, u, role, g)
             e == r.waiting[u].peer
             s == ExpectedSeat(q, u)
  <2>1. r.waiting[u] \in Member
    BY SlotTypes DEF Fit
  <2>2. NextGeneration(r.waiting[u].gen, g) \in Nat /\ InitialGeneration(g) \in Nat
    BY <2>1, GenerationType DEF Member
  <2>3. RoomOK(q)
    BY <2>1, <2>2 DEF PutWaiting, Fit, RoomOK, RoomRecord, Member
  <2>4. TakesWait(r, q, p, u)
    BY <1>1 DEF TakesWait, PutWaiting, Fit, RoomOK, RoomRecord
  <2> HIDE DEF q
  <2>5. Admits(r, q, p, e)
    BY <1>1, <2>3, <2>4, TakesWaitAdmits
  <2>6. CanAssign(q, u, s) => Admits(r, Assign(q, u, s), p, e)
    BY <2>5, AssignFit DEF Admits
  <2> QED BY <1>3, <2>5, <2>6 DEF AddWaiting, WaitingReplaces, q
<1> QED BY <1>2, <1>3

-----------------------------------------------------------------------------
(* Leaving: the connection goes, and with it at most others.                *)

\* Freeing a seat takes its connection out.
LEMMA FreeSeatShrinks ==
  ASSUME NEW r, RoomOK(r), NEW s \in Seats
  PROVE  Shrinks(r, FreeSeat(r, s)) /\ FreeSeat(r, s).slot[s].peer = NoPeer
<1> DEFINE q == [r EXCEPT !.slot[s] = FreeSlot]
<1>1. RoomOK(q)
  BY FreeTypes DEF RoomOK, RoomRecord
<1>2. Shrinks(r, q) /\ q.slot[s].peer = NoPeer
  BY DEF RoomOK, RoomRecord, Shrinks, FreeSlot
<1> HIDE DEF q
<1>3. Shrinks(q, FreeSeat(r, s))
  BY <1>1, PromoteShrinks, ShrinksReflexive DEF FreeSeat, q
<1>4. FreeSeat(r, s).slot[s].peer = NoPeer
  BY <1>2, <1>3 DEF Shrinks
<1> QED BY <1>2, <1>3, <1>4, ShrinksTransitive

\* Dropping a waiting member takes his connection out.
LEMMA DropWaitingShrinks ==
  ASSUME NEW r, RoomOK(r), NEW u \in Users
  PROVE  Shrinks(r, DropWaiting(r, u)) /\ DropWaiting(r, u).waiting[u].peer = NoPeer
<1> DEFINE q == [r EXCEPT !.waiting[u] = NoMember]
<1>1. RoomOK(q)
  BY FreeTypes DEF RoomOK, RoomRecord
<1>2. Shrinks(r, q) /\ q.waiting[u].peer = NoPeer
  BY DEF RoomOK, RoomRecord, Shrinks, NoMember
<1> HIDE DEF q
<1>3. Shrinks(q, DropWaiting(r, u))
  BY <1>1, PromoteShrinks, ShrinksReflexive DEF DropWaiting, q
<1>4. DropWaiting(r, u).waiting[u].peer = NoPeer
  BY <1>2, <1>3 DEF Shrinks
<1> QED BY <1>2, <1>3, <1>4, ShrinksTransitive

\* Keeping a seat for an absent player takes his connection out.
LEMMA VacateSeatShrinks ==
  ASSUME NEW r, RoomOK(r), NEW s \in Seats
  PROVE  Shrinks(r, VacateSeat(r, s)) /\ VacateSeat(r, s).slot[s].peer = NoPeer
<1> DEFINE q == Synced(r)
<1>1. RoomOK(q) /\ Shrinks(r, q)
  BY SyncedOK, SyncedShrinks
<1> HIDE DEF q
<1>2. Shrinks(q, VacateSeat(r, s)) /\ VacateSeat(r, s).slot[s].peer = NoPeer
  BY <1>1, SlotTypes DEF RoomOK, RoomRecord, Slot, Shrinks, VacateSeat, q
<1> QED BY <1>1, <1>2, ShrinksTransitive

\* A connection that is at one place is nowhere else.
LEMMA OnlyPlace ==
  ASSUME NEW r, Fit(r), NEW p \in Peers
  PROVE  /\ p \in Spectators(r) => UsersOf(r, p) = {} /\ SeatsOf(r, p) = {}
         /\ \A u \in UsersOf(r, p) : UsersOf(r, p) = {u} /\ SeatsOf(r, p) = {}
         /\ \A s \in SeatsOf(r, p) : SeatsOf(r, p) = {s} /\ UsersOf(r, p) = {}
BY PeersAssumption DEF Fit, PlacesDistinct, UsersOf, SeatsOf, SeatPeers, WaitPeers

\* A connection taken out of one place is out of the room.
LEMMA GoneFrom ==
  ASSUME NEW r, Fit(r), NEW p \in Peers, NEW q, Shrinks(r, q),
         \/ p \in Spectators(r) /\ q.spectator[p] = NoUser
         \/ \E u \in UsersOf(r, p) : q.waiting[u].peer = NoPeer
         \/ \E s \in SeatsOf(r, p) : q.slot[s].peer = NoPeer
  PROVE  p \notin PeerIds(q)
<1>1. p # NoPeer
  BY PeersAssumption
<1>2. p \notin SeatPeers(q)
  BY <1>1, OnlyPlace DEF Shrinks, SeatPeers, SeatsOf, UsersOf
<1>3. p \notin WaitPeers(q)
  BY <1>1, OnlyPlace DEF Shrinks, WaitPeers, SeatsOf, UsersOf
<1>4. p \notin Spectators(q)
  <2>1. SeatsOf(r, p) # {} \/ UsersOf(r, p) # {} => r.spectator[p] = NoUser
    BY OnlyPlace DEF Spectators
  <2> QED BY <2>1 DEF Shrinks, Spectators
<1> QED BY <1>2, <1>3, <1>4 DEF PeerIds

\* Dropping a spectator takes his connection out.
LEMMA DropSpectatorShrinks ==
  ASSUME NEW r, RoomOK(r), NEW p \in Peers
  PROVE  Shrinks(r, DropSpectator(r, p)) /\ DropSpectator(r, p).spectator[p] = NoUser
BY DEF DropSpectator, RoomOK, RoomRecord, Shrinks

\* remove_peer takes the connection out of the room, wherever it was.
LEMMA RemovePeerShrinks ==
  ASSUME NEW r, Fit(r), NEW p \in Peers, HasPeer(r, p)
  PROVE  ShrinksBy(r, RemovePeer(r, p), p)
<1>1. CASE p \in Spectators(r)
  BY <1>1, DropSpectatorShrinks, GoneFrom DEF Fit, RemovePeer, ShrinksBy
<1>2. CASE p \notin Spectators(r) /\ UsersOf(r, p) # {}
  <2> DEFINE u == LowestSeat(UsersOf(r, p))
  <2>1. u \in UsersOf(r, p) /\ u \in Users
    BY <1>2, OnlyPlace, PlaceOf, SeatsFacts, LowestSeatIsLeast DEF UsersOf
  <2>2. RemovePeer(r, p) = DropWaiting(r, u)
    BY <1>2 DEF RemovePeer
  <2> HIDE DEF u
  <2> QED BY <2>1, <2>2, DropWaitingShrinks, GoneFrom DEF Fit, ShrinksBy
<1>3. CASE p \notin Spectators(r) /\ UsersOf(r, p) = {}
  <2> DEFINE s == LowestSeat(SeatsOf(r, p))
  <2>1. s \in SeatsOf(r, p) /\ s \in Seats
    BY <1>3, PlaceOf, SeatsFacts, LowestSeatIsLeast DEF Fit, SeatsOf
  <2>2. RemovePeer(r, p) \in {FreeSeat(r, s), VacateSeat(r, s)}
    BY <1>3 DEF RemovePeer
  <2> HIDE DEF s
  <2> QED BY <2>1, <2>2, FreeSeatShrinks, VacateSeatShrinks, GoneFrom DEF Fit, ShrinksBy
<1> QED BY <1>1, <1>2, <1>3

\* disconnect_peer takes the connection out of the room, wherever it was.
LEMMA DisconnectPeerShrinks ==
  ASSUME NEW r, Fit(r), NEW p \in Peers, HasPeer(r, p)
  PROVE  ShrinksBy(r, DisconnectPeer(r, p), p)
<1>1. CASE p \in Spectators(r)
  BY <1>1, DropSpectatorShrinks, GoneFrom DEF Fit, DisconnectPeer, ShrinksBy
<1>2. CASE p \notin Spectators(r) /\ UsersOf(r, p) # {}
  <2> DEFINE u == LowestSeat(UsersOf(r, p))
             q == [r EXCEPT !.waiting[u].peer = NoPeer]
  <2>1. u \in UsersOf(r, p) /\ u \in Users
    BY <1>2, OnlyPlace, PlaceOf, SeatsFacts, LowestSeatIsLeast DEF UsersOf
  <2>2. DisconnectPeer(r, p) = q
    BY <1>2 DEF DisconnectPeer
  <2> HIDE DEF u
  <2>3. Shrinks(r, q) /\ q.waiting[u].peer = NoPeer
    BY <2>1, SlotTypes DEF Fit, RoomOK, RoomRecord, Member, Shrinks
  <2> HIDE DEF q
  <2> QED BY <2>1, <2>2, <2>3, GoneFrom DEF ShrinksBy
<1>3. CASE p \notin Spectators(r) /\ UsersOf(r, p) = {}
  <2> DEFINE s == LowestSeat(SeatsOf(r, p))
  <2>1. s \in SeatsOf(r, p) /\ s \in Seats
    BY <1>3, PlaceOf, SeatsFacts, LowestSeatIsLeast DEF Fit, SeatsOf
  <2>2. DisconnectPeer(r, p) = VacateSeat(r, s)
    BY <1>3 DEF DisconnectPeer
  <2> HIDE DEF s
  <2> QED BY <2>1, <2>2, VacateSeatShrinks, GoneFrom DEF Fit, ShrinksBy
<1> QED BY <1>1, <1>2, <1>3

-----------------------------------------------------------------------------
(* The start session and the game move no connection.                       *)

\* Beginning, aborting and committing a start, and forfeiting, move no connection to
\* another place.
LEMMA GameShrinks ==
  ASSUME NEW r, Live(r)
  PROVE  /\ Shrinks(r, BeginStart(r))
         /\ Shrinks(r, AbortStart(r))
         /\ Shrinks(r, CommitStart(r))
         /\ \A s \in Seats : Shrinks(r, Forfeit(r, s))
<1>1. Shrinks(r, BeginStart(r))
  BY DEF Live, RoomOK, RoomRecord, Shrinks, BeginStart
<1>2. Shrinks(r, AbortStart(r))
  BY DEF Live, RoomOK, RoomRecord, Shrinks, AbortStart
<1>3. Shrinks(r, CommitStart(r))
  BY SlotTypes DEF Live, RoomOK, RoomRecord, Slot, Shrinks, CommitStart, NoMember
<1>4. ASSUME NEW s \in Seats
      PROVE  Shrinks(r, Forfeit(r, s))
  BY DEF Live, RoomOK, RoomRecord, Shrinks, Forfeit
<1> QED BY <1>1, <1>2, <1>3, <1>4

=============================================================================
