--------------------------- MODULE MCRoomServer ---------------------------
(***************************************************************************)
(* Small instances of RoomServer for TLC.                                  *)
(***************************************************************************)
EXTENDS RoomClaims

CONSTANTS p1, p2, p3, p4

Members(role, u, s, gens) == {[role |-> role, user |-> u, seat |-> s, gen |-> g] : g \in gens}

\* A normal room: user 1 is the host on seat 0, user 2 plays on seat 1 or
\* watches.  The player's tokens carry the generations of two earlier joins.
NormalTokens == Members("host", 1, 0, {1})
           \cup Members("player", 2, 1, {1, 2})
           \cup Members("spectator", 2, NoSeat, {NoGen})

\* A resume room, hosted by user 1.  User 2 left the archived game from seat 1
\* and is seated there at once when it is free; user 1 has to be assigned.
ResumeTokens == Members("host", 1, NoSeat, {1}) \cup Members("player", 2, NoSeat, {NoGen})
SecondBound  == [u \in Users |-> IF u = 2 THEN 1 ELSE NoSeat]

\* The resume run follows a room up to its end, with two losses pending.
ResumeBound == Len(timers) <= 2 /\ Len(room.forfeits) <= 1 /\ room.status # "Ended"

NoBinding   == [u \in Users |-> NoSeat]

\* A game of three that has just started: the connections p1, p2 and p3 said
\* hello with tokens of generation 1, took their seats and were all ready.
GameSlot(u, p) == SeatedSlot(IF u = 1 THEN "host" ELSE "player", u, p, 2)
GameRoom ==
  [NewRoom(FALSE, 3) EXCEPT
     !.status = "InGame", !.players = 3, !.hostSeat = 0, !.hostPeer = p1, !.mapped = {p1, p2, p3},
     !.slot = [s \in Seats |-> GameSlot(s + 1, CASE s = 0 -> p1 [] s = 1 -> p2 [] s = 2 -> p3)]]
GameInit ==
  /\ seen = {p1, p2, p3} /\ online = {p1, p2, p3} /\ members = {p1, p2, p3}
  /\ profile = [p \in Peers |-> CASE p = p1 -> 1 [] p = p2 -> 2 [] p = p3 -> 3 [] OTHER -> NoUser]
  /\ room = GameRoom
  /\ ticket = [k \in Keys |-> 0]
  /\ timers = << >>
GameSpec == GameInit /\ [][Next]_vars

\* The tokens of the guests who may come back or watch.
GameTokens == Members("player", 2, 1, {2})
=============================================================================
