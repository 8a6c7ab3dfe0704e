----------------------------- MODULE SeatLease -----------------------------
(***************************************************************************)
(* What the server promises about a seat, whatever the order of messages,  *)
(* timers and lost connections: a seat is leased to one user at a time.    *)
(*                                                                         *)
(*   - it changes hands only by being free in between;                     *)
(*   - a connection takes a leased seat only as its user, and only with a  *)
(*     generation newer than every earlier connection's;                   *)
(*   - a forfeited seat is never taken by a connection: it is freed, or,   *)
(*     when a rollback undid the forfeit, it is away first.                *)
(***************************************************************************)
EXTENDS Integers

CONSTANTS Users, Seats

VARIABLE lease   \* seat -> [kind, user, gen]

Free == [kind |-> "free", user |-> 0, gen |-> 0]
Held == [kind : {"held", "away", "lost"}, user : Users, gen : Nat \ {0}]

Init == lease = [s \in Seats |-> Free]

\* A free seat is claimed by a connection, or for a user who is away.
Claim(s) == lease[s] = Free /\ lease'[s].kind \in {"held", "away"}

\* The same user with a newer connection.
Renew(s) ==
  /\ lease[s].kind \in {"held", "away"}
  /\ lease'[s].kind = "held"
  /\ lease'[s].user = lease[s].user
  /\ lease'[s].gen > lease[s].gen

\* The connection is lost or leaves the game; a forfeit is taken note of.
Turn(s, from, to) ==
  /\ lease[s].kind \in from
  /\ lease'[s] = [lease[s] EXCEPT !.kind = to]

Release(s) == lease[s] # Free /\ lease'[s] = Free

SeatStep(s) ==
  \/ lease'[s] = lease[s]
  \/ Claim(s)
  \/ Renew(s)
  \/ Turn(s, {"held", "lost"}, "away")
  \/ Turn(s, {"held", "away"}, "lost")
  \/ Release(s)

\* One step of the server may concern several seats.
Next ==
  /\ lease' \in [Seats -> Held \cup {Free}]
  /\ \A s \in Seats : SeatStep(s)

Steps == [][Next]_lease
Spec  == Init /\ Steps
=============================================================================
