----------------------------- MODULE RoomClaims -----------------------------
(***************************************************************************)
(* What the documents, comments and tests of the repository say of the     *)
(* room server and the code does not do: each property is refuted by a run *)
(* on RoomServer, and README.md tells the story of each counterexample.    *)
(***************************************************************************)
EXTENDS RoomServer

\* A disconnected player keeps the whole grace period to come back.  A ticket
\* number is reissued after a clear, so the timer of an earlier disconnection
\* can match the ticket of a later one and end it early.
FullGracePeriod ==
  [][(timers # << >> /\ timers' = Tail(timers) /\ room' # room) =>
       \A i \in 2..Len(timers) : timers[i].key # Head(timers).key]_vars

\* A forfeited seat is not given back to an acting player.  A rollback past
\* the forfeit and a reconnection do just that.
ForfeitIsFinal ==
  [][\A s \in Seats : room.slot[s].state = "FORFEITED" /\ room'.status = "InGame"
                        => room'.slot[s].state = "FORFEITED"]_vars
=============================================================================
