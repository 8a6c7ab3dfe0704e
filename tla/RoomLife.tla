------------------------------ MODULE RoomLife ------------------------------
(***************************************************************************)
(* The life of a room as the jobs of the server see it, by its status      *)
(* alone: it appears as a lobby, or in a game when it is restored; a lobby *)
(* starts its game, a game ends, nothing goes back; and a room may vanish. *)
(***************************************************************************)
CONSTANT Code

VARIABLE status   \* code -> "none", "Lobby", "InGame" or "Ended"

Init == status = [c \in Code |-> "none"]

Moves == {<<"none", "Lobby">>, <<"none", "InGame">>,      \* created, restored
          <<"Lobby", "InGame">>, <<"InGame", "Ended">>,   \* started, over
          <<"Lobby", "none">>, <<"InGame", "none">>, <<"Ended", "none">>}

\* One step may concern several rooms.
Next ==
  /\ status' \in [Code -> {"none", "Lobby", "InGame", "Ended"}]
  /\ \A c \in Code : status'[c] = status[c] \/ <<status[c], status'[c]>> \in Moves

Spec == Init /\ [][Next]_status
=============================================================================
