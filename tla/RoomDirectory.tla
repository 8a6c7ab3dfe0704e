---------------------------- MODULE RoomDirectory ----------------------------
(***************************************************************************)
(* The background jobs of the dedicated server and the backend they talk   *)
(* to: the directory of rooms kept by syncs and heartbeats, the snapshot   *)
(* on disk and the restart from it, and the report of a finished game.     *)
(*                                                                         *)
(* The server has three requests of its own, each awaited: a sync, a       *)
(* heartbeat and, per room, the report of its game.  They travel on        *)
(* connections of their own, so the backend may handle them in any order,  *)
(* and the server goes on while they are away.  A request may be lost      *)
(* before or after it was handled; MaxLost bounds how often, MaxStops how  *)
(* often the server stops.                                                 *)
(*                                                                         *)
(* A room is its status here; RoomServer has its members.  "Starting" is   *)
(* written to disk as Lobby (room.gd:72) and not told apart from it.       *)
(* There is one game server, which owns every row of the directory.        *)
(***************************************************************************)
EXTENDS Naturals

CONSTANTS Code, MaxStops, MaxLost

ASSUME BoundsAssumption == MaxStops \in Nat /\ MaxLost \in Nat

VARIABLES
  up,         \* "off", "starting" (the boot sync is awaited) or "on"
  rooms,      \* RoomManager.rooms: the status of each room, or "none"
  report,     \* match_finalize_in_flight / _reported of each room
  retry,      \* the rooms a retry timer of _schedule_finalize_retry is set for
  disk,       \* the snapshot on disk
  sync,       \* the sync request: where it is, what it says, what it skipped
  timer,      \* the debounce timer of the sync runs
  pending,    \* _room_directory_sync_pending
  beat,       \* the heartbeat: where it is, its codes, those that ended
  post,       \* the report of each room: where the request is
  row,        \* the status of each room in the backend's directory, or "none"
  tomb,       \* RoomTombstone: the codes of deleted rooms
  matches,    \* how often the backend stored the game of each room
  heard,      \* the last sync was answered with success
  unlearnt,   \* the rooms whose game was stored without the server learning it
  stops, lost \* counted against the bounds

server == <<up, rooms, report, retry, disk, sync, timer, pending, beat, post>>
backend == <<row, tomb, matches>>
vars == <<server, backend, heard, unlearnt, stops, lost>>

Active == {"Lobby", "InGame"}   \* ACTIVE_ROOM_STATUSES
Nobody == [c \in Code |-> "none"]
NoSync == [at |-> "idle", said |-> Nobody, skipped |-> {}]
NoBeat == [at |-> "idle", codes |-> {}, ended |-> {}]

TypeOK ==
  /\ up \in {"off", "starting", "on"}
  /\ rooms \in [Code -> Active \cup {"none", "Ended"}]
  /\ report \in [Code -> {"idle", "in flight", "reported"}]
  /\ retry \subseteq Code
  /\ disk \in [Code -> Active \cup {"none"}]
  /\ sync \in [at : {"idle", "sent", "answered"}, said : [Code -> Active \cup {"none"}],
               skipped : SUBSET Code]
  /\ timer \in BOOLEAN /\ pending \in BOOLEAN
  /\ beat \in [at : {"idle", "sent", "answered"}, codes : SUBSET Code, ended : SUBSET Code]
  /\ post \in [Code -> {"none", "sent", "stored"}]
  /\ row \in [Code -> Active \cup {"none", "Pending", "Ended"}]
  /\ tomb \subseteq Code
  /\ matches \in [Code -> Nat]
  /\ heard \in BOOLEAN /\ unlearnt \subseteq Code
  /\ stops \in 0..MaxStops /\ lost \in 0..MaxLost

Init ==
  /\ up = "off" /\ rooms = Nobody /\ report = [c \in Code |-> "idle"] /\ retry = {}
  /\ disk = Nobody /\ sync = NoSync /\ timer = FALSE /\ pending = FALSE
  /\ beat = NoBeat /\ post = Nobody
  /\ row = Nobody /\ tomb = {} /\ matches = [c \in Code |-> 0]
  /\ heard = FALSE /\ unlearnt = {} /\ stops = 0 /\ lost = 0

-----------------------------------------------------------------------------
\* What the server reads of its rooms.

ActiveIn(rs) == {c \in Code : rs[c] \in Active}

\* Mutant of Snapshot: ended rooms are in it.
SnapshotOfAll(rs) == rs

\* An ended room is left out of every snapshot.
Snapshot(rs) == [c \in Code |-> IF rs[c] \in Active THEN rs[c] ELSE "none"]

\* A change of the directory: remembered while a sync is away, else the timer
\* is started.  While the server starts nobody listens to the signal.
Dirty ==
  /\ pending' = (pending \/ (up = "on" /\ sync.at # "idle"))
  /\ timer' = (timer \/ (up = "on" /\ sync.at = "idle"))

\* The flags of a room go with the room.  A report still on its way is no
\* longer followed: it has a copy of the result and the backend may store it,
\* but whether it does is only counted for a room that is there.
Forget(gone) ==
  /\ report' = [c \in Code |-> IF c \in gone THEN "idle" ELSE report[c]]
  /\ post' = [c \in Code |-> IF c \in gone THEN "none" ELSE post[c]]

\* Mutant of Prune: a room in a game stays.
PruneLobbies(codes) ==
  LET gone == {c \in codes : rooms[c] = "Lobby"}
      left == [c \in Code |-> IF c \in gone THEN "none" ELSE rooms[c]]
  IN /\ rooms' = left
     /\ Forget(gone)
     /\ disk' = IF gone # {} THEN Snapshot(left) ELSE disk

\* The rooms the backend says have ended are removed, whatever their status.
Prune(codes) ==
  LET gone == {c \in codes : rooms[c] # "none"}
      left == [c \in Code |-> IF c \in gone THEN "none" ELSE rooms[c]]
  IN /\ rooms' = left
     /\ Forget(gone)
     /\ disk' = IF gone # {} THEN Snapshot(left) ELSE disk

-----------------------------------------------------------------------------
\* The rooms.

\* A host arrives with the token of a room the portal created, or asks for a
\* room of his own.  A room that is not in memory is created, whatever became
\* of its row since.  Its game is a new one, but while the server starts: then
\* the snapshot replaces it.
CreateRoom(c) ==
  /\ up # "off" /\ rooms[c] = "none"
  /\ rooms' = [rooms EXCEPT ![c] = "Lobby"]
  /\ matches' = IF up = "on" THEN [matches EXCEPT ![c] = 0] ELSE matches
  /\ unlearnt' = IF up = "on" THEN unlearnt \ {c} ELSE unlearnt
  /\ Dirty
  /\ UNCHANGED <<up, report, retry, disk, sync, beat, post, row, tomb, heard, stops, lost>>

StartGame(c) ==
  /\ up # "off" /\ rooms[c] = "Lobby"
  /\ rooms' = [rooms EXCEPT ![c] = "InGame"]
  /\ Dirty
  /\ UNCHANGED <<up, report, retry, disk, sync, beat, post, backend, heard, unlearnt, stops, lost>>

\* The last member leaves the lobby.  A room in a game keeps its seats.
LeaveLobby(c) ==
  /\ up # "off" /\ rooms[c] = "Lobby"
  /\ rooms' = [rooms EXCEPT ![c] = "none"]
  /\ Dirty
  /\ UNCHANGED <<up, report, retry, disk, sync, beat, post, backend, heard, unlearnt, stops, lost>>

\* Somebody joins or leaves and the room stays: the status is the same.
MembersChange(c) ==
  /\ up # "off" /\ rooms[c] # "none"
  /\ Dirty
  /\ UNCHANGED <<up, rooms, report, retry, disk, sync, beat, post, backend, heard,
                 unlearnt, stops, lost>>

\* _try_finalize_match_if_game_over: the directory is not marked dirty.  (A
\* game takes longer than the server takes to start.)
GameOver(c) ==
  /\ up = "on" /\ rooms[c] = "InGame"
  /\ rooms' = [rooms EXCEPT ![c] = "Ended"]
  /\ report' = [report EXCEPT ![c] = "in flight"]
  /\ post' = [post EXCEPT ![c] = "sent"]
  /\ UNCHANGED <<up, retry, disk, sync, timer, pending, beat, backend, heard, unlearnt,
                 stops, lost>>

-----------------------------------------------------------------------------
\* The report of a finished game.

\* backend, finalize: each call stores a match.
StoreMatch(c) ==
  /\ post[c] = "sent"
  /\ matches' = [matches EXCEPT ![c] = @ + 1]
  /\ post' = [post EXCEPT ![c] = "stored"]
  /\ UNCHANGED <<up, rooms, report, retry, disk, sync, timer, pending, beat, row, tomb,
                 heard, unlearnt, stops, lost>>

\* Mutant of ReportAnswered: an answer that is good is taken for a failure.
ReportAnsweredAsFailure(c) ==
  /\ post[c] = "stored"
  /\ post' = [post EXCEPT ![c] = "none"]
  /\ report' = [report EXCEPT ![c] = "idle"]
  /\ retry' = retry \cup {c}
  /\ UNCHANGED <<up, rooms, disk, sync, timer, pending, beat, backend, heard, unlearnt,
                 stops, lost>>

ReportAnswered(c) ==
  /\ post[c] = "stored"
  /\ post' = [post EXCEPT ![c] = "none"]
  /\ report' = [report EXCEPT ![c] = "reported"]
  /\ UNCHANGED <<up, rooms, retry, disk, sync, timer, pending, beat, backend, heard,
                 unlearnt, stops, lost>>

\* Mutant of ReportFailed: no retry is scheduled.
ReportFailedForGood(c) ==
  /\ lost < MaxLost /\ lost' = lost + 1
  /\ post[c] # "none"
  /\ post' = [post EXCEPT ![c] = "none"]
  /\ report' = [report EXCEPT ![c] = "idle"]
  /\ unlearnt' = IF post[c] = "stored" THEN unlearnt \cup {c} ELSE unlearnt
  /\ UNCHANGED <<up, rooms, retry, disk, sync, timer, pending, beat, backend, heard, stops>>

\* The request failed, or its answer did: try again in five seconds.
ReportFailed(c) ==
  /\ lost < MaxLost /\ lost' = lost + 1
  /\ post[c] # "none"
  /\ post' = [post EXCEPT ![c] = "none"]
  /\ report' = [report EXCEPT ![c] = "idle"]
  /\ retry' = retry \cup {c}
  /\ unlearnt' = IF post[c] = "stored" THEN unlearnt \cup {c} ELSE unlearnt
  /\ UNCHANGED <<up, rooms, disk, sync, timer, pending, beat, backend, heard, stops>>

\* _retry_finalize_room: a room that was removed since is not found.
RetryReport(c) ==
  /\ c \in retry
  /\ retry' = retry \ {c}
  /\ IF rooms[c] = "Ended" /\ report[c] = "idle"
     THEN /\ report' = [report EXCEPT ![c] = "in flight"]
          /\ post' = [post EXCEPT ![c] = "sent"]
     ELSE UNCHANGED <<report, post>>
  /\ UNCHANGED <<up, rooms, disk, sync, timer, pending, beat, backend, heard, unlearnt,
                 stops, lost>>

-----------------------------------------------------------------------------
\* The sync of the directory.

FlushSync ==
  /\ timer
  /\ timer' = FALSE
  /\ sync' = [NoSync EXCEPT !.at = "sent", !.said = Snapshot(rooms)]
  /\ UNCHANGED <<up, rooms, report, retry, disk, pending, beat, post, backend, heard,
                 unlearnt, stops, lost>>

Over(c) == row[c] = "Ended" \/ c \in tomb

\* Mutant of Synced: a room that is over is written like any other.
SyncedReviving(said) ==
  [c \in Code |->
    CASE said[c] # "none" -> said[c]
      [] said[c] = "none" /\ row[c] \in Active -> "Ended"
      [] OTHER -> row[c]]

\* backend, sync_room_directory: a room that is over is skipped, the others
\* are written, and the active rows the server did not name are ended.
Synced(said) ==
  [c \in Code |->
    CASE said[c] # "none" /\ ~Over(c) -> said[c]
      [] said[c] = "none" /\ row[c] \in Active -> "Ended"
      [] OTHER -> row[c]]

BackendSync ==
  /\ sync.at = "sent"
  /\ row' = Synced(sync.said)
  /\ sync' = [sync EXCEPT !.at = "answered",
                          !.skipped = {c \in ActiveIn(sync.said) : Over(c)}]
  /\ UNCHANGED <<up, rooms, report, retry, disk, timer, pending, beat, post, tomb, matches,
                 heard, unlearnt, stops, lost>>

\* Mutant of EndOfFlush: what became dirty meanwhile is forgotten.
EndOfFlushForgetting == timer' = FALSE /\ pending' = FALSE /\ sync' = NoSync

\* The end of a flush: what became dirty meanwhile starts the timer again.
EndOfFlush == timer' = pending /\ pending' = FALSE /\ sync' = NoSync

SyncAnswered ==
  /\ up = "on" /\ sync.at = "answered"
  /\ Prune(sync.skipped)
  /\ EndOfFlush
  /\ heard' = TRUE
  /\ UNCHANGED <<up, retry, beat, backend, unlearnt, stops, lost>>

\* A failed sync is logged and not tried again.
SyncFailed ==
  /\ lost < MaxLost /\ lost' = lost + 1
  /\ up = "on" /\ sync.at # "idle"
  /\ EndOfFlush
  /\ heard' = FALSE
  /\ UNCHANGED <<up, rooms, report, retry, disk, beat, post, backend, unlearnt, stops>>

-----------------------------------------------------------------------------
\* The heartbeat.

BeatWith(rs) == [NoBeat EXCEPT !.at = "sent", !.codes = ActiveIn(rs)]

SendHeartbeat ==
  /\ up = "on" /\ beat.at = "idle"
  /\ beat' = BeatWith(rooms)
  /\ UNCHANGED <<up, rooms, report, retry, disk, sync, timer, pending, post, backend, heard,
                 unlearnt, stops, lost>>

\* Mutant of Beaten: rows that are not reported are left as they are.
BeatenWithoutGC(codes) ==
  [c \in Code |-> IF c \in codes /\ row[c] = "Pending" THEN "Lobby" ELSE row[c]]

\* backend, heartbeat: a pending room that is reported becomes a lobby, an
\* active row that is not reported is ended.
Beaten(codes) ==
  [c \in Code |->
    CASE c \in codes /\ row[c] = "Pending" -> "Lobby"
      [] c \notin codes /\ row[c] \in Active -> "Ended"
      [] OTHER -> row[c]]

BackendHeartbeat ==
  /\ beat.at = "sent"
  /\ row' = Beaten(beat.codes)
  /\ beat' = [beat EXCEPT !.at = "answered", !.ended = {c \in beat.codes : Over(c)}]
  /\ UNCHANGED <<up, rooms, report, retry, disk, sync, timer, pending, post, tomb, matches,
                 heard, unlearnt, stops, lost>>

HeartbeatAnswered ==
  /\ up = "on" /\ beat.at = "answered"
  /\ Prune(beat.ended)
  /\ beat' = NoBeat
  /\ UNCHANGED <<up, retry, sync, timer, pending, backend, heard, unlearnt, stops, lost>>

HeartbeatFailed ==
  /\ lost < MaxLost /\ lost' = lost + 1
  /\ up = "on" /\ beat.at # "idle"
  /\ beat' = NoBeat
  /\ UNCHANGED <<up, rooms, report, retry, disk, sync, timer, pending, post, backend, heard,
                 unlearnt, stops>>

-----------------------------------------------------------------------------
\* The snapshot on disk, stops and restarts.

PersistRooms ==
  /\ up = "on" /\ disk # Snapshot(rooms)
  /\ disk' = Snapshot(rooms)
  /\ UNCHANGED <<up, rooms, report, retry, sync, timer, pending, beat, post, backend, heard,
                 unlearnt, stops, lost>>

\* What dies with the process.  A request the backend has not handled is cut
\* off with its connection.
Down ==
  /\ up' = "off" /\ rooms' = Nobody /\ report' = [c \in Code |-> "idle"] /\ retry' = {}
  /\ sync' = NoSync /\ timer' = FALSE /\ pending' = FALSE /\ beat' = NoBeat
  /\ post' = Nobody /\ heard' = FALSE
  /\ stops < MaxStops /\ stops' = stops + 1

\* A crash.  A game the backend has and the disk still has is played on.
Crash ==
  /\ up # "off" /\ Down
  /\ unlearnt' = unlearnt \cup {c \in Code : matches[c] > 0 /\ disk[c] # "none"}
  /\ UNCHANGED <<disk, backend, lost>>

\* The server listens at once, then sends its snapshot to the backend.
Boot ==
  /\ up = "off"
  /\ up' = "starting"
  /\ sync' = [NoSync EXCEPT !.at = "sent", !.said = disk]
  /\ UNCHANGED <<rooms, report, retry, disk, timer, pending, beat, post, backend, heard,
                 unlearnt, stops, lost>>

\* The snapshot without the rooms that were skipped replaces the rooms, also
\* those that were created while the answer was awaited; it is written to
\* disk, and the first heartbeat leaves.
Restore(skipped) ==
  LET kept == [c \in Code |-> IF c \in skipped THEN "none" ELSE sync.said[c]]
  IN /\ up' = "on" /\ rooms' = kept /\ disk' = kept
     /\ Forget(Code)
     /\ sync' = NoSync /\ beat' = BeatWith(kept)
     /\ UNCHANGED <<timer, pending>>

BootAnswered ==
  /\ up = "starting" /\ sync.at = "answered"
  /\ Restore(sync.skipped)
  /\ heard' = TRUE
  /\ UNCHANGED <<retry, backend, unlearnt, stops, lost>>

\* Without an answer the whole snapshot is restored.
BootUnanswered ==
  /\ lost < MaxLost /\ lost' = lost + 1
  /\ up = "starting"
  /\ Restore({})
  /\ heard' = FALSE
  /\ UNCHANGED <<retry, backend, unlearnt, stops>>

\* The archive of a game does not load: the server quits, and on its way out
\* writes the rooms it had restored before (those of `first`) over the disk.
RestoreFailed(c, first) ==
  LET kept == [d \in Code |-> IF d \in first THEN sync.said[d] ELSE "none"]
  IN /\ up = "starting"
     /\ sync.said[c] = "InGame" /\ c \notin sync.skipped \cup first
     /\ Down
     /\ disk' = kept
     /\ unlearnt' = unlearnt \cup {d \in Code : matches[d] > 0 /\ kept[d] # "none"}
     /\ UNCHANGED <<backend, lost>>

-----------------------------------------------------------------------------
\* The portal and the operators, who write the directory themselves.

PortalCreates(c) ==
  /\ row[c] = "none" /\ c \notin tomb
  /\ row' = [row EXCEPT ![c] = "Pending"]
  /\ UNCHANGED <<server, tomb, matches, heard, unlearnt, stops, lost>>

OperatorEnds(c) ==
  /\ row[c] \notin {"none", "Ended"}
  /\ row' = [row EXCEPT ![c] = "Ended"]
  /\ UNCHANGED <<server, tomb, matches, heard, unlearnt, stops, lost>>

OperatorDeletes(c) ==
  /\ row[c] # "none"
  /\ row' = [row EXCEPT ![c] = "none"]
  /\ tomb' = tomb \cup {c}
  /\ UNCHANGED <<server, matches, heard, unlearnt, stops, lost>>

-----------------------------------------------------------------------------
\* A step about one room: of its members, its report, the portal, an operator.
RoomStep(c) ==
  \/ CreateRoom(c) \/ StartGame(c) \/ LeaveLobby(c) \/ MembersChange(c) \/ GameOver(c)
  \/ StoreMatch(c) \/ ReportAnswered(c) \/ ReportFailed(c) \/ RetryReport(c)
  \/ PortalCreates(c) \/ OperatorEnds(c) \/ OperatorDeletes(c)
  \/ \E first \in SUBSET ActiveIn(sync.said) : RestoreFailed(c, first)

\* A step of the server's jobs, or of the backend for them.
JobStep ==
  \/ FlushSync \/ BackendSync \/ SyncAnswered \/ SyncFailed
  \/ SendHeartbeat \/ BackendHeartbeat \/ HeartbeatAnswered \/ HeartbeatFailed
  \/ PersistRooms \/ Crash \/ Boot \/ BootAnswered \/ BootUnanswered

Next == (\E c \in Code : RoomStep(c)) \/ JobStep

Spec == Init /\ [][Next]_vars

\* Timers fire and requests that are not lost are handled and answered; what
\* players, portal and operators do is their own choice.
Fairness ==
  /\ \A c \in Code : WF_vars(StoreMatch(c)) /\ WF_vars(ReportAnswered(c)) /\ WF_vars(RetryReport(c))
  /\ WF_vars(FlushSync) /\ WF_vars(BackendSync) /\ WF_vars(SyncAnswered)
  /\ WF_vars(SendHeartbeat) /\ WF_vars(BackendHeartbeat) /\ WF_vars(HeartbeatAnswered)

FairSpec == Spec /\ Fairness

-----------------------------------------------------------------------------
\* Properties.

\* A room that is over in the directory, ended or deleted, is never active or
\* pending in it again: not by a heartbeat or a sync that left before, not by
\* the snapshot of a server that was down meanwhile (internal.py, "Ended
\* rooms must never be revived").
NeverRevived == [][\A c \in Code : Over(c) => row'[c] \in {"none", "Ended"}]_vars

\* While the server is on, each room lives as RoomServer's does: what the jobs
\* and the backend do to it is within the same life.
Life == INSTANCE RoomLife WITH
          status <- [c \in Code |-> IF up = "on" THEN rooms[c] ELSE "none"]
ImplementsLife == Life!Spec

\* When the server is at rest and its last sync was heard, the directory has
\* the present status of each of its rooms, or has ended the room: no change
\* made while a sync was away is forgotten (_room_directory_sync_pending).
SettledAgrees ==
  up = "on" /\ sync.at = "idle" /\ ~timer /\ heard =>
    \A c \in Code : rooms[c] \in Active => row[c] = rooms[c] \/ Over(c)

\* The game of a room is stored once, but for the games whose first report
\* the server lost track of: its answer was lost, or the server crashed
\* before the snapshot on disk knew that the game is over.
ReportedOnce == \A c \in Code : matches[c] > 1 => c \in unlearnt

\* A room the directory has ended does not stay active on the server: a
\* heartbeat or a sync brings the news and the room is removed.
RemoteEndReachesServer ==
  \A c \in Code : (up = "on" /\ rooms[c] \in Active /\ Over(c))
                    ~> ~(up = "on" /\ rooms[c] \in Active /\ Over(c))

\* A room the server no longer has does not stay active in the directory,
\* also when nothing else marks the directory dirty, as after a game.
GhostsLeaveDirectory ==
  \A c \in Code : (up = "on" /\ rooms[c] \notin Active /\ row[c] \in Active)
                    ~> ~(up = "on" /\ rooms[c] \notin Active /\ row[c] \in Active)

\* A finished game is reported, through lost requests and answers, unless its
\* room is removed or the server stops first.
EndedIsReported ==
  \A c \in Code : rooms[c] = "Ended" ~> (rooms[c] # "Ended" \/ report[c] = "reported")

\* Refuted: the backend ends by itself only the rooms the server no longer
\* has (heartbeat: "rooms previously on this game server but no longer
\* present -> Ended").  A heartbeat or a sync that left before the room was
\* there may be handled after the other one brought it into the directory.
EndsOnlyAbsentRooms ==
  [][(sync' # sync \/ beat' # beat) /\ up = "on" =>
       \A c \in Code : row[c] \in Active /\ row'[c] = "Ended" => rooms[c] \notin Active]_vars
=============================================================================
