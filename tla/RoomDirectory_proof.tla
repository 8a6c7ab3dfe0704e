------------------------ MODULE RoomDirectory_proof ------------------------
(***************************************************************************)
(* Theorems about RoomDirectory, for any number of rooms, of stops and of  *)
(* lost requests: nothing that is over comes back, a settled directory     *)
(* agrees with the server, a game is stored once while the server learns   *)
(* what becomes of its reports, and the jobs let each room live as its     *)
(* members do.                                                             *)
(***************************************************************************)
EXTENDS RoomDirectory, TLAPS

\* A count that is below its bound may go up by one.
LEMMA CountStaysBounded ==
  ASSUME NEW max \in Nat, NEW n \in 0..max, n < max
  PROVE  n + 1 \in 0..max
OBVIOUS

\* A report is under way for an ended room only, whose flag says so, and a
\* server that is not on has no ended room and no sync to send.
Followed(c) ==
  /\ timer => up = "on"
  /\ up # "on" => rooms[c] # "Ended"
  /\ post[c] # "none" => rooms[c] = "Ended" /\ report[c] = "in flight"

\* The game of the room is stored once at most, and not at all while it may
\* still be reported: from now, from a retry, or after a restart.
Clean(c) ==
  /\ matches[c] = 0 \/ matches[c] = 1
  /\ post[c] = "sent" => matches[c] = 0
  /\ up = "on" /\ rooms[c] \in Active => matches[c] = 0
  /\ rooms[c] = "Ended" /\ report[c] = "idle" => matches[c] = 0
  /\ up # "on" /\ disk[c] # "none" => matches[c] = 0
  /\ up = "starting" /\ sync.said[c] # "none" => matches[c] = 0

\* What the server follows of its reports, and what it need not.
ReportInv == \A c \in Code : Followed(c) /\ (c \notin unlearnt => Clean(c))

\* What a sync says is still true of the rooms unless something is pending,
\* and what the backend answered is still true of the rows.
SettleInv ==
  /\ SettledAgrees
  /\ up = "on" /\ sync.at # "idle" /\ ~pending =>
       \A c \in Code : rooms[c] \in Active => sync.said[c] = rooms[c]
  /\ sync.at = "answered" =>
       \A c \in Code : sync.said[c] # "none" => row[c] = sync.said[c] \/ Over(c)

-----------------------------------------------------------------------------
(* Types *)

\* Every step keeps the types.
LEMMA TypeStep == TypeOK /\ [Next]_vars => TypeOK'
<1> SUFFICES ASSUME TypeOK, [Next]_vars PROVE TypeOK'
  OBVIOUS

<1>1. ASSUME NEW c \in Code, CreateRoom(c) PROVE TypeOK'
  BY <1>1 DEF CreateRoom, TypeOK, Active, server, backend, Dirty
<1>2. ASSUME NEW c \in Code, StartGame(c) PROVE TypeOK'
  BY <1>2 DEF StartGame, TypeOK, Active, server, backend, Dirty
<1>3. ASSUME NEW c \in Code, LeaveLobby(c) PROVE TypeOK'
  BY <1>3 DEF LeaveLobby, TypeOK, Active, server, backend, Dirty
<1>4. ASSUME NEW c \in Code, MembersChange(c) PROVE TypeOK'
  BY <1>4 DEF MembersChange, TypeOK, Active, server, backend, Dirty
<1>5. ASSUME NEW c \in Code, GameOver(c) PROVE TypeOK'
  BY <1>5 DEF GameOver, TypeOK, Active, server, backend
<1>6. ASSUME NEW c \in Code, StoreMatch(c) PROVE TypeOK'
  <2>1. matches' \in [Code -> Nat]
    <3> DEFINE more == matches[c] + 1
    <3>1. matches \in [Code -> Nat] /\ matches' = [matches EXCEPT ![c] = more]
      BY <1>6 DEF StoreMatch, TypeOK
    <3>2. more \in Nat
      <4>1. matches[c] \in Nat
        BY <3>1
      <4> QED BY <4>1
    <3> HIDE DEF more
    <3> QED BY <3>1, <3>2
  <2>2. /\ post' \in [Code -> {"none", "sent", "stored"}]
        /\ UNCHANGED <<up, rooms, report, retry, disk, sync, timer, pending, beat, row, tomb,
                       heard, unlearnt, stops, lost>>
    BY <1>6 DEF StoreMatch, TypeOK
  <2> QED BY <2>1, <2>2 DEF TypeOK, Active
<1>7. ASSUME NEW c \in Code, ReportAnswered(c) PROVE TypeOK'
  BY <1>7 DEF ReportAnswered, TypeOK, Active, server, backend
<1>8. ASSUME NEW c \in Code, ReportFailed(c) PROVE TypeOK'
  <2>1. lost' \in 0..MaxLost
    BY <1>8, CountStaysBounded, BoundsAssumption DEF ReportFailed, TypeOK
  <2>2. /\ post' \in [Code -> {"none", "sent", "stored"}]
        /\ report' \in [Code -> {"idle", "in flight", "reported"}]
    <3>1. /\ post \in [Code -> {"none", "sent", "stored"}]
          /\ report \in [Code -> {"idle", "in flight", "reported"}]
      BY DEF TypeOK
    <3>2. post' = [post EXCEPT ![c] = "none"] /\ report' = [report EXCEPT ![c] = "idle"]
      BY <1>8 DEF ReportFailed
    <3> QED BY <3>1, <3>2
  <2>3. retry' \subseteq Code /\ unlearnt' \subseteq Code
    <3>1. retry \subseteq Code /\ unlearnt \subseteq Code
      BY DEF TypeOK
    <3>2. retry' = retry \cup {c} /\ (unlearnt' = unlearnt \cup {c} \/ unlearnt' = unlearnt)
      BY <1>8 DEF ReportFailed
    <3> QED BY <3>1, <3>2
  <2>4. UNCHANGED <<up, rooms, disk, sync, timer, pending, beat, row, tomb, matches, heard, stops>>
    BY <1>8 DEF ReportFailed, backend
  <2> QED BY <2>1, <2>2, <2>3, <2>4 DEF TypeOK
<1>9. ASSUME NEW c \in Code, RetryReport(c) PROVE TypeOK'
  <2>1. /\ post' \in [Code -> {"none", "sent", "stored"}]
        /\ report' \in [Code -> {"idle", "in flight", "reported"}]
    <3>1. /\ post \in [Code -> {"none", "sent", "stored"}]
          /\ report \in [Code -> {"idle", "in flight", "reported"}]
      BY DEF TypeOK
    <3>2. \/ post' = post /\ report' = report
          \/ post' = [post EXCEPT ![c] = "sent"] /\ report' = [report EXCEPT ![c] = "in flight"]
      BY <1>9 DEF RetryReport
    <3> QED BY <3>1, <3>2
  <2>3. retry' \subseteq Code
    <3>1. retry \subseteq Code /\ retry' = retry \ {c}
      BY <1>9 DEF RetryReport, TypeOK
    <3> QED BY <3>1
  <2>2. UNCHANGED <<up, rooms, disk, sync, timer, pending, beat, row, tomb, matches, heard,
                    unlearnt, stops, lost>>
    BY <1>9 DEF RetryReport, backend
  <2> QED BY <2>1, <2>2, <2>3 DEF TypeOK
<1>10. ASSUME NEW c \in Code, PortalCreates(c) PROVE TypeOK'
  <2>1. row' \in [Code -> Active \cup {"none", "Pending", "Ended"}] /\ tomb' \subseteq Code
    BY <1>10 DEF PortalCreates, TypeOK
  <2>2. UNCHANGED <<server, matches, heard, unlearnt, stops, lost>>
    BY <1>10 DEF PortalCreates
  <2> QED BY <2>1, <2>2 DEF TypeOK, server
<1>11. ASSUME NEW c \in Code, OperatorEnds(c) PROVE TypeOK'
  <2>1. row' \in [Code -> Active \cup {"none", "Pending", "Ended"}] /\ tomb' \subseteq Code
    BY <1>11 DEF OperatorEnds, TypeOK
  <2>2. UNCHANGED <<server, matches, heard, unlearnt, stops, lost>>
    BY <1>11 DEF OperatorEnds
  <2> QED BY <2>1, <2>2 DEF TypeOK, server
<1>12. ASSUME NEW c \in Code, OperatorDeletes(c) PROVE TypeOK'
  <2>1. row' \in [Code -> Active \cup {"none", "Pending", "Ended"}] /\ tomb' \subseteq Code
    <3>1. row \in [Code -> Active \cup {"none", "Pending", "Ended"}] /\ tomb \subseteq Code
      BY DEF TypeOK
    <3>2. row' = [row EXCEPT ![c] = "none"] /\ tomb' = tomb \cup {c}
      BY <1>12 DEF OperatorDeletes
    <3> QED BY <3>1, <3>2
  <2>2. UNCHANGED <<server, matches, heard, unlearnt, stops, lost>>
    BY <1>12 DEF OperatorDeletes
  <2> QED BY <2>1, <2>2 DEF TypeOK, server
<1>13. ASSUME NEW c \in Code, NEW first \in SUBSET ActiveIn(sync.said),
             RestoreFailed(c, first)
      PROVE  TypeOK'
  <2>1. stops' \in 0..MaxStops
    BY <1>13, CountStaysBounded, BoundsAssumption DEF RestoreFailed, TypeOK, Down
  <2> QED BY <1>13, <2>1 DEF RestoreFailed, TypeOK, Active, server, backend, Down, Nobody, NoSync, NoBeat, ActiveIn
<1>14. CASE FlushSync
  BY <1>14 DEF FlushSync, TypeOK, Active, server, backend, Snapshot, NoSync, Nobody
<1>15. CASE BackendSync
  BY <1>15 DEF BackendSync, TypeOK, Active, server, backend, Synced, ActiveIn, Over
<1>16. CASE SyncAnswered
  BY <1>16 DEF SyncAnswered, TypeOK, Active, server, backend, Prune, Forget, Snapshot, EndOfFlush, NoSync, Nobody
<1>17. CASE SyncFailed
  <2>1. lost' \in 0..MaxLost
    BY <1>17, CountStaysBounded, BoundsAssumption DEF SyncFailed, TypeOK, Down
  <2> QED BY <1>17, <2>1 DEF SyncFailed, TypeOK, Active, server, backend, EndOfFlush, NoSync, Nobody
<1>18. CASE SendHeartbeat
  BY <1>18 DEF SendHeartbeat, TypeOK, Active, server, backend, BeatWith, NoBeat, ActiveIn
<1>19. CASE BackendHeartbeat
  BY <1>19 DEF BackendHeartbeat, TypeOK, Active, server, backend, Beaten, Over
<1>20. CASE HeartbeatAnswered
  BY <1>20 DEF HeartbeatAnswered, TypeOK, Active, server, backend, Prune, Forget, Snapshot, NoBeat
<1>21. CASE HeartbeatFailed
  <2>1. lost' \in 0..MaxLost
    BY <1>21, CountStaysBounded, BoundsAssumption DEF HeartbeatFailed, TypeOK, Down
  <2> QED BY <1>21, <2>1 DEF HeartbeatFailed, TypeOK, Active, server, backend, NoBeat
<1>22. CASE PersistRooms
  BY <1>22 DEF PersistRooms, TypeOK, Active, server, backend, Snapshot
<1>23. CASE Crash
  <2>1. stops' \in 0..MaxStops
    BY <1>23, CountStaysBounded, BoundsAssumption DEF Crash, TypeOK, Down
  <2> QED BY <1>23, <2>1 DEF Crash, TypeOK, Active, server, backend, Down, Nobody, NoSync, NoBeat
<1>24. CASE Boot
  BY <1>24 DEF Boot, TypeOK, Active, server, backend, NoSync, Nobody
<1>25. CASE BootAnswered
  BY <1>25 DEF BootAnswered, TypeOK, Active, server, backend, Restore, Forget, NoSync, Nobody, BeatWith, NoBeat, ActiveIn
<1>26. CASE BootUnanswered
  <2>1. lost' \in 0..MaxLost
    BY <1>26, CountStaysBounded, BoundsAssumption DEF BootUnanswered, TypeOK, Down
  <2> QED BY <1>26, <2>1 DEF BootUnanswered, TypeOK, Active, server, backend, Restore, Forget, NoSync, Nobody, BeatWith, NoBeat, ActiveIn
<1>27. CASE UNCHANGED vars
  BY <1>27 DEF vars, TypeOK, Active, server, backend
<1> QED BY <1>1, <1>2, <1>3, <1>4, <1>5, <1>6, <1>7, <1>8, <1>9, <1>10, <1>11, <1>12, <1>13, <1>14, <1>15, <1>16, <1>17, <1>18, <1>19, <1>20, <1>21, <1>22, <1>23, <1>24, <1>25, <1>26, <1>27 DEF Next, RoomStep, JobStep

-----------------------------------------------------------------------------
(* Deleted rooms *)

\* A code with a tombstone has no row.
TombsAreGone == \A c \in tomb : row[c] = "none"

\* Every step keeps deleted rooms out of the directory.
LEMMA TombStep == TypeOK /\ TombsAreGone /\ [Next]_vars => TombsAreGone'
<1> SUFFICES ASSUME TypeOK, TombsAreGone, [Next]_vars PROVE TombsAreGone'
  OBVIOUS
<1>0. row \in [Code -> Active \cup {"none", "Pending", "Ended"}] /\ tomb \subseteq Code
  BY DEF TypeOK
<1>1. ASSUME NEW c \in Code, CreateRoom(c) PROVE TombsAreGone'
  BY <1>1 DEF CreateRoom, TombsAreGone, TypeOK, Active, server, backend, Dirty
<1>2. ASSUME NEW c \in Code, StartGame(c) PROVE TombsAreGone'
  BY <1>2 DEF StartGame, TombsAreGone, TypeOK, Active, server, backend, Dirty
<1>3. ASSUME NEW c \in Code, LeaveLobby(c) PROVE TombsAreGone'
  BY <1>3 DEF LeaveLobby, TombsAreGone, TypeOK, Active, server, backend, Dirty
<1>4. ASSUME NEW c \in Code, MembersChange(c) PROVE TombsAreGone'
  BY <1>4 DEF MembersChange, TombsAreGone, TypeOK, Active, server, backend, Dirty
<1>5. ASSUME NEW c \in Code, GameOver(c) PROVE TombsAreGone'
  BY <1>5 DEF GameOver, TombsAreGone, TypeOK, Active, server, backend
<1>6. ASSUME NEW c \in Code, StoreMatch(c) PROVE TombsAreGone'
  BY <1>6 DEF StoreMatch, TombsAreGone, TypeOK, Active, server, backend
<1>7. ASSUME NEW c \in Code, ReportAnswered(c) PROVE TombsAreGone'
  BY <1>7 DEF ReportAnswered, TombsAreGone, TypeOK, Active, server, backend
<1>8. ASSUME NEW c \in Code, ReportFailed(c) PROVE TombsAreGone'
  BY <1>8 DEF ReportFailed, TombsAreGone, TypeOK, Active, server, backend
<1>9. ASSUME NEW c \in Code, RetryReport(c) PROVE TombsAreGone'
  BY <1>9 DEF RetryReport, TombsAreGone, TypeOK, Active, server, backend
<1>10. ASSUME NEW c \in Code, PortalCreates(c) PROVE TombsAreGone'
  <2>1. row' = [row EXCEPT ![c] = "Pending"] /\ row[c] = "none" /\ c \notin tomb /\ tomb' = tomb
    BY <1>10 DEF PortalCreates
  <2>2. UNCHANGED <<up, rooms, report, retry, disk, sync, timer, pending, beat, post, heard>>
    BY <1>10 DEF PortalCreates, server
  <2> QED BY <2>1, <2>2, <1>0 DEF TombsAreGone, Active
<1>11. ASSUME NEW c \in Code, OperatorEnds(c) PROVE TombsAreGone'
  <2>1. row' = [row EXCEPT ![c] = "Ended"] /\ row[c] # "none" /\ tomb' = tomb
    BY <1>11 DEF OperatorEnds
  <2>2. UNCHANGED <<up, rooms, report, retry, disk, sync, timer, pending, beat, post, heard>>
    BY <1>11 DEF OperatorEnds, server
  <2> QED BY <2>1, <2>2, <1>0 DEF TombsAreGone, Active
<1>12. ASSUME NEW c \in Code, OperatorDeletes(c) PROVE TombsAreGone'
  <2>1. row' = [row EXCEPT ![c] = "none"] /\ tomb' = tomb \cup {c}
    BY <1>12 DEF OperatorDeletes
  <2>2. UNCHANGED <<up, rooms, report, retry, disk, sync, timer, pending, beat, post, heard>>
    BY <1>12 DEF OperatorDeletes, server
  <2> QED BY <2>1, <2>2, <1>0 DEF TombsAreGone, Active
<1>13. ASSUME NEW c \in Code, NEW first \in SUBSET ActiveIn(sync.said),
             RestoreFailed(c, first)
      PROVE  TombsAreGone'
  BY <1>13 DEF RestoreFailed, TombsAreGone, TypeOK, Active, server, backend, Down, Nobody, NoSync, NoBeat, ActiveIn
<1>14. CASE FlushSync
  BY <1>14 DEF FlushSync, TombsAreGone, TypeOK, Active, server, backend, Snapshot, NoSync, Nobody
<1>15. CASE BackendSync
  BY <1>15 DEF BackendSync, TombsAreGone, TypeOK, Active, server, backend, Synced, ActiveIn, Over
<1>16. CASE SyncAnswered
  BY <1>16 DEF SyncAnswered, TombsAreGone, TypeOK, Active, server, backend, Prune, Forget, Snapshot, EndOfFlush, NoSync, Nobody
<1>17. CASE SyncFailed
  BY <1>17 DEF SyncFailed, TombsAreGone, TypeOK, Active, server, backend, EndOfFlush, NoSync, Nobody
<1>18. CASE SendHeartbeat
  BY <1>18 DEF SendHeartbeat, TombsAreGone, TypeOK, Active, server, backend, BeatWith, NoBeat, ActiveIn
<1>19. CASE BackendHeartbeat
  BY <1>19 DEF BackendHeartbeat, TombsAreGone, TypeOK, Active, server, backend, Beaten, Over
<1>20. CASE HeartbeatAnswered
  BY <1>20 DEF HeartbeatAnswered, TombsAreGone, TypeOK, Active, server, backend, Prune, Forget, Snapshot, NoBeat
<1>21. CASE HeartbeatFailed
  BY <1>21 DEF HeartbeatFailed, TombsAreGone, TypeOK, Active, server, backend, NoBeat
<1>22. CASE PersistRooms
  BY <1>22 DEF PersistRooms, TombsAreGone, TypeOK, Active, server, backend, Snapshot
<1>23. CASE Crash
  BY <1>23 DEF Crash, TombsAreGone, TypeOK, Active, server, backend, Down, Nobody, NoSync, NoBeat
<1>24. CASE Boot
  BY <1>24 DEF Boot, TombsAreGone, TypeOK, Active, server, backend, NoSync, Nobody
<1>25. CASE BootAnswered
  BY <1>25 DEF BootAnswered, TombsAreGone, TypeOK, Active, server, backend, Restore, Forget, NoSync, Nobody, BeatWith, NoBeat, ActiveIn
<1>26. CASE BootUnanswered
  BY <1>26 DEF BootUnanswered, TombsAreGone, TypeOK, Active, server, backend, Restore, Forget, NoSync, Nobody, BeatWith, NoBeat, ActiveIn
<1>27. CASE UNCHANGED vars
  BY <1>27 DEF vars, TombsAreGone, TypeOK, Active, server, backend
<1> QED BY <1>1, <1>2, <1>3, <1>4, <1>5, <1>6, <1>7, <1>8, <1>9, <1>10, <1>11, <1>12, <1>13, <1>14, <1>15, <1>16, <1>17, <1>18, <1>19, <1>20, <1>21, <1>22, <1>23, <1>24, <1>25, <1>26, <1>27 DEF Next, RoomStep, JobStep

-----------------------------------------------------------------------------
(* Reports *)

\* Every step keeps what is known of the reports.
LEMMA ReportStep == TypeOK /\ ReportInv /\ [Next]_vars => ReportInv'
<1> SUFFICES ASSUME TypeOK, ReportInv, [Next]_vars, NEW d \in Code
             PROVE  (Followed(d) /\ (d \notin unlearnt => Clean(d)))'
  BY DEF ReportInv
<1> DEFINE Fine == Followed(d) /\ (d \notin unlearnt => Clean(d))
<1> USE DEF Fine
<1>0. /\ rooms \in [Code -> Active \cup {"none", "Ended"}]
      /\ report \in [Code -> {"idle", "in flight", "reported"}]
      /\ disk \in [Code -> Active \cup {"none"}]
      /\ sync.said \in [Code -> Active \cup {"none"}] /\ DOMAIN sync = {"at", "said", "skipped"}
      /\ post \in [Code -> {"none", "sent", "stored"}]
  BY DEF TypeOK
<1>00. Followed(d) /\ (d \notin unlearnt => Clean(d))
  BY DEF ReportInv
<1>1. ASSUME NEW c \in Code, CreateRoom(c) PROVE  Fine'
  <2>1. matches'[d] = matches[d] \/ (matches'[d] = 0 /\ d = c /\ up = "on")
    BY <1>1 DEF CreateRoom, TypeOK
  <2>2. d \notin unlearnt' => d \notin unlearnt \/ (d = c /\ up = "on")
    BY <1>1 DEF CreateRoom
  <2>3. up = "on" /\ d = c => matches'[d] = 0
    BY <1>1 DEF CreateRoom, TypeOK
  <2>4. /\ rooms'[d] = IF d = c THEN "Lobby" ELSE rooms[d]
        /\ d = c => rooms[d] = "none"
        /\ timer' => up = "on" \/ timer
        /\ UNCHANGED <<up, report, disk, sync, post>>
    BY <1>1, <1>0 DEF CreateRoom, Dirty
  <2> QED BY <1>00, <2>1, <2>2, <2>3, <2>4 DEF Followed, Clean, Active
<1>2. ASSUME NEW c \in Code, StartGame(c) PROVE  Fine'
  BY <1>2, <1>0, <1>00 DEF StartGame, Followed, Clean, Active, server, backend, Dirty
<1>3. ASSUME NEW c \in Code, LeaveLobby(c) PROVE  Fine'
  BY <1>3, <1>0, <1>00 DEF LeaveLobby, Followed, Clean, Active, server, backend, Dirty
<1>4. ASSUME NEW c \in Code, MembersChange(c) PROVE  Fine'
  BY <1>4, <1>0, <1>00 DEF MembersChange, Followed, Clean, Active, server, backend, Dirty
<1>5. ASSUME NEW c \in Code, GameOver(c) PROVE  Fine'
  BY <1>5, <1>0, <1>00 DEF GameOver, Followed, Clean, Active, server, backend
<1>6. ASSUME NEW c \in Code, StoreMatch(c) PROVE  Fine'
  <2>1. CASE d = c
    <3>1. d \notin unlearnt => matches'[d] = 1
      <4>1. d \notin unlearnt => matches[d] = 0
        BY <1>6, <2>1 DEF StoreMatch, ReportInv, Clean
      <4>2. matches'[d] = matches[d] + 1
        BY <1>6, <2>1 DEF StoreMatch, TypeOK
      <4> QED BY <4>1, <4>2
    <3>2. post'[d] = "stored" /\ rooms[d] = "Ended" /\ report[d] = "in flight" /\ up = "on"
      BY <1>6, <2>1 DEF StoreMatch, TypeOK, ReportInv, Followed
    <3>3. UNCHANGED <<up, rooms, report, disk, sync, timer, unlearnt>>
      BY <1>6 DEF StoreMatch
    <3> QED BY <3>1, <3>2, <3>3 DEF Followed, Clean, Active
  <2>2. CASE ~(d = c)
    <3>1. matches'[d] = matches[d] /\ post'[d] = post[d]
      BY <1>6, <2>2 DEF StoreMatch, TypeOK
    <3>2. UNCHANGED <<up, rooms, report, disk, sync, timer, unlearnt>>
      BY <1>6 DEF StoreMatch
    <3> QED BY <3>1, <3>2 DEF ReportInv, Followed, Clean
  <2> QED BY <2>1, <2>2
<1>7. ASSUME NEW c \in Code, ReportAnswered(c) PROVE  Fine'
  BY <1>7, <1>0, <1>00 DEF ReportAnswered, Followed, Clean, Active, server, backend
<1>8. ASSUME NEW c \in Code, ReportFailed(c) PROVE  Fine'
  BY <1>8, <1>0, <1>00 DEF ReportFailed, Followed, Clean, Active, server, backend
<1>9. ASSUME NEW c \in Code, RetryReport(c) PROVE  Fine'
  BY <1>9, <1>0, <1>00 DEF RetryReport, Followed, Clean, Active, server, backend
<1>10. ASSUME NEW c \in Code, PortalCreates(c) PROVE  Fine'
  BY <1>10, <1>0, <1>00 DEF PortalCreates, Followed, Clean, Active, server, backend
<1>11. ASSUME NEW c \in Code, OperatorEnds(c) PROVE  Fine'
  BY <1>11, <1>0, <1>00 DEF OperatorEnds, Followed, Clean, Active, server, backend
<1>12. ASSUME NEW c \in Code, OperatorDeletes(c) PROVE  Fine'
  BY <1>12, <1>0, <1>00 DEF OperatorDeletes, Followed, Clean, Active, server, backend
<1>13. ASSUME NEW c \in Code, NEW first \in SUBSET ActiveIn(sync.said),
             RestoreFailed(c, first)
      PROVE   Fine'
  BY <1>13, <1>0, <1>00 DEF RestoreFailed, Followed, Clean, Active, server, backend, Down, Nobody, NoSync, NoBeat, ActiveIn
<1>14. CASE FlushSync
  BY <1>14, <1>0, <1>00 DEF FlushSync, Followed, Clean, Active, server, backend, Snapshot, NoSync, Nobody
<1>15. CASE BackendSync
  BY <1>15, <1>0, <1>00 DEF BackendSync, Followed, Clean, Active, server, backend, Synced, ActiveIn, Over
<1>16. CASE SyncAnswered
  BY <1>16, <1>0, <1>00 DEF SyncAnswered, Followed, Clean, Active, server, backend, Prune, Forget, Snapshot, EndOfFlush, NoSync, Nobody
<1>17. CASE SyncFailed
  BY <1>17, <1>0, <1>00 DEF SyncFailed, Followed, Clean, Active, server, backend, EndOfFlush, NoSync, Nobody
<1>18. CASE SendHeartbeat
  BY <1>18, <1>0, <1>00 DEF SendHeartbeat, Followed, Clean, Active, server, backend, BeatWith, NoBeat, ActiveIn
<1>19. CASE BackendHeartbeat
  BY <1>19, <1>0, <1>00 DEF BackendHeartbeat, Followed, Clean, Active, server, backend, Beaten, Over
<1>20. CASE HeartbeatAnswered
  BY <1>20, <1>0, <1>00 DEF HeartbeatAnswered, Followed, Clean, Active, server, backend, Prune, Forget, Snapshot, NoBeat
<1>21. CASE HeartbeatFailed
  BY <1>21, <1>0, <1>00 DEF HeartbeatFailed, Followed, Clean, Active, server, backend, NoBeat
<1>22. CASE PersistRooms
  BY <1>22, <1>0, <1>00 DEF PersistRooms, Followed, Clean, Active, server, backend, Snapshot
<1>23. CASE Crash
  <2>1. d \notin unlearnt' => d \notin unlearnt /\ (disk[d] # "none" => ~(matches[d] > 0))
    BY <1>23 DEF Crash
  <2>2. d \notin unlearnt /\ ~(matches[d] > 0) => matches[d] = 0
    BY <1>00 DEF Clean
  <2>3. UNCHANGED <<disk, matches>>
    BY <1>23 DEF Crash, backend
  <2>4. up' = "off" /\ timer' = FALSE /\ rooms'[d] = "none" /\ post'[d] = "none"
    BY <1>23 DEF Crash, Down, Nobody
  <2> QED BY <1>00, <2>1, <2>2, <2>3, <2>4 DEF Followed, Clean, Active
<1>24. CASE Boot
  BY <1>24, <1>0, <1>00 DEF Boot, Followed, Clean, Active, server, backend, NoSync, Nobody
<1>25. CASE BootAnswered
  BY <1>25, <1>0, <1>00 DEF BootAnswered, Followed, Clean, Active, server, backend, Restore, Forget, NoSync, Nobody, BeatWith, NoBeat, ActiveIn
<1>26. CASE BootUnanswered
  BY <1>26, <1>0, <1>00 DEF BootUnanswered, Followed, Clean, Active, server, backend, Restore, Forget, NoSync, Nobody, BeatWith, NoBeat, ActiveIn
<1>27. CASE UNCHANGED vars
  BY <1>27, <1>00 DEF vars, Followed, Clean, server, backend
<1> QED BY <1>1, <1>2, <1>3, <1>4, <1>5, <1>6, <1>7, <1>8, <1>9, <1>10, <1>11, <1>12, <1>13, <1>14, <1>15, <1>16, <1>17, <1>18, <1>19, <1>20, <1>21, <1>22, <1>23, <1>24, <1>25, <1>26, <1>27 DEF Next, RoomStep, JobStep

-----------------------------------------------------------------------------
(* Syncs *)

\* Every step keeps what is known of the syncs.
LEMMA SettleStep == TypeOK /\ SettleInv /\ [Next]_vars => SettleInv'
<1> SUFFICES ASSUME TypeOK, SettleInv, [Next]_vars PROVE SettleInv'
  OBVIOUS
<1>0. /\ row \in [Code -> Active \cup {"none", "Pending", "Ended"}] /\ tomb \subseteq Code
      /\ rooms \in [Code -> Active \cup {"none", "Ended"}]
      /\ sync.said \in [Code -> Active \cup {"none"}]
  BY DEF TypeOK
<1>1. ASSUME NEW c \in Code, CreateRoom(c) PROVE SettleInv'
  BY <1>1 DEF CreateRoom, SettleInv, SettledAgrees, Over, TypeOK, Active, server, backend, Dirty
<1>2. ASSUME NEW c \in Code, StartGame(c) PROVE SettleInv'
  BY <1>2 DEF StartGame, SettleInv, SettledAgrees, Over, TypeOK, Active, server, backend, Dirty
<1>3. ASSUME NEW c \in Code, LeaveLobby(c) PROVE SettleInv'
  BY <1>3 DEF LeaveLobby, SettleInv, SettledAgrees, Over, TypeOK, Active, server, backend, Dirty
<1>4. ASSUME NEW c \in Code, MembersChange(c) PROVE SettleInv'
  BY <1>4 DEF MembersChange, SettleInv, SettledAgrees, Over, TypeOK, Active, server, backend, Dirty
<1>5. ASSUME NEW c \in Code, GameOver(c) PROVE SettleInv'
  <2>1. rooms' = [rooms EXCEPT ![c] = "Ended"] /\ UNCHANGED <<up, sync, timer, pending, heard, row, tomb>>
    BY <1>5 DEF GameOver, backend
  <2> QED BY <2>1, <1>0 DEF SettleInv, SettledAgrees, Over, Active
<1>6. ASSUME NEW c \in Code, StoreMatch(c) PROVE SettleInv'
  BY <1>6 DEF StoreMatch, SettleInv, SettledAgrees, Over, TypeOK, Active, server, backend
<1>7. ASSUME NEW c \in Code, ReportAnswered(c) PROVE SettleInv'
  BY <1>7 DEF ReportAnswered, SettleInv, SettledAgrees, Over, TypeOK, Active, server, backend
<1>8. ASSUME NEW c \in Code, ReportFailed(c) PROVE SettleInv'
  BY <1>8 DEF ReportFailed, SettleInv, SettledAgrees, Over, TypeOK, Active, server, backend
<1>9. ASSUME NEW c \in Code, RetryReport(c) PROVE SettleInv'
  BY <1>9 DEF RetryReport, SettleInv, SettledAgrees, Over, TypeOK, Active, server, backend
<1>10. ASSUME NEW c \in Code, PortalCreates(c) PROVE SettleInv'
  <2>1. row' = [row EXCEPT ![c] = "Pending"] /\ row[c] = "none" /\ c \notin tomb /\ tomb' = tomb
    BY <1>10 DEF PortalCreates
  <2>2. UNCHANGED <<up, rooms, report, retry, disk, sync, timer, pending, beat, post, heard>>
    BY <1>10 DEF PortalCreates, server
  <2> QED BY <2>1, <2>2, <1>0 DEF SettleInv, SettledAgrees, Over, Active
<1>11. ASSUME NEW c \in Code, OperatorEnds(c) PROVE SettleInv'
  <2>1. row' = [row EXCEPT ![c] = "Ended"] /\ row[c] # "none" /\ tomb' = tomb
    BY <1>11 DEF OperatorEnds
  <2>2. UNCHANGED <<up, rooms, report, retry, disk, sync, timer, pending, beat, post, heard>>
    BY <1>11 DEF OperatorEnds, server
  <2> QED BY <2>1, <2>2, <1>0 DEF SettleInv, SettledAgrees, Over, Active
<1>12. ASSUME NEW c \in Code, OperatorDeletes(c) PROVE SettleInv'
  <2>1. row' = [row EXCEPT ![c] = "none"] /\ tomb' = tomb \cup {c}
    BY <1>12 DEF OperatorDeletes
  <2>2. UNCHANGED <<up, rooms, report, retry, disk, sync, timer, pending, beat, post, heard>>
    BY <1>12 DEF OperatorDeletes, server
  <2> QED BY <2>1, <2>2, <1>0 DEF SettleInv, SettledAgrees, Over, Active
<1>13. ASSUME NEW c \in Code, NEW first \in SUBSET ActiveIn(sync.said),
             RestoreFailed(c, first)
      PROVE  SettleInv'
  BY <1>13 DEF RestoreFailed, SettleInv, SettledAgrees, Over, TypeOK, Active, server, backend, Down, Nobody, NoSync, NoBeat, ActiveIn
<1>14. CASE FlushSync
  BY <1>14 DEF FlushSync, SettleInv, SettledAgrees, Over, TypeOK, Active, server, backend, Snapshot, NoSync, Nobody
<1>15. CASE BackendSync
  BY <1>15 DEF BackendSync, SettleInv, SettledAgrees, Over, TypeOK, Active, server, backend, Synced, ActiveIn, Over
<1>16. CASE SyncAnswered
  BY <1>16 DEF SyncAnswered, SettleInv, SettledAgrees, Over, TypeOK, Active, server, backend, Prune, Forget, Snapshot, EndOfFlush, NoSync, Nobody
<1>17. CASE SyncFailed
  BY <1>17 DEF SyncFailed, SettleInv, SettledAgrees, Over, TypeOK, Active, server, backend, EndOfFlush, NoSync, Nobody
<1>18. CASE SendHeartbeat
  BY <1>18 DEF SendHeartbeat, SettleInv, SettledAgrees, Over, TypeOK, Active, server, backend, BeatWith, NoBeat, ActiveIn
<1>19. CASE BackendHeartbeat
  BY <1>19 DEF BackendHeartbeat, SettleInv, SettledAgrees, Over, TypeOK, Active, server, backend, Beaten, Over
<1>20. CASE HeartbeatAnswered
  BY <1>20 DEF HeartbeatAnswered, SettleInv, SettledAgrees, Over, TypeOK, Active, server, backend, Prune, Forget, Snapshot, NoBeat
<1>21. CASE HeartbeatFailed
  BY <1>21 DEF HeartbeatFailed, SettleInv, SettledAgrees, Over, TypeOK, Active, server, backend, NoBeat
<1>22. CASE PersistRooms
  BY <1>22 DEF PersistRooms, SettleInv, SettledAgrees, Over, TypeOK, Active, server, backend, Snapshot
<1>23. CASE Crash
  BY <1>23 DEF Crash, SettleInv, SettledAgrees, Over, TypeOK, Active, server, backend, Down, Nobody, NoSync, NoBeat
<1>24. CASE Boot
  BY <1>24 DEF Boot, SettleInv, SettledAgrees, Over, TypeOK, Active, server, backend, NoSync, Nobody
<1>25. CASE BootAnswered
  BY <1>25 DEF BootAnswered, SettleInv, SettledAgrees, Over, TypeOK, Active, server, backend, Restore, Forget, NoSync, Nobody, BeatWith, NoBeat, ActiveIn
<1>26. CASE BootUnanswered
  BY <1>26 DEF BootUnanswered, SettleInv, SettledAgrees, Over, TypeOK, Active, server, backend, Restore, Forget, NoSync, Nobody, BeatWith, NoBeat, ActiveIn
<1>27. CASE UNCHANGED vars
  BY <1>27 DEF vars, SettleInv, SettledAgrees, Over, TypeOK, Active, server, backend
<1> QED BY <1>1, <1>2, <1>3, <1>4, <1>5, <1>6, <1>7, <1>8, <1>9, <1>10, <1>11, <1>12, <1>13, <1>14, <1>15, <1>16, <1>17, <1>18, <1>19, <1>20, <1>21, <1>22, <1>23, <1>24, <1>25, <1>26, <1>27 DEF Next, RoomStep, JobStep

-----------------------------------------------------------------------------
(* Theorems *)

\* The inductive invariant.
IInv == TypeOK /\ TombsAreGone /\ ReportInv /\ SettleInv

\* It holds from the start, and every step keeps it.
LEMMA Inductive == Spec => []IInv
<1>1. Init => IInv
  <2> SUFFICES ASSUME Init PROVE IInv
    OBVIOUS
  <2>1. 0 \in 0..MaxStops /\ 0 \in 0..MaxLost
    BY BoundsAssumption
  <2>2. matches \in [Code -> Nat]
    BY DEF Init
  <2>3. TypeOK
    BY <2>1, <2>2 DEF Init, TypeOK, Nobody, NoSync, NoBeat, Active
  <2>4. TombsAreGone /\ ReportInv
    BY DEF Init, TombsAreGone, ReportInv, Followed, Clean, Nobody, Active
  <2>5. SettleInv
    BY DEF Init, SettleInv, SettledAgrees, NoSync
  <2> QED BY <2>3, <2>4, <2>5 DEF IInv
<1>2. IInv /\ [Next]_vars => IInv'
  BY TypeStep, TombStep, ReportStep, SettleStep DEF IInv
<1> QED BY <1>1, <1>2, PTL DEF Spec

\* Types of the state, whatever the number of rooms and the bounds.
THEOREM TypeCorrect == Spec => []TypeOK
<1>1. IInv => TypeOK
  BY DEF IInv
<1> QED BY <1>1, Inductive, PTL

\* The game of a room is stored once, but for those whose report the server
\* lost track of: no retry, restart or late answer stores it again.
THEOREM StoredOnce == Spec => []ReportedOnce
<1>1. IInv => ReportedOnce
  BY DEF IInv, ReportInv, Clean, ReportedOnce
<1> QED BY <1>1, Inductive, PTL

\* At rest, after a sync that was heard, the directory has the status of every
\* room of the server, or has ended it: the coalescing loses no change.
THEOREM SettledDirectoryAgrees == Spec => []SettledAgrees
<1>1. IInv => SettledAgrees
  BY DEF IInv, SettleInv
<1> QED BY <1>1, Inductive, PTL

\* A step does not revive a room that is over.
LEMMA StepRevivesNothing ==
  TypeOK /\ TombsAreGone /\ [Next]_vars => \A c \in Code : Over(c) => row'[c] \in {"none", "Ended"}
<1> SUFFICES ASSUME TypeOK, TombsAreGone, [Next]_vars, NEW d \in Code, Over(d)
             PROVE  row'[d] \in {"none", "Ended"}
  OBVIOUS
<1>0. row \in [Code -> Active \cup {"none", "Pending", "Ended"}] /\ tomb \subseteq Code
  BY DEF TypeOK
<1>1. ASSUME NEW c \in Code, CreateRoom(c) PROVE row'[d] \in {"none", "Ended"}
  BY <1>1 DEF CreateRoom, TombsAreGone, TypeOK, Over, Active, server, backend, Dirty
<1>2. ASSUME NEW c \in Code, StartGame(c) PROVE row'[d] \in {"none", "Ended"}
  BY <1>2 DEF StartGame, TombsAreGone, TypeOK, Over, Active, server, backend, Dirty
<1>3. ASSUME NEW c \in Code, LeaveLobby(c) PROVE row'[d] \in {"none", "Ended"}
  BY <1>3 DEF LeaveLobby, TombsAreGone, TypeOK, Over, Active, server, backend, Dirty
<1>4. ASSUME NEW c \in Code, MembersChange(c) PROVE row'[d] \in {"none", "Ended"}
  BY <1>4 DEF MembersChange, TombsAreGone, TypeOK, Over, Active, server, backend, Dirty
<1>5. ASSUME NEW c \in Code, GameOver(c) PROVE row'[d] \in {"none", "Ended"}
  BY <1>5 DEF GameOver, TombsAreGone, TypeOK, Over, Active, server, backend
<1>6. ASSUME NEW c \in Code, StoreMatch(c) PROVE row'[d] \in {"none", "Ended"}
  BY <1>6 DEF StoreMatch, TombsAreGone, TypeOK, Over, Active, server, backend
<1>7. ASSUME NEW c \in Code, ReportAnswered(c) PROVE row'[d] \in {"none", "Ended"}
  BY <1>7 DEF ReportAnswered, TombsAreGone, TypeOK, Over, Active, server, backend
<1>8. ASSUME NEW c \in Code, ReportFailed(c) PROVE row'[d] \in {"none", "Ended"}
  BY <1>8 DEF ReportFailed, TombsAreGone, TypeOK, Over, Active, server, backend
<1>9. ASSUME NEW c \in Code, RetryReport(c) PROVE row'[d] \in {"none", "Ended"}
  BY <1>9 DEF RetryReport, TombsAreGone, TypeOK, Over, Active, server, backend
<1>10. ASSUME NEW c \in Code, PortalCreates(c) PROVE row'[d] \in {"none", "Ended"}
  <2>1. row' = [row EXCEPT ![c] = "Pending"] /\ row[c] = "none" /\ c \notin tomb /\ tomb' = tomb
    BY <1>10 DEF PortalCreates
  <2>2. UNCHANGED <<up, rooms, report, retry, disk, sync, timer, pending, beat, post, heard>>
    BY <1>10 DEF PortalCreates, server
  <2> QED BY <2>1, <2>2, <1>0 DEF TombsAreGone, Over, Active
<1>11. ASSUME NEW c \in Code, OperatorEnds(c) PROVE row'[d] \in {"none", "Ended"}
  <2>1. row' = [row EXCEPT ![c] = "Ended"] /\ row[c] # "none" /\ tomb' = tomb
    BY <1>11 DEF OperatorEnds
  <2>2. UNCHANGED <<up, rooms, report, retry, disk, sync, timer, pending, beat, post, heard>>
    BY <1>11 DEF OperatorEnds, server
  <2> QED BY <2>1, <2>2, <1>0 DEF TombsAreGone, Over, Active
<1>12. ASSUME NEW c \in Code, OperatorDeletes(c) PROVE row'[d] \in {"none", "Ended"}
  <2>1. row' = [row EXCEPT ![c] = "none"] /\ tomb' = tomb \cup {c}
    BY <1>12 DEF OperatorDeletes
  <2>2. UNCHANGED <<up, rooms, report, retry, disk, sync, timer, pending, beat, post, heard>>
    BY <1>12 DEF OperatorDeletes, server
  <2> QED BY <2>1, <2>2, <1>0 DEF TombsAreGone, Over, Active
<1>13. ASSUME NEW c \in Code, NEW first \in SUBSET ActiveIn(sync.said),
             RestoreFailed(c, first)
      PROVE  row'[d] \in {"none", "Ended"}
  BY <1>13 DEF RestoreFailed, TombsAreGone, TypeOK, Over, Active, server, backend, Down, Nobody, NoSync, NoBeat, ActiveIn
<1>14. CASE FlushSync
  BY <1>14 DEF FlushSync, TombsAreGone, TypeOK, Over, Active, server, backend, Snapshot, NoSync, Nobody
<1>15. CASE BackendSync
  BY <1>15 DEF BackendSync, TombsAreGone, TypeOK, Over, Active, server, backend, Synced, ActiveIn, Over
<1>16. CASE SyncAnswered
  BY <1>16 DEF SyncAnswered, TombsAreGone, TypeOK, Over, Active, server, backend, Prune, Forget, Snapshot, EndOfFlush, NoSync, Nobody
<1>17. CASE SyncFailed
  BY <1>17 DEF SyncFailed, TombsAreGone, TypeOK, Over, Active, server, backend, EndOfFlush, NoSync, Nobody
<1>18. CASE SendHeartbeat
  BY <1>18 DEF SendHeartbeat, TombsAreGone, TypeOK, Over, Active, server, backend, BeatWith, NoBeat, ActiveIn
<1>19. CASE BackendHeartbeat
  BY <1>19 DEF BackendHeartbeat, TombsAreGone, TypeOK, Over, Active, server, backend, Beaten, Over
<1>20. CASE HeartbeatAnswered
  BY <1>20 DEF HeartbeatAnswered, TombsAreGone, TypeOK, Over, Active, server, backend, Prune, Forget, Snapshot, NoBeat
<1>21. CASE HeartbeatFailed
  BY <1>21 DEF HeartbeatFailed, TombsAreGone, TypeOK, Over, Active, server, backend, NoBeat
<1>22. CASE PersistRooms
  BY <1>22 DEF PersistRooms, TombsAreGone, TypeOK, Over, Active, server, backend, Snapshot
<1>23. CASE Crash
  BY <1>23 DEF Crash, TombsAreGone, TypeOK, Over, Active, server, backend, Down, Nobody, NoSync, NoBeat
<1>24. CASE Boot
  BY <1>24 DEF Boot, TombsAreGone, TypeOK, Over, Active, server, backend, NoSync, Nobody
<1>25. CASE BootAnswered
  BY <1>25 DEF BootAnswered, TombsAreGone, TypeOK, Over, Active, server, backend, Restore, Forget, NoSync, Nobody, BeatWith, NoBeat, ActiveIn
<1>26. CASE BootUnanswered
  BY <1>26 DEF BootUnanswered, TombsAreGone, TypeOK, Over, Active, server, backend, Restore, Forget, NoSync, Nobody, BeatWith, NoBeat, ActiveIn
<1>27. CASE UNCHANGED vars
  BY <1>27 DEF vars, TombsAreGone, TypeOK, Over, Active, server, backend
<1> QED BY <1>1, <1>2, <1>3, <1>4, <1>5, <1>6, <1>7, <1>8, <1>9, <1>10, <1>11, <1>12, <1>13, <1>14, <1>15, <1>16, <1>17, <1>18, <1>19, <1>20, <1>21, <1>22, <1>23, <1>24, <1>25, <1>26, <1>27 DEF Next, RoomStep, JobStep

\* A room that is over in the directory stays so, through requests that left
\* before and servers that were down meanwhile.
THEOREM OverIsForGood == Spec => NeverRevived
<1>1. IInv /\ [Next]_vars => [\A c \in Code : Over(c) => row'[c] \in {"none", "Ended"}]_vars
  BY StepRevivesNothing DEF IInv
<1> QED BY <1>1, Inductive, PTL DEF Spec, NeverRevived

-----------------------------------------------------------------------------
(* The lives of the rooms *)

\* What the life of a room shows of it, and what a step may make of that.
Shows(c) == IF up = "on" THEN rooms[c] ELSE "none"
Moved(a, b) == a = b \/ <<a, b>> \in Life!Moves

\* Removing rooms, or taking the snapshot up, only lets rooms vanish or appear.
LEMMA PruneMoves ==
  ASSUME TypeOK, up = "on", up' = "on", NEW codes, Prune(codes), NEW d \in Code
  PROVE  Moved(Shows(d), Shows(d)')
<1>1. rooms'[d] \in {rooms[d], "none"}
  BY DEF Prune
<1>2. rooms[d] \in {"Lobby", "InGame", "none", "Ended"}
  BY DEF TypeOK, Active
<1> QED BY <1>1, <1>2 DEF Shows, Moved, Life!Moves

\* A server that is not on shows no room, and a snapshot holds none that is over.
LEMMA RestoreMoves ==
  ASSUME TypeOK, up = "starting", NEW skipped, Restore(skipped), NEW d \in Code
  PROVE  Moved(Shows(d), Shows(d)')
<1>1. sync.said[d] \in {"Lobby", "InGame", "none"}
  <2>1. sync.said \in [Code -> Active \cup {"none"}]
    BY DEF TypeOK
  <2> QED BY <2>1 DEF Active
<1>2. rooms'[d] \in {sync.said[d], "none"} /\ up' = "on"
  BY DEF Restore
<1> QED BY <1>1, <1>2 DEF Shows, Moved, Life!Moves

\* A server that goes down shows no room any more.
LEMMA DownMoves ==
  ASSUME TypeOK, up' = "off", NEW d \in Code
  PROVE  Moved(Shows(d), Shows(d)')
<1>1. rooms[d] \in {"Lobby", "InGame", "none", "Ended"}
  BY DEF TypeOK, Active
<1> QED BY <1>1 DEF Shows, Moved, Life!Moves

\* Every step takes the life of each room where it may go.
LEMMA StepMovesLives ==
  ASSUME TypeOK, [Next]_vars, NEW d \in Code
  PROVE  Moved(Shows(d), Shows(d)')
<1>0. rooms \in [Code -> {"Lobby", "InGame", "none", "Ended"}]
  BY DEF TypeOK, Active
<1>1. ASSUME UNCHANGED <<up, rooms>> PROVE Moved(Shows(d), Shows(d)')
  BY <1>1 DEF Shows, Moved
<1>2. ASSUME NEW c \in Code,
             CreateRoom(c) \/ StartGame(c) \/ LeaveLobby(c) \/ GameOver(c)
      PROVE  Moved(Shows(d), Shows(d)')
  <2>1. up' = up
    BY <1>2 DEF CreateRoom, StartGame, LeaveLobby, GameOver
  <2>2. rooms'[d] = rooms[d] \/ <<rooms[d], rooms'[d]>> \in Life!Moves
    BY <1>0, <1>2 DEF CreateRoom, StartGame, LeaveLobby, GameOver, Life!Moves
  <2> QED BY <2>1, <2>2 DEF Shows, Moved
<1>3. ASSUME NEW c \in Code,
             \/ MembersChange(c) \/ StoreMatch(c) \/ ReportAnswered(c) \/ ReportFailed(c)
             \/ RetryReport(c) \/ PortalCreates(c) \/ OperatorEnds(c) \/ OperatorDeletes(c)
      PROVE  UNCHANGED <<up, rooms>>
  BY <1>3 DEF MembersChange, StoreMatch, ReportAnswered, ReportFailed, RetryReport,
              PortalCreates, OperatorEnds, OperatorDeletes, server
<1>4. ASSUME \/ FlushSync \/ BackendSync \/ SyncFailed \/ SendHeartbeat
             \/ BackendHeartbeat \/ HeartbeatFailed \/ PersistRooms \/ UNCHANGED vars
      PROVE  UNCHANGED <<up, rooms>>
  BY <1>4 DEF FlushSync, BackendSync, SyncFailed, SendHeartbeat, BackendHeartbeat,
              HeartbeatFailed, PersistRooms, vars, server
<1>5. ASSUME SyncAnswered \/ HeartbeatAnswered PROVE Moved(Shows(d), Shows(d)')
  BY <1>5, PruneMoves DEF SyncAnswered, HeartbeatAnswered
<1>6. ASSUME Boot PROVE Moved(Shows(d), Shows(d)')
  BY <1>6 DEF Boot, Shows, Moved
<1>7. ASSUME BootAnswered \/ BootUnanswered PROVE Moved(Shows(d), Shows(d)')
  BY <1>7, RestoreMoves DEF BootAnswered, BootUnanswered
<1>8. ASSUME Crash \/ \E c \in Code, first \in SUBSET ActiveIn(sync.said) : RestoreFailed(c, first)
      PROVE  Moved(Shows(d), Shows(d)')
  BY <1>8, DownMoves DEF Crash, RestoreFailed, Down
<1> QED BY <1>1, <1>2, <1>3, <1>4, <1>5, <1>6, <1>7, <1>8 DEF Next, RoomStep, JobStep

\* Each room of the server lives as RoomServer's room does (RoomLives there),
\* for the jobs too: what syncs, heartbeats, stops and restarts make of a room
\* is a start, an end or a removal, whatever the order of the answers; a game
\* is never taken back to the lobby, and what is over is not restored
\* (dedicated_server.gd, room_manager.gd).
THEOREM DirectoryLives == Spec => ImplementsLife
<1> DEFINE st == [c \in Code |-> IF up = "on" THEN rooms[c] ELSE "none"]
<1>1. Init => Life!Init
  BY DEF Init, Life!Init
<1>2. TypeOK /\ [Next]_vars => [Life!Next]_st
  <2> SUFFICES ASSUME TypeOK, [Next]_vars PROVE Life!Next
    OBVIOUS
  <2>1. st = [c \in Code |-> Shows(c)] /\ st' = [c \in Code |-> Shows(c)']
    BY DEF Shows
  <2>2. st' \in [Code -> {"none", "Lobby", "InGame", "Ended"}]
    <3>1. TypeOK'
      BY TypeStep
    <3>2. rooms' \in [Code -> Active \cup {"none", "Ended"}]
      BY <3>1 DEF TypeOK
    <3> QED BY <3>2 DEF Active
  <2>3. \A c \in Code : st'[c] = st[c] \/ <<st[c], st'[c]>> \in Life!Moves
    BY <2>1, StepMovesLives DEF Moved
  <2> QED BY <2>2, <2>3 DEF Life!Next
<1> QED BY <1>1, <1>2, TypeCorrect, PTL DEF Spec, ImplementsLife, Life!Spec

=============================================================================
