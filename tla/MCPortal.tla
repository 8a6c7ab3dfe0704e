------------------------------ MODULE MCPortal ------------------------------
(***************************************************************************)
(* Small instances of the portal's pages: the pages of matches, the forms  *)
(* of an account, and the table of one match.  They share nothing but the  *)
(* session, of which each has its own part, so that a behaviour stays with *)
(* one of them (`part`) and the others do not move.                        *)
(*                                                                         *)
(* m1 has two snapshots and a replay, m2 neither.  In the report each fact *)
(* has a count of its own.                                                 *)
(***************************************************************************)
EXTENDS MatchPages, AccountForms, MatchReport

CONSTANTS m1, m2, s1

SnapshotsOf == [m \in Match |-> IF m = m1 THEN <<"first", "final">> ELSE <<>>]
Parts == [s \in Session |-> Match]
Counts == [recruited |-> 2, built |-> 3, campaigns |-> 5, posted |-> 4, soldSoda |-> 7]
Lowered == [Cola |-> "cola", marketingActions |-> "marketingactions",
            marketingCount |-> "marketingcount", hiredEmployees |-> "hiredemployees",
            recruitCount |-> "recruitcount", trainedEmployees |-> "trainedemployees",
            trainCount |-> "traincount"]

VARIABLE part

vars == <<part, pageVars, formVars, writing>>

Init ==
  /\ part \in {"matches", "forms", "report"}
  /\ PagesInit /\ FormsInit /\ ReportInit
  /\ part # "matches" => ~IsLoggedIn
  /\ part # "forms" => account.guest /\ account.name = CHOOSE name \in Name : TRUE

Next ==
  \/ part = "matches" /\ PagesNext /\ UNCHANGED <<part, formVars, writing>>
  \/ part = "forms" /\ FormsNext /\ UNCHANGED <<part, pageVars, writing>>
  \/ part = "report" /\ ReportNext /\ UNCHANGED <<part, pageVars, formVars>>

Spec == Init /\ [][Next]_vars

FairSpec == Spec /\ PagesFairness /\ FormsFairness

-----------------------------------------------------------------------------
\* The types of the match pages and of the forms, both of which are views.
TypeOK == part \in {"matches", "forms", "report"} /\ PagesTypeOK /\ FormsTypeOK

\* However a player's facts are written, the table of the match and the fixed
\* shape of his statistics are the same; asked where the report moves
\* (match-stats.ts, buildPlayerStatMatrixRows and normalizePlayerStats).
ReportTheSame == part = "report" => SameTableForEveryWriting /\ NormalizedAgrees
=============================================================================
