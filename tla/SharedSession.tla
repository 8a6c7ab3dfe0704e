---------------------------- MODULE SharedSession ----------------------------
(***************************************************************************)
(* What the portal's tabs promise together: they share one signed-in       *)
(* session per browser.                                                    *)
(*                                                                         *)
(*   - the session is empty or one that was never the shared one before:   *)
(*     no tab brings back a session that was signed out or replaced;       *)
(*   - a tab's own copy changes with a write of its own, or by taking over *)
(*     the shared value;                                                   *)
(*   - a tab whose copy is out of date takes the shared value over in the  *)
(*     end.                                                                *)
(***************************************************************************)
CONSTANTS Tab, Session, NoSession, Closed

VARIABLES
  current,   \* the session the browser is signed in with
  used,      \* every session that has been the shared one
  view       \* tab -> its copy, or Closed

vars == <<current, used, view>>

Init ==
  /\ current \in Session \cup {NoSession}
  /\ used = {current} \ {NoSession}
  /\ view = [t \in Tab |-> Closed]

\* A tab signs in with a new session, or signs out.
Write(t, s) ==
  /\ view[t] # Closed
  /\ s \in (Session \ used) \cup {NoSession}
  /\ current' = s
  /\ used' = used \cup ({s} \ {NoSession})
  /\ view' = [view EXCEPT ![t] = s]

\* A tab takes over what another one wrote; a tab that opens starts with it.
Hear(t) ==
  /\ view[t] # current
  /\ view' = [view EXCEPT ![t] = current]
  /\ UNCHANGED <<current, used>>

Close(t) ==
  /\ view' = [view EXCEPT ![t] = Closed]
  /\ UNCHANGED <<current, used>>

Next ==
  \E t \in Tab :
    \/ \E s \in Session \cup {NoSession} : Write(t, s)
    \/ Hear(t)
    \/ Close(t)

\* An open tab that is behind hears of it.
CatchUp(t) == view[t] # Closed /\ Hear(t)

Fairness == \A t \in Tab : WF_vars(CatchUp(t))

SafeSpec == Init /\ [][Next]_vars

Spec == SafeSpec /\ Fairness
=============================================================================
