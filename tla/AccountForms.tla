---------------------------- MODULE AccountForms ----------------------------
(***************************************************************************)
(* The forms that change an account: the settings page                     *)
(* (views/SettingsView.vue) with its four forms, and the page that lets a  *)
(* device sign in (views/DeviceAuthView.vue), in one tab.                  *)
(*                                                                         *)
(* Every form awaits its request, and most then await the account anew     *)
(* (fetchUser of the account store).  The forms do not wait for each       *)
(* other, so several of these handlers run at once, their answers come in  *)
(* any order, and a handler goes on when its page is left.                 *)
(***************************************************************************)
EXTENDS Naturals, FiniteSets

CONSTANTS
  Name,               \* display names
  Email, NoEmail,     \* addresses; null when none is bound
  NoUser,
  Form,               \* the forms, of those in AllForms
  Call                \* bound: handlers at work at once

AccountForm == {"display_name", "bind_email", "email", "password"}
AllForms == AccountForm \cup {"device"}

ASSUME FormsConstants ==
  NoEmail \notin Email /\ "" \notin Name /\ "" \notin Email /\ Form \subseteq AllForms

VARIABLES
  account,   \* the backend's: name, email, guest, and whether a device was let in
  user,      \* auth.user: what the tab knows of the account
  session,   \* auth.isLoggedIn
  screen,    \* "settings", "device" or "other"
  input,     \* the texts that a handler overwrites: display name, email, email to bind
  form,      \* form -> whether it waits, and what its alert says
  done,      \* form -> the backend has carried its newest request out
  call       \* handlers at work

formVars == <<account, user, session, screen, input, form, done, call>>

Account == [name : Name, email : Email \cup {NoEmail}, guest : BOOLEAN]
FormState == [loading : BOOLEAN, says : {"nothing", "success", "error"}]
Inputs == [name : Name \cup {""}, email : Email \cup {""}, bind : Email \cup {""}]

Blank == [f \in Form |-> [loading |-> FALSE, says |-> "nothing"]]
NoInput == [name |-> "", email |-> "", bind |-> ""]

NoCall == [st |-> "idle", op |-> "none", stage |-> "none", val |-> "", reply |-> NoUser,
           signed |-> FALSE, mounted |-> FALSE]
CallRecord == [st : {"idle", "sent", "ok", "failed"}, op : {"none", "mount"} \cup AllForms,
               stage : {"none", "api", "me"}, val : Name \cup Email \cup {""},
               reply : Account \cup {NoUser}, signed : BOOLEAN, mounted : BOOLEAN]

Idle(c) == call[c] = NoCall

-----------------------------------------------------------------------------
(* The pages *)

Unmounted == [c \in Call |-> [call[c] EXCEPT !.mounted = FALSE]]

\* onMounted of the settings page asks for the account; the device page
\* only reads its code.
Enter(p, c) ==
  /\ screen # p /\ session /\ Idle(c)
  /\ screen' = p
  /\ input' = NoInput /\ form' = Blank
  /\ call' = IF p = "settings"
             THEN [Unmounted EXCEPT ![c] = [NoCall EXCEPT !.st = "sent", !.op = "mount", !.stage = "me",
                                                          !.signed = TRUE, !.mounted = TRUE]]
             ELSE Unmounted
  /\ UNCHANGED <<account, user, session, done>>

Leave ==
  /\ screen # "other"
  /\ screen' = "other"
  /\ input' = NoInput /\ form' = Blank
  /\ call' = Unmounted
  /\ UNCHANGED <<account, user, session, done>>

\* The forms the navigation of the page offers; the device page's button,
\* until it has succeeded.
Offered(f) ==
  \/ /\ screen = "settings" /\ user # NoUser
     /\ f \in (IF user.guest THEN {"bind_email"} ELSE AccountForm \ {"bind_email"})
  \/ screen = "device" /\ f = "device" /\ form["device"].says # "success"

FieldOf == [display_name |-> "name", email |-> "email", bind_email |-> "bind"]

Type(f, text) ==
  /\ Offered(f) /\ ~form[f].loading /\ f \in DOMAIN FieldOf
  /\ text \in (IF f = "display_name" THEN Name ELSE Email)
  /\ input' = [input EXCEPT ![FieldOf[f]] = text]
  /\ UNCHANGED <<account, user, session, screen, form, done, call>>

-----------------------------------------------------------------------------
(* Submitting a form *)

Says(f, what, loading) == form' = [form EXCEPT ![f] = [loading |-> loading, says |-> what]]

TextOf(f) == IF f \in DOMAIN FieldOf THEN input[FieldOf[f]] ELSE ""

\* A field is empty, two passwords differ, or the device has no code.
Refuse(f) ==
  /\ Offered(f) /\ ~form[f].loading
  /\ Says(f, "error", FALSE)
  /\ UNCHANGED <<account, user, session, screen, input, done, call>>

Submit(f, c) ==
  /\ Offered(f) /\ ~form[f].loading /\ Idle(c)
  /\ f \in DOMAIN FieldOf => TextOf(f) # ""
  /\ Says(f, "nothing", TRUE)
  /\ call' = [call EXCEPT ![c] = [NoCall EXCEPT !.st = "sent", !.op = f, !.stage = "api",
                                                !.val = TextOf(f), !.signed = session,
                                                !.mounted = TRUE]]
  /\ done' = [done EXCEPT ![f] = FALSE]
  /\ UNCHANGED <<account, user, session, screen, input>>

-----------------------------------------------------------------------------
(* The backend *)

Changed(c) ==
  CASE call[c].op = "display_name" -> [account EXCEPT !.name = call[c].val]
    [] call[c].op = "email" -> [account EXCEPT !.email = call[c].val]
    [] call[c].op = "bind_email" -> [account EXCEPT !.email = call[c].val, !.guest = FALSE]
    [] call[c].op \in {"password", "device"} -> account

Applies(c) == call[c].signed /\ (call[c].op = "bind_email" => account.guest)

\* The change is made; its answer may still be lost.
Serve(c) ==
  /\ call[c].st = "sent" /\ call[c].stage = "api" /\ Applies(c)
  /\ account' = Changed(c)
  /\ done' = IF call[c].mounted THEN [done EXCEPT ![call[c].op] = TRUE] ELSE done
  /\ \E st \in {"ok", "failed"} : call' = [call EXCEPT ![c].st = st]
  /\ UNCHANGED <<user, session, screen, input, form>>

ServeMe(c) ==
  /\ call[c].st = "sent" /\ call[c].stage = "me"
  /\ call' = [call EXCEPT ![c].st = "ok", ![c].reply = account]
  /\ UNCHANGED <<account, user, session, screen, input, form, done>>

\* A wrong password, a taken address, an expired session, no connection.
Fail(c) ==
  /\ call[c].st = "sent"
  /\ call' = [call EXCEPT ![c].st = "failed"]
  /\ UNCHANGED <<account, user, session, screen, input, form, done>>

-----------------------------------------------------------------------------
(* A handler goes on with an answer *)

Shows(c, what, loading) ==
  form' = IF call[c].mounted
          THEN [form EXCEPT ![call[c].op] = [loading |-> loading, says |-> what]] ELSE form

\* The request went through: the form says so, and most fetch the account;
\* without a session there is nothing to fetch.
Succeed(c) ==
  LET refetch == call[c].op \in DOMAIN FieldOf IN
  /\ call[c].stage = "api" /\ call[c].st = "ok"
  /\ Shows(c, "success", refetch)
  /\ call' = [call EXCEPT ![c] = IF refetch THEN [@ EXCEPT !.st = (IF session THEN "sent" ELSE "failed"),
                                                           !.stage = "me"] ELSE NoCall]
  /\ UNCHANGED <<account, user, session, screen, input, done>>

SucceedAnyway(c) == Shows(c, "success", FALSE)
ComplainAndWait(c) == Shows(c, "error", TRUE)
Complain(c) == Shows(c, "error", FALSE)

FailForm(c) ==
  /\ call[c].stage = "api" /\ call[c].st = "failed"
  /\ Complain(c)
  /\ call' = [call EXCEPT ![c] = NoCall]
  /\ UNCHANGED <<account, user, session, screen, input, done>>

Text(known, otherwise) == IF known = NoEmail THEN otherwise ELSE known

\* The texts a handler writes back, from the account as the tab knows it then.
Rewritten(c, u) ==
  LET name == IF u = NoUser THEN "" ELSE u.name
      email == IF u = NoUser THEN "" ELSE Text(u.email, "") IN
  CASE call[c].op = "mount" -> [name |-> name, email |-> email, bind |-> email]
    [] call[c].op = "bind_email" -> [input EXCEPT !.bind = email, !.name = name]
    [] call[c].op = "display_name" -> [input EXCEPT !.name = IF u = NoUser THEN call[c].val ELSE name]
    [] call[c].op = "email" -> [input EXCEPT !.email = IF email = "" THEN @ ELSE email]

\* fetchUser is through: its answer is what the tab knows from now on, or the
\* tab is signed out.
Refetched(c) ==
  LET u == IF call[c].st = "ok" THEN call[c].reply ELSE NoUser IN
  /\ call[c].stage = "me" /\ call[c].st \in {"ok", "failed"}
  /\ user' = u
  /\ session' = (session /\ call[c].st = "ok")
  /\ input' = IF call[c].mounted THEN Rewritten(c, u) ELSE input
  /\ form' = IF call[c].mounted /\ call[c].op # "mount"
             THEN [form EXCEPT ![call[c].op].loading = FALSE] ELSE form
  /\ call' = [call EXCEPT ![c] = NoCall]
  /\ UNCHANGED <<account, screen, done>>

\* The account signs in again, with the store's login and fetch (AuthStore).
SignIn ==
  /\ ~session
  /\ session' = TRUE /\ user' = account
  /\ UNCHANGED <<account, screen, input, form, done, call>>

-----------------------------------------------------------------------------
FormsInit ==
  /\ account \in Account
  /\ account.guest <=> (account.email = NoEmail)
  /\ user = account
  /\ session = TRUE
  /\ screen = "other"
  /\ input = NoInput
  /\ form = Blank
  /\ done = [f \in Form |-> FALSE]
  /\ call = [c \in Call |-> NoCall]

Backend(c) == Serve(c) \/ ServeMe(c) \/ Fail(c)
Handler(c) == Succeed(c) \/ FailForm(c) \/ Refetched(c)

FormsNext ==
  \/ \E p \in {"settings", "device"}, c \in Call : Enter(p, c)
  \/ Leave \/ SignIn
  \/ \E f \in Form, text \in Name \cup Email : Type(f, text)
  \/ \E f \in Form : Refuse(f)
  \/ \E f \in Form, c \in Call : Submit(f, c)
  \/ \E c \in Call : Backend(c) \/ Handler(c)

\* Requests are answered or time out, and handlers run.
FormsFairness == \A c \in Call : WF_formVars(Backend(c)) /\ WF_formVars(Handler(c))

-----------------------------------------------------------------------------
(* Properties *)

\* Every variable keeps its type; a text field never holds null.
FormsTypeOK ==
  /\ account \in Account /\ user \in Account \cup {NoUser}
  /\ session \in BOOLEAN /\ screen \in {"settings", "device", "other"}
  /\ input \in Inputs /\ form \in [Form -> FormState]
  /\ done \in [Form -> BOOLEAN] /\ call \in [Call -> CallRecord]

\* A form that says it succeeded has had its request carried out: no answer
\* of another form, of an earlier visit or of the account's fetch is taken
\* for its own (SettingsView.vue, DeviceAuthView.vue).
SuccessIsTrue == \A f \in Form : form[f].says = "success" => done[f]

\* A form that waits becomes free again, however its request ends.
FormAnswers == \A f \in Form : form[f].loading ~> ~form[f].loading
=============================================================================
