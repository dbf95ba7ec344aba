------------------------------ MODULE WebClient ------------------------------
(***************************************************************************)
(* Requests of a page in the browser: $.ServiceClient.invoke of            *)
(* jquery.service.js, the handlers of the Ajax events in app.js, and the   *)
(* login dialog that they open (login.jsp, style mini).                    *)
(*                                                                         *)
(* Scripts run to completion, so one action is one event: a call of        *)
(* invoke, an answer or a timeout with all the callbacks it runs.  The     *)
(* dialog is a frame with its own jQuery: it counts its own requests, but  *)
(* its mask is on the body of the page.  A masked page takes no clicks.    *)
(***************************************************************************)
EXTENDS Integers, FiniteSets

CONSTANT Requests   \* bound: the requests made until the page is left

ASSUME WebClientAssumption == IsFiniteSet(Requests)

VARIABLES
  status,   \* request -> idle, sent, done
  made,     \* request -> click, script, quiet: by a click, by a script, by a
            \* script without the mask (settings.quiet)
  throws,   \* request -> whether its first callback throws
  answer,   \* request -> none, ok, failed, 401: what the server has answered
  promise,  \* request -> pending, resolved, rejected: the Deferred dtd
  calls,    \* request -> number of calls of ServiceHelper.callback
  active,   \* jQuery.active of the page
  mask,     \* class ajax-loading of the body
  dialogs,  \* number of login dialogs on the screen
  login,    \* the login dialog: none (_login_opend is undefined), ready, key and
            \* check (requests in flight), alert, dead (isDoLogin stays set)
  session   \* whether the server has a session of the user

clientVars == <<status, made, throws, answer, promise, calls, active, mask, dialogs, login, session>>
request == <<status, made, throws, answer, promise, calls>>
screen == <<active, mask, dialogs, login>>

Threw(r) == throws[r] /\ calls[r] > 0
Loading(r) == status[r] = "sent" /\ made[r] # "quiet"

ClientTypeOK ==
  /\ status \in [Requests -> {"idle", "sent", "done"}]
  /\ made \in [Requests -> {"click", "script", "quiet"}]
  /\ throws \in [Requests -> BOOLEAN]
  /\ answer \in [Requests -> {"none", "ok", "failed", "401"}]
  /\ promise \in [Requests -> {"pending", "resolved", "rejected"}]
  /\ calls \in [Requests -> 0..2]
  /\ active \in 0..Cardinality(Requests)
  /\ mask \in BOOLEAN
  /\ dialogs \in 0..1
  /\ login \in {"none", "ready", "key", "check", "alert", "dead"}
  /\ session \in BOOLEAN

ClientInit ==
  /\ status = [r \in Requests |-> "idle"]
  /\ made = [r \in Requests |-> "script"]
  /\ throws = [r \in Requests |-> FALSE]
  /\ answer = [r \in Requests |-> "none"]
  /\ promise = [r \in Requests |-> "pending"]
  /\ calls = [r \in Requests |-> 0]
  /\ active = 0
  /\ mask = FALSE
  /\ dialogs = 0
  /\ login = "none"
  /\ session \in BOOLEAN

(***************************************************************************)
(* jQuery.ajax (jquery-1.12.4.js) and ServiceHelper.callback               *)
(***************************************************************************)

\* complete, then error or success, then reject or resolve; $.error throws again
\* what a callback has thrown.
Callback(r, outcome) ==
  /\ calls' = [calls EXCEPT ![r] = @ + 1]
  /\ promise' = IF throws[r] THEN promise ELSE [promise EXCEPT ![r] = outcome]

\* Mutant: the handler of ajaxStop is missing.
AjaxStopMissing(n) == UNCHANGED mask

\* The handler of ajaxStop, when n requests are left.
AjaxStop(n) == mask' = (n > 0 /\ mask)

\* The rest of jQuery's done: the event ajaxComplete and the count of the active
\* requests.  An exception of a callback skips it.
AfterCallback(r) ==
  IF throws[r] THEN UNCHANGED screen
  ELSE /\ active' = active - 1
       /\ AjaxStop(active - 1)
       /\ UNCHANGED <<dialogs, login>>

(***************************************************************************)
(* invoke and the handler of ajaxSend                                      *)
(***************************************************************************)

\* ajaxSend while the login dialog is open, whether or not the user is logged in
\* by now: xhr.abort() runs the error callback at once.  If that throws, invoke
\* catches it and calls back a second time, which throws too or rejects the
\* Deferred; the request has been counted and will not be uncounted.
Abort(r, how, fails) ==
  /\ login # "none"
  /\ status' = [status EXCEPT ![r] = "done"]
  /\ made' = [made EXCEPT ![r] = how]
  /\ throws' = [throws EXCEPT ![r] = fails]
  /\ calls' = [calls EXCEPT ![r] = IF fails THEN 2 ELSE 1]
  /\ \E p \in IF fails THEN {"pending", "rejected"} ELSE {"rejected"} :
       promise' = [promise EXCEPT ![r] = p]
  /\ IF fails THEN active' = active + 1 /\ UNCHANGED mask
              ELSE AjaxStop(active) /\ UNCHANGED active
  /\ UNCHANGED <<answer, dialogs, login, session>>

\* Mutant: the mask is shown for the first request only.
SendUnmasked(r, how, fails) ==
  /\ login = "none"
  /\ status' = [status EXCEPT ![r] = "sent"]
  /\ made' = [made EXCEPT ![r] = how]
  /\ throws' = [throws EXCEPT ![r] = fails]
  /\ active' = active + 1
  /\ mask' = (mask \/ (how # "quiet" /\ active = 0))
  /\ UNCHANGED <<answer, promise, calls, dialogs, login, session>>

\* ajaxSend otherwise.
Send(r, how, fails) ==
  /\ login = "none"
  /\ status' = [status EXCEPT ![r] = "sent"]
  /\ made' = [made EXCEPT ![r] = how]
  /\ throws' = [throws EXCEPT ![r] = fails]
  /\ active' = active + 1
  /\ mask' = (mask \/ how # "quiet")
  /\ UNCHANGED <<answer, promise, calls, dialogs, login, session>>

Invoke(r, how, fails) ==
  /\ status[r] = "idle"
  /\ how = "click" => ~mask
  /\ Abort(r, how, fails) \/ Send(r, how, fails)

(***************************************************************************)
(* Answers                                                                 *)
(***************************************************************************)

\* The server handles the request, at any time before its answer arrives.
Process(r) ==
  /\ status[r] = "sent" /\ answer[r] = "none"
  /\ \E a \in IF session THEN {"ok", "failed"} ELSE {"401"} : answer' = [answer EXCEPT ![r] = a]
  /\ UNCHANGED <<status, made, throws, promise, calls, screen, session>>

\* success: the data says whether the call succeeded.
Success(r) ==
  /\ status[r] = "sent" /\ answer[r] \in {"ok", "failed"}
  /\ status' = [status EXCEPT ![r] = "done"]
  /\ Callback(r, IF answer[r] = "ok" THEN "resolved" ELSE "rejected")
  /\ AfterCallback(r)
  /\ UNCHANGED <<made, throws, answer, session>>

\* Mutant: a dialog is opened though there is one.
UnauthorizedAgain(r) ==
  /\ status[r] = "sent" /\ answer[r] = "401"
  /\ status' = [status EXCEPT ![r] = "done"]
  /\ login' = "ready"
  /\ dialogs' = dialogs + 1
  /\ active' = active - 1
  /\ AjaxStop(active - 1)
  /\ UNCHANGED <<made, throws, answer, promise, calls, session>>

\* error with status 401: ignore401 skips the callback, and ajaxComplete opens
\* the login dialog unless it is open.  Layer's open is taken not to throw.
Unauthorized(r) ==
  /\ status[r] = "sent" /\ answer[r] = "401"
  /\ status' = [status EXCEPT ![r] = "done"]
  /\ login' = IF login = "none" THEN "ready" ELSE login
  /\ dialogs' = IF login = "none" THEN dialogs + 1 ELSE dialogs
  /\ active' = active - 1
  /\ AjaxStop(active - 1)
  /\ UNCHANGED <<made, throws, answer, promise, calls, session>>

\* Mutant: a timeout does not end the request, whose answer is still taken.
GiveUpLate(r) ==
  /\ status[r] = "sent" /\ calls[r] = 0
  /\ Callback(r, "rejected")
  /\ AfterCallback(r)
  /\ UNCHANGED <<status, made, throws, answer, session>>

\* error with another status: no connection, or the timeout of five minutes.
GiveUp(r) ==
  /\ status[r] = "sent"
  /\ status' = [status EXCEPT ![r] = "done"]
  /\ Callback(r, "rejected")
  /\ AfterCallback(r)
  /\ UNCHANGED <<made, throws, answer, session>>

(***************************************************************************)
(* login.jsp                                                               *)
(***************************************************************************)

\* login: getKey shows the mask on the page.
SubmitLogin ==
  /\ login = "ready" /\ ~mask
  /\ login' = "key"
  /\ mask' = TRUE
  /\ UNCHANGED <<request, active, dialogs, session>>

\* getKey succeeds: check is sent from its callback, before ajaxStop.
KeyReceived ==
  /\ login = "key"
  /\ login' = "check"
  /\ mask' = TRUE
  /\ UNCHANGED <<request, active, dialogs, session>>

\* redirect closes the dialog; the ajaxStop of its frame lifts the mask.
LoginSucceeds ==
  /\ login = "check"
  /\ session' = TRUE
  /\ login' = "none"
  /\ dialogs' = dialogs - 1
  /\ mask' = FALSE
  /\ UNCHANGED <<request, active>>

\* reset; after a timeout the server may have logged the user in.
LoginFails ==
  /\ login \in {"key", "check"}
  /\ login' = "alert"
  /\ mask' = FALSE
  /\ session' \in {session} \cup (IF login = "check" THEN {TRUE} ELSE {})
  /\ UNCHANGED <<request, active, dialogs>>

\* The button of the alert resets isDoLogin; its close icon does not.
DismissAlert ==
  /\ login = "alert" /\ ~mask
  /\ login' \in {"ready", "dead"}
  /\ UNCHANGED <<request, active, mask, dialogs, session>>

\* shadeClose: a click beside the dialog; its frame and requests are gone.
CloseDialog ==
  /\ login # "none" /\ ~mask
  /\ login' = "none"
  /\ dialogs' = dialogs - 1
  /\ UNCHANGED <<request, active, mask, session>>

\* The session ends on the server.
Expire ==
  /\ session
  /\ session' = FALSE
  /\ UNCHANGED <<request, screen>>

ClientNext ==
  \/ \E r \in Requests :
       \/ \E how \in {"click", "script", "quiet"}, fails \in BOOLEAN : Invoke(r, how, fails)
       \/ Process(r) \/ Success(r) \/ Unauthorized(r) \/ GiveUp(r)
  \/ SubmitLogin \/ KeyReceived \/ LoginSucceeds \/ LoginFails \/ DismissAlert \/ CloseDialog
  \/ Expire

\* jQuery ends every request by an answer or by its timeout.
Fairness ==
  /\ \A r \in Requests : WF_clientVars(Success(r) \/ Unauthorized(r) \/ GiveUp(r))
  /\ WF_clientVars(KeyReceived \/ LoginSucceeds \/ LoginFails)

ClientSpec == ClientInit /\ [][ClientNext]_clientVars /\ Fairness

(***************************************************************************)
(* Properties                                                              *)
(***************************************************************************)

\* A Deferred is settled by the one callback of its request, also when a timeout
\* and an answer race, and after a callback that threw only by invoke's second
\* call of an aborted request; it stays pending only after a 401 or when the
\* callback threw (ServiceHelper.callback, invoke).
SettledOnce ==
  \A r \in Requests :
    /\ promise[r] # "pending" => status[r] = "done" /\ calls[r] = IF throws[r] THEN 2 ELSE 1
    /\ status[r] = "done" /\ promise[r] = "pending" => answer[r] = "401" \/ Threw(r)
    /\ calls[r] = 2 => Threw(r)

\* Two clicks are never in flight together: the mask of the first keeps the user
\* from the second, although the login dialog and quiet requests remove masks
\* too (ajaxSend, ajaxStop).
NoDoubleSubmit ==
  /\ \A r \in Requests : Loading(r) => mask
  /\ \A q, r \in {s \in Requests : Loading(s) /\ made[s] = "click"} : q = r

\* However many answers are 401, one login dialog is open, and the flag knows it
\* (_login_opend in ajaxComplete).
OneDialog == dialogs = IF login = "none" THEN 0 ELSE 1

\* The page becomes usable again after every request, unless a callback has
\* thrown: then jQuery's count stays up and ajaxStop never comes.
MaskLifted == mask ~> (~mask \/ \E r \in Requests : Threw(r))
=============================================================================
