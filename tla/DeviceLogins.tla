---------------------------- MODULE DeviceLogins ----------------------------
(* Device logins (devicelogin/service.go, codexauth/client.go) beside the
   refreshes, changes and restarts of Credentials: a goroutine per login polls
   the provider until the user has approved it, exchanges the code for tokens
   and saves them.  Its deadline, the shutdown and every answer may come at any
   moment.  A login that is forgotten gives its place to a new one. *)
EXTENDS Credentials

CONSTANT Logins

VARIABLE login    \* for each one what is told of it, its goroutine and its token

NoLogin == [status |-> "none", pc |-> "ended", token |-> 0]

LoginTypeOK ==
  login \in [Logins -> [status: {"none", "pending", "ready", "expired", "error"},
                        pc: {"polling", "exchanged", "saving", "ended"},
                        token: 0..MaxTokens]]

LoginInit == Init /\ login = [l \in Logins |-> NoLogin]
-----------------------------------------------------------------------------

Start(l) ==
  /\ login[l].status = "none"
  /\ login' = [login EXCEPT ![l] = [NoLogin EXCEPT !.status = "pending", !.pc = "polling"]]
  /\ UNCHANGED vars

SetStatus(l, status) ==
  login' = [login EXCEPT ![l] = [NoLogin EXCEPT !.status = status]]

\* The deadline passes or the service closes while the goroutine waits for the
\* next poll; when a poll is due as well, either is taken.
Deadline(l) ==
  /\ login[l].pc = "polling"
  /\ SetStatus(l, "expired")
  /\ UNCHANGED vars

\* A poll or the exchange fails, also because the deadline passes meanwhile.
LoginFails(l) ==
  /\ login[l].pc = "polling"
  /\ SetStatus(l, "error")
  /\ UNCHANGED vars

\* PollDeviceCode has a code ("not yet" changes nothing), and the provider issues
\* tokens for it; the answer may be lost, or name no account.
ExchangeAuthorizationCode(l) ==
  /\ login[l].pc = "polling" /\ issued < MaxTokens
  /\ issued' = issued + 1 /\ valid' = valid \union {issued'}
  /\ \/ login' = [login EXCEPT ![l].pc = "exchanged", ![l].token = issued']
     \/ SetStatus(l, "error")
  /\ UNCHANGED <<record, disk, saver, dirty, caller, excused>>

Upsert(l) ==
  /\ login[l].pc = "exchanged"
  /\ UpsertFromToken(login[l].token)
  /\ login' = [login EXCEPT ![l].pc = "saving"]

\* A variant with a plausible bug, used only to show what a property catches.
SavedStatusUncheckedBug(l) == SetStatus(l, "ready")

SavedStatus(l) == SetStatus(l, IF dirty' THEN "error" ELSE "ready")

SaveLogin(l) == login[l].pc = "saving" /\ Save /\ SavedStatus(l)

\* Once its time is over, whatever became of it.
DeleteExpired(l) ==
  /\ login[l].status \notin {"none", "pending"}
  /\ login' = [login EXCEPT ![l] = NoLogin]
  /\ UNCHANGED vars

LoginRestart == Restart /\ login' = [l \in Logins |-> NoLogin]

LoginNext ==
  \/ \E l \in Logins :
       \/ Start(l) \/ Deadline(l) \/ LoginFails(l)
       \/ ExchangeAuthorizationCode(l) \/ Upsert(l) \/ SaveLogin(l) \/ DeleteExpired(l)
  \/ LoginRestart
  \/ /\ UNCHANGED login
     /\ \/ \E c \in Callers : EnsureReady(c) \/ Refresh(c) \/ Lock(c) \/ Answered(c) \/ Apply(c)
        \/ saver # "login" /\ Save
        \/ Remove \/ Unauthorized \/ Expire
        \/ \E s \in {"active", "disabled"} : Patch(s)

LoginSpec == LoginInit /\ [][LoginNext]_<<vars, login>>
-----------------------------------------------------------------------------

(* poll: a login is told to be ready when its token is in the accounts file of an
   active account, so that even a restart right afterwards keeps it; one that is
   told to have failed or expired has changed nothing there, whatever deadlines,
   refreshes, failed writes and other logins came in between. *)
LoginTold ==
  [][\A l \in Logins :
       login[l].status = "pending" /\ login'[l].status \notin {"none", "pending"} =>
         LET saved == disk' # None /\ disk'.status = "active" /\ disk'.token = login[l].token
         IN  (login'[l].status = "ready") <=> saved]_<<vars, login>>
=============================================================================
