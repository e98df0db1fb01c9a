---------------------------- MODULE Credentials ----------------------------
(***************************************************************************)
(* The saved login of one upstream account: the refresh token that the     *)
(* provider replaces on use, the record in memory (accounts.Service), the  *)
(* accounts file (jsonstore), and the goroutines of the account manager    *)
(* that refresh it under a lock per account while device logins, the admin *)
(* API and failed requests change the same record.  The process may stop   *)
(* at any point and starts again from the file.                            *)
(***************************************************************************)
EXTENDS Naturals

CONSTANTS Callers,    \* goroutines that need a fresh token or were told to get one
          MaxTokens,  \* bound: refresh tokens the provider issues
          None

ASSUME MaxTokensAssumption == MaxTokens \in Nat \ {0}

VARIABLES
  record,   \* Service.records: the account's record, or None
  disk,     \* the record in the accounts file, or None
  saver,    \* who holds Service.mu while its change is written, or None
  dirty,    \* the last write failed: memory is ahead of the file
  caller,   \* what each goroutine of ensureReady or Refresh has read and heard
  issued,   \* provider: the number of refresh tokens it has issued
  valid,    \* provider: the refresh tokens it accepts
  excused   \* history: tokens whose replacement never reached the file

vars == <<record, disk, saver, dirty, caller, issued, valid, excused>>
-----------------------------------------------------------------------------

Tokens == 1..MaxTokens

Statuses == {"active", "disabled", "expired"}

\* A local id is never used twice: here it is the account's first token.
\* fresh: the access token stays valid for longer than the refresh skew.
Records == [id: Tokens, status: Statuses, token: Tokens, fresh: BOOLEAN]

\* None and the labels of saver name no goroutine, and None is no record.
ASSUME NamesAssumption ==
  /\ "other" \notin Callers /\ "login" \notin Callers
  /\ None \notin Callers /\ None \notin {"other", "login"} /\ None \notin Records

Idle == [pc |-> "idle", forced |-> FALSE, id |-> 0, token |-> 0,
         answer |-> "none", overtaken |-> FALSE]

TypeOK ==
  /\ record \in Records \union {None} /\ disk \in Records \union {None}
  /\ saver \in Callers \union {None, "other", "login"} /\ dirty \in BOOLEAN
  /\ caller \in [Callers ->
       [pc: {"idle", "blocked", "asking", "answered", "saving"}, forced: BOOLEAN,
        id: 0..MaxTokens, token: 0..MaxTokens,
        answer: {"none", "ok", "refused", "failed"}, overtaken: BOOLEAN]]
  /\ issued \in Tokens /\ valid \subseteq 1..issued /\ excused \subseteq 1..issued

Init ==
  /\ record \in [id: {1}, status: Statuses, token: {1}, fresh: BOOLEAN] \union {None}
  /\ disk = record /\ saver = None /\ dirty = FALSE
  /\ caller = [c \in Callers |-> Idle]
  /\ issued = 1 /\ valid = {1} /\ excused = {}

LockedNeverBug(c) == FALSE

\* The goroutine holds the account's lock.
Locked(c) == caller[c].pc \in {"asking", "answered", "saving"}

Return(c) == caller' = [caller EXCEPT ![c] = Idle]

\* persistLocked: memory has changed, the mutex stays held until the file is
\* written or the write has failed.
Persist(r, who) == /\ saver = None
                   /\ record' = r /\ saver' = who
                   /\ UNCHANGED <<disk, dirty>>
-----------------------------------------------------------------------------

\* ensureReady up to the lock: an account that is disabled or whose token is
\* fresh returns at once.
EnsureReady(c) ==
  /\ caller[c].pc = "idle" /\ saver = None
  /\ record # None /\ record.status # "disabled" /\ ~record.fresh
  /\ caller' = [caller EXCEPT ![c] = [Idle EXCEPT !.pc = "blocked", !.id = record.id]]
  /\ UNCHANGED <<record, disk, saver, dirty, issued, valid, excused>>

\* Refresh by the admin API: no check of the record.
Refresh(c) ==
  /\ caller[c].pc = "idle" /\ record # None
  /\ caller' = [caller EXCEPT ![c] = [Idle EXCEPT !.pc = "blocked", !.id = record.id,
                                                  !.forced = TRUE]]
  /\ UNCHANGED <<record, disk, saver, dirty, issued, valid, excused>>

\* The account the goroutine works for is still there.
Found(c) == record # None /\ record.id = caller[c].id

\* What the record, read under the lock, lets the goroutine do.
Needed(c) == /\ Found(c)
             /\ caller[c].forced \/ (record.status # "disabled" /\ ~record.fresh)

Submit(c) == caller' = [caller EXCEPT ![c].pc = "asking", ![c].forced = FALSE,
                                      ![c].token = record.token]

\* The lock of the account is taken and the record read again: the token may
\* have been refreshed in the meantime.  Reading it may also fail.
Lock(c) ==
  /\ caller[c].pc = "blocked" /\ saver = None
  /\ \A d \in Callers : ~(Locked(d) /\ caller[d].id = caller[c].id)
  /\ \/ Needed(c) /\ Submit(c)
     \/ Return(c)
  /\ UNCHANGED <<record, disk, saver, dirty, issued, valid, excused>>

Hear(c, answer, token) ==
  /\ caller' = [caller EXCEPT ![c].pc = "answered", ![c].answer = answer, ![c].token = token]
  /\ UNCHANGED <<record, disk, saver, dirty>>

\* OAuthService.Refresh keeps the old refresh token when the answer has none.
Kept(c) == /\ caller[c].pc = "asking" /\ caller[c].token \in valid
           /\ Hear(c, "ok", caller[c].token)
           /\ UNCHANGED <<issued, valid, excused>>

\* The provider replaces the token; its answer may be lost on the way, or
\* dropped because the client of the proxy went away.
Rotated(c) ==
  /\ caller[c].pc = "asking" /\ caller[c].token \in valid /\ issued < MaxTokens
  /\ issued' = issued + 1
  /\ valid' = (valid \ {caller[c].token}) \union {issued'}
  /\ \/ Hear(c, "ok", issued') /\ UNCHANGED excused
     \/ /\ Hear(c, "failed", 0)
        /\ excused' = excused \union {caller[c].token}

\* invalid_grant, the one terminal answer.
Refused(c) == /\ caller[c].pc = "asking" /\ caller[c].token \notin valid
              /\ Hear(c, "refused", 0)
              /\ UNCHANGED <<issued, valid, excused>>

\* Any other error: 5xx, no connection, timeout, canceled request.
Failed(c) == /\ caller[c].pc = "asking"
             /\ Hear(c, "failed", 0)
             /\ UNCHANGED <<issued, valid, excused>>
-----------------------------------------------------------------------------

UpdateAuthDropsTokenBug(r, token) ==
  [r EXCEPT !.fresh = TRUE, !.status = IF @ = "disabled" THEN @ ELSE "active"]

UpdateAuth(r, token) ==
  [r EXCEPT !.token = token, !.fresh = TRUE,
            !.status = IF @ = "disabled" THEN @ ELSE "active"]

MarkError(r) == [r EXCEPT !.status = "expired"]

OutcomeAlwaysTerminalBug(r, c) ==
  IF caller[c].answer = "ok" THEN UpdateAuth(r, caller[c].token) ELSE MarkError(r)

\* The record after a refresh: SetCooldown changes nothing that is kept here.
Outcome(r, c) == CASE caller[c].answer = "ok" -> UpdateAuth(r, caller[c].token)
                   [] caller[c].answer = "refused" -> MarkError(r)
                   [] caller[c].answer = "failed" -> r

\* refreshLocked after the answer.  An account that was removed is not found.
Apply(c) ==
  /\ caller[c].pc = "answered"
  /\ \/ /\ Found(c)
        /\ Persist(Outcome(record, c), c)
        /\ caller' = [caller EXCEPT ![c] = [Idle EXCEPT !.pc = "saving", !.id = record.id]]
     \/ /\ ~Found(c)
        /\ saver = None /\ Return(c)
        /\ UNCHANGED <<record, disk, saver, dirty>>
  /\ UNCHANGED <<issued, valid, excused>>

\* Save: the whole file is written beside the old one and renamed over it, so
\* that a failure at any point leaves the old file.
Written == disk' = record /\ dirty' = FALSE

NotWritten == dirty' = TRUE /\ UNCHANGED disk

Save == /\ saver # None /\ saver' = None
        /\ Written \/ NotWritten
        /\ IF saver \in Callers THEN Return(saver) ELSE UNCHANGED caller
        /\ UNCHANGED <<record, issued, valid, excused>>
-----------------------------------------------------------------------------

\* A device login saves its token without the account's lock; a goroutine that
\* is refreshing has been overtaken.
UpsertFromToken(token) ==
  /\ Persist([id |-> IF record = None THEN token ELSE record.id,
              status |-> "active", token |-> token, fresh |-> TRUE], "login")
  /\ caller' = [c \in Callers |-> [caller[c] EXCEPT !.overtaken = Locked(c) \/ @]]
  /\ UNCHANGED <<issued, valid, excused>>

\* The admin API changes the status.
Patch(s) == /\ record # None /\ Persist([record EXCEPT !.status = s], "other")
            /\ UNCHANGED <<caller, issued, valid, excused>>

Remove == /\ record # None /\ Persist(None, "other")
          /\ UNCHANGED <<caller, issued, valid, excused>>

\* classifyUpstreamError after a 401, whatever token the request was sent with.
Unauthorized == /\ record # None /\ Persist(MarkError(record), "other")
                /\ UNCHANGED <<caller, issued, valid, excused>>

\* The access token gets close to its expiry; older ones expired before it.
Stale(r) == IF r = None THEN None ELSE [r EXCEPT !.fresh = FALSE]

Expire == /\ record # None /\ record.fresh
          /\ record' = Stale(record) /\ disk' = Stale(disk)
          /\ UNCHANGED <<saver, dirty, caller, issued, valid, excused>>

\* The process stops and NewService loads the file.  What the provider issued
\* and no write has completed is lost.
Restart ==
  /\ \/ UNCHANGED disk
     \/ saver # None /\ disk' = record
  /\ record' = disk' /\ saver' = None /\ dirty' = FALSE
  /\ caller' = [c \in Callers |-> Idle]
  /\ excused' = IF disk' # None /\ (dirty \/ saver # None \/ \E c \in Callers : caller[c].pc = "answered")
                THEN excused \union ({disk'.token} \ valid) ELSE excused
  /\ UNCHANGED <<issued, valid>>

Answered(c) == Kept(c) \/ Rotated(c) \/ Refused(c) \/ Failed(c)
-----------------------------------------------------------------------------

\* A saved refresh token is the provider's current one, in memory and, while no
\* write is missing, in the file, unless a refresh that holds its replacement
\* is under way or the replacement was lost on the way: no interleaving of
\* refreshes, logins, removals and restarts makes the proxy forget a token.
Usable(r) ==
  \/ r = None
  \/ r.token \in valid \union excused
  \/ \E c \in Callers : /\ caller[c].pc = "answered" /\ caller[c].id = r.id
                        /\ caller[c].answer = "ok" /\ caller[c].token \in valid \union excused

TokenUsable == Usable(record) /\ (saver = None /\ ~dirty => Usable(disk))

\* refreshLocked submits a token the provider has already replaced only when the
\* replacement was lost: goroutines that found the same token too old do not
\* spend it twice.
ReplacedTokenNotReused ==
  \A c \in Callers : caller[c].pc = "asking" => caller[c].token \in valid \union excused

\* markRefreshFailure: an account that a refresh marks as expired has a refresh
\* token that the provider refuses, so that only a new login can help, unless a
\* login has overtaken the refresh.
ExpiredForAReason ==
  [][\A c \in Callers :
       /\ caller[c].pc = "answered" /\ caller'[c].pc = "saving" /\ ~caller[c].overtaken
       /\ record.status # "expired" /\ record'.status = "expired"
       => record.token \notin valid]_vars
=============================================================================
