------------------------- MODULE CredentialsProofs -------------------------
(* Proofs about Credentials with the device logins of DeviceLogins: the saved
   refresh token stays usable, no replaced token is sent again, an account expires
   for a reason, and a login is told the truth.  The argument is about who may hold
   a token.  The account's lock and the ids that are never used again keep the
   tokens that goroutines and logins hold apart, so that the provider's replacing
   one of them invalidates no other; a goroutine that a login has not overtaken
   asks with the very token of the record. *)
EXTENDS DeviceLogins, TLAPS

\* What a goroutine, and a login, can be like.
CallerStates ==
  [pc: {"idle", "blocked", "asking", "answered", "saving"}, forced: BOOLEAN,
   id: 0..MaxTokens, token: 0..MaxTokens,
   answer: {"none", "ok", "refused", "failed"}, overtaken: BOOLEAN]

LoginStates == [status: {"none", "pending", "ready", "expired", "error"},
                pc: {"polling", "exchanged", "saving", "ended"}, token: 0..MaxTokens]

\* The goroutine holds a token that it submits or that it was given.
Holds(c) == \/ caller[c].pc = "asking"
            \/ caller[c].pc = "answered" /\ caller[c].answer = "ok"

\* Nothing is held that the provider has not issued, and nothing is in the file
\* that is not in memory unless a write is missing.
SavedOK ==
  /\ record # None => record.token \in 1..issued
  /\ disk # None => disk.token \in 1..issued
  /\ saver = None /\ ~dirty => disk = record

\* One goroutine at a time has the lock of an account.
LockExclusive ==
  \A c, d \in Callers : Locked(c) /\ Locked(d) /\ caller[c].id = caller[d].id => c = d

\* No two goroutines hold the same token.
TokensApart ==
  \A c, d \in Callers : Holds(c) /\ Holds(d) /\ caller[c].token = caller[d].token => c = d

\* The token a goroutine holds is accepted by the provider or excused; it is the
\* record's as long as the goroutine asks and no login has overtaken it, and never
\* the record's afterwards.
CallerOK(c) ==
  /\ saver = c <=> caller[c].pc = "saving"
  /\ caller[c].pc = "blocked" => ~caller[c].overtaken
  /\ caller[c].pc = "answered" => caller[c].answer # "none"
  /\ Holds(c) => caller[c].token \in valid \union excused
  /\ Holds(c) /\ caller[c].overtaken /\ record # None => caller[c].token # record.token
  /\ caller[c].pc \in {"asking", "answered"} /\ ~caller[c].overtaken /\ record # None =>
       /\ caller[c].id = record.id
       /\ caller[c].pc = "asking" => caller[c].token = record.token
       /\ caller[c].pc = "answered" /\ caller[c].answer = "refused" => record.token \notin valid

\* The login has a token that it has not yet been told to have saved.
Carries(l) == login[l].pc \in {"exchanged", "saving"}

\* A login's token is accepted, and neither in the file nor held by a goroutine
\* before it is saved; while it is being saved nothing else changes the record.
LoginOK(l) ==
  /\ login[l].pc = "polling" => login[l].token = 0
  /\ login[l].status = "pending" <=> login[l].pc # "ended"
  /\ Carries(l) =>
       /\ login[l].token \in valid
       /\ disk # None => disk.token # login[l].token
       /\ \A c \in Callers : Holds(c) => caller[c].token # login[l].token
  /\ login[l].pc = "exchanged" /\ record # None => record.token # login[l].token
  /\ login[l].pc = "saving" => /\ saver = "login" /\ record # None
                               /\ record.status = "active" /\ record.token = login[l].token

\* No two logins have the same token.
LoginsApart ==
  \A l, m \in Logins : Carries(l) /\ Carries(m) /\ login[l].token = login[m].token => l = m

\* The inductive invariant.
IInv == /\ TypeOK /\ LoginTypeOK /\ SavedOK
        /\ LockExclusive /\ TokensApart /\ LoginsApart
        /\ \A c \in Callers : CallerOK(c)
        /\ \A l \in Logins : LoginOK(l)
        /\ Usable(record)
-----------------------------------------------------------------------------

USE MaxTokensAssumption

\* A goroutine that waits for nothing.
LEMMA IdleType == /\ Idle \in CallerStates
                  /\ Idle.pc = "idle" /\ ~Idle.overtaken
<1>1. 0 \in 0..MaxTokens
  OBVIOUS
<1> QED
  BY <1>1 DEF Idle, CallerStates

\* A login that has not been started.
LEMMA NoLoginType ==
  /\ NoLogin \in LoginStates
  /\ NoLogin.pc = "ended" /\ NoLogin.token = 0 /\ NoLogin.status = "none"
<1>1. 0 \in 0..MaxTokens
  OBVIOUS
<1> QED
  BY <1>1 DEF NoLogin, LoginStates

\* A login that has ended.
LEMMA TerminalLogin ==
  ASSUME NEW s \in {"ready", "expired", "error"}
  PROVE  /\ [NoLogin EXCEPT !.status = s] \in LoginStates
         /\ [NoLogin EXCEPT !.status = s].pc = "ended"
         /\ [NoLogin EXCEPT !.status = s].status = s
         /\ [NoLogin EXCEPT !.status = s].token = 0
BY NoLoginType DEF LoginStates

\* What submitting the token does to the goroutines.
LEMMA SubmitStep ==
  ASSUME TypeOK, NEW c \in Callers, record # None, Submit(c)
  PROVE  /\ caller' \in [Callers -> CallerStates]
         /\ \A d \in Callers : d # c => caller'[d] = caller[d]
         /\ caller'[c].pc = "asking" /\ caller'[c].token = record.token
         /\ caller'[c].id = caller[c].id /\ caller'[c].overtaken = caller[c].overtaken
<1>1. record \in Records /\ caller \in [Callers -> CallerStates]
  BY DEF TypeOK, CallerStates
<1>2. record.token \in 0..MaxTokens
  BY <1>1 DEF Records, Tokens
<1> DEFINE q == [caller[c] EXCEPT !.pc = "asking", !.forced = FALSE, !.token = record.token]
<1>3. caller[c] \in CallerStates
  BY <1>1
<1>4. /\ q \in CallerStates
      /\ q.pc = "asking" /\ q.token = record.token
      /\ q.id = caller[c].id /\ q.overtaken = caller[c].overtaken
  BY <1>2, <1>3 DEF CallerStates
<1>5. caller' = [caller EXCEPT ![c] = q]
  BY <1>1, <1>3 DEF Submit
<1> QED
  BY <1>1, <1>4, <1>5

\* What an answer of the provider does to the goroutines.
LEMMA HearStep ==
  ASSUME TypeOK, NEW c \in Callers, NEW answer \in {"ok", "refused", "failed"},
         NEW token \in 0..MaxTokens, Hear(c, answer, token)
  PROVE  /\ caller' \in [Callers -> CallerStates]
         /\ \A d \in Callers : d # c => caller'[d] = caller[d]
         /\ caller'[c].pc = "answered" /\ caller'[c].token = token
         /\ caller'[c].answer = answer
         /\ caller'[c].id = caller[c].id /\ caller'[c].overtaken = caller[c].overtaken
<1>1. caller \in [Callers -> CallerStates] /\ caller[c] \in CallerStates
  BY DEF TypeOK, CallerStates
<1> DEFINE q == [caller[c] EXCEPT !.pc = "answered", !.answer = answer, !.token = token]
<1>4. /\ q \in CallerStates
      /\ q.pc = "answered" /\ q.token = token /\ q.answer = answer
      /\ q.id = caller[c].id /\ q.overtaken = caller[c].overtaken
  BY <1>1 DEF CallerStates
<1>5. caller' = [caller EXCEPT ![c] = q]
  BY <1>1 DEF Hear
<1> QED
  BY <1>1, <1>4, <1>5

\* A goroutine that starts to wait for the lock, or returns without a change.
LEMMA QuietStep ==
  ASSUME IInv, NEW c \in Callers, NEW q \in CallerStates,
         caller[c].pc \in {"idle", "blocked", "answered"},
         caller[c].pc = "answered" => ~Found(c),
         q.pc \in {"idle", "blocked"}, ~q.overtaken,
         caller' = [caller EXCEPT ![c] = q],
         UNCHANGED <<record, disk, saver, dirty, issued, valid, excused, login>>
  PROVE  IInv'
<1>1. caller \in [Callers -> CallerStates]
  BY DEF IInv, TypeOK, CallerStates
<1>2. caller' \in [Callers -> CallerStates] /\ caller'[c] = q
      /\ \A d \in Callers : d # c => caller'[d] = caller[d]
  BY <1>1
<1>3. ~Locked(c)' /\ ~Holds(c)'
  BY <1>2 DEF Locked, Holds
<1>4. \A d \in Callers : d # c => /\ Locked(d)' <=> Locked(d)
                                  /\ Holds(d)' <=> Holds(d)
  BY <1>2 DEF Locked, Holds
<1>5. TypeOK' /\ LoginTypeOK'
  BY <1>2 DEF IInv, TypeOK, LoginTypeOK, CallerStates
<1>6. SavedOK' /\ LoginsApart'
  BY DEF IInv, SavedOK, LoginsApart, Carries
<1>7. LockExclusive' /\ TokensApart'
  BY <1>2, <1>3, <1>4 DEF IInv, LockExclusive, TokensApart
<1>8. ASSUME NEW d \in Callers PROVE CallerOK(d)'
  <2>1. CASE d = c
    BY <2>1, <1>2, <1>3 DEF IInv, CallerOK
  <2>2. CASE d # c
    BY <2>2, <1>2, <1>4 DEF IInv, CallerOK
  <2> QED
    BY <2>1, <2>2
<1>9. ASSUME NEW l \in Logins PROVE LoginOK(l)'
  BY <1>2, <1>3, <1>4 DEF IInv, LoginOK, Carries
<1>10. Usable(record)'
  BY <1>2 DEF IInv, Usable, Found
<1> QED
  BY <1>5, <1>6, <1>7, <1>8, <1>9, <1>10 DEF IInv

\* Under the lock no other goroutine has the account's token: those that work for
\* another id have been overtaken by the login that brought the record.
LEMMA SubmitKeeps ==
  ASSUME IInv, NEW c \in Callers, caller[c].pc = "blocked", saver = None,
         \A d \in Callers : ~(Locked(d) /\ caller[d].id = caller[c].id),
         Found(c), Submit(c),
         UNCHANGED <<record, disk, saver, dirty, issued, valid, excused, login>>
  PROVE  IInv'
<1>1. caller \in [Callers -> CallerStates]
  BY DEF IInv, TypeOK, CallerStates
<1>2. /\ caller' \in [Callers -> CallerStates]
      /\ \A d \in Callers : d # c => caller'[d] = caller[d]
      /\ caller'[c].pc = "asking" /\ caller'[c].token = record.token
      /\ caller'[c].id = caller[c].id /\ caller'[c].overtaken = caller[c].overtaken
  BY SubmitStep DEF IInv, Found
<1>3. Locked(c)' /\ Holds(c)' /\ ~caller'[c].overtaken /\ caller'[c].id = record.id
  BY <1>2 DEF Locked, Holds, IInv, CallerOK, Found
<1>4. \A d \in Callers : d # c => /\ Locked(d)' <=> Locked(d)
                                  /\ Holds(d)' <=> Holds(d)
  BY <1>2 DEF Locked, Holds
<1>5. ASSUME NEW d \in Callers, Holds(d)
      PROVE  caller[d].token # record.token
  BY <1>5 DEF IInv, CallerOK, Holds, Locked, Found
<1>6. record.token \in valid \union excused
  BY DEF IInv, Usable, Found, Locked
<1>7. TypeOK' /\ LoginTypeOK'
  BY <1>2 DEF IInv, TypeOK, LoginTypeOK, CallerStates
<1>8. SavedOK' /\ LoginsApart'
  BY DEF IInv, SavedOK, LoginsApart, Carries
<1>9. LockExclusive'
  BY <1>2, <1>4 DEF IInv, LockExclusive
<1>10. TokensApart'
  BY <1>2, <1>4, <1>5 DEF IInv, TokensApart
<1>11. ASSUME NEW d \in Callers PROVE CallerOK(d)'
  <2>1. CASE d = c
    BY <2>1, <1>2, <1>3, <1>6 DEF IInv, CallerOK
  <2>2. CASE d # c
    BY <2>2, <1>2, <1>4 DEF IInv, CallerOK
  <2> QED
    BY <2>1, <2>2
<1>12. ASSUME NEW l \in Logins PROVE LoginOK(l)'
  BY <1>2, <1>4, NamesAssumption DEF IInv, LoginOK, Carries, Found
<1>13. Usable(record)'
  BY <1>2, <1>6 DEF Usable
<1> QED
  BY <1>7, <1>8, <1>9, <1>10, <1>11, <1>12, <1>13 DEF IInv

\* Answers after which the provider accepts the same tokens as before.
LEMMA AnswerKeeps ==
  ASSUME IInv, NEW c \in Callers, caller[c].pc = "asking",
         NEW answer \in {"ok", "refused", "failed"}, NEW token \in 0..MaxTokens,
         Hear(c, answer, token),
         answer = "ok" => token = caller[c].token,
         answer = "refused" => caller[c].token \notin valid,
         UNCHANGED <<issued, valid, excused, login>>
  PROVE  IInv'
<1>1. caller \in [Callers -> CallerStates]
  BY DEF IInv, TypeOK, CallerStates
<1>2. /\ caller' \in [Callers -> CallerStates]
      /\ \A d \in Callers : d # c => caller'[d] = caller[d]
      /\ caller'[c].pc = "answered" /\ caller'[c].token = token
      /\ caller'[c].answer = answer
      /\ caller'[c].id = caller[c].id /\ caller'[c].overtaken = caller[c].overtaken
  BY HearStep DEF IInv
<1>3. UNCHANGED <<record, disk, saver, dirty>>
  BY DEF Hear
<1>4. /\ Locked(c) /\ Locked(c)' /\ Holds(c)
      /\ Holds(c)' => caller'[c].token = caller[c].token
  BY <1>2 DEF Locked, Holds
<1>5. \A d \in Callers : d # c => /\ Locked(d)' <=> Locked(d)
                                  /\ Holds(d)' <=> Holds(d)
  BY <1>2 DEF Locked, Holds
<1>6. TypeOK' /\ LoginTypeOK'
  BY <1>2, <1>3 DEF IInv, TypeOK, LoginTypeOK, CallerStates
<1>7. SavedOK' /\ LoginsApart'
  BY <1>3 DEF IInv, SavedOK, LoginsApart, Carries
<1>8. LockExclusive'
  BY <1>2, <1>4, <1>5 DEF IInv, LockExclusive
<1>9. TokensApart'
  BY <1>2, <1>4, <1>5 DEF IInv, TokensApart
<1>10. ASSUME NEW d \in Callers PROVE CallerOK(d)'
  <2>1. CASE d = c
    BY <2>1, <1>2, <1>3, <1>4 DEF IInv, CallerOK
  <2>2. CASE d # c
    BY <2>2, <1>2, <1>3, <1>5 DEF IInv, CallerOK
  <2> QED
    BY <2>1, <2>2
<1>11. ASSUME NEW l \in Logins PROVE LoginOK(l)'
  BY <1>2, <1>3, <1>4, <1>5 DEF IInv, LoginOK, Carries
<1>12. Usable(record)'
  BY <1>2, <1>3 DEF IInv, Usable
<1> QED
  BY <1>6, <1>7, <1>8, <1>9, <1>10, <1>11, <1>12 DEF IInv

\* The provider replaces a token: only this goroutine, and the record it works
\* for, had the old one.
LEMMA RotatedKeeps ==
  ASSUME IInv, NEW c \in Callers, Rotated(c), UNCHANGED login
  PROVE  IInv'
<1>1. /\ caller \in [Callers -> CallerStates] /\ issued \in Nat /\ issued + 1 \in Tokens
      /\ valid \subseteq 1..issued /\ excused \subseteq 1..issued
  BY DEF IInv, TypeOK, CallerStates, Rotated, Tokens
<1>2. /\ caller[c].pc = "asking" /\ caller[c].token \in valid
      /\ issued' = issued + 1
      /\ valid' = (valid \ {caller[c].token}) \union {issued + 1}
  BY DEF Rotated
<1>3. PICK answer \in {"ok", "failed"}, token \in {0, issued + 1} :
        /\ Hear(c, answer, token)
        /\ answer = "ok" => token = issued + 1 /\ UNCHANGED excused
        /\ answer = "failed" => excused' = excused \union {caller[c].token}
  BY DEF Rotated
<1>4. token \in 0..MaxTokens
  BY <1>1, <1>3 DEF Tokens
<1>5. /\ caller' \in [Callers -> CallerStates]
      /\ \A d \in Callers : d # c => caller'[d] = caller[d]
      /\ caller'[c].pc = "answered" /\ caller'[c].token = token
      /\ caller'[c].answer = answer
      /\ caller'[c].id = caller[c].id /\ caller'[c].overtaken = caller[c].overtaken
  BY <1>3, <1>4, HearStep DEF IInv
<1>6. UNCHANGED <<record, disk, saver, dirty>>
  BY <1>3 DEF Hear
<1>7. /\ Locked(c) /\ Locked(c)' /\ Holds(c)
      /\ Holds(c)' => caller'[c].token = issued + 1
  BY <1>2, <1>3, <1>5 DEF Locked, Holds
<1>8. \A d \in Callers : d # c => /\ Locked(d)' <=> Locked(d)
                                  /\ Holds(d)' <=> Holds(d)
  BY <1>5 DEF Locked, Holds
<1>9. /\ \A t \in valid \union excused : t # caller[c].token => t \in valid' \union excused'
      /\ \A t \in valid : t # caller[c].token => t \in valid'
      /\ \A t \in 1..issued : t \notin valid => t \notin valid'
      /\ issued + 1 \in valid' /\ issued + 1 \notin valid \union excused
      /\ valid' \subseteq 1..(issued + 1) /\ excused' \subseteq 1..(issued + 1)
  <2>1. excused \subseteq excused' /\ excused' \subseteq excused \union {caller[c].token}
    BY <1>3
  <2>2. \A t \in 1..issued : t # issued + 1 /\ t \in 1..(issued + 1)
    BY <1>1
  <2>3. issued + 1 \in 1..(issued + 1)
    BY <1>1
  <2> QED
    BY <2>1, <2>2, <2>3, <1>1, <1>2
<1>10. \A d \in Callers : Holds(d) => /\ caller[d].token \in valid \union excused
                                      /\ d # c => caller[d].token # caller[c].token
  BY <1>7 DEF IInv, CallerOK, TokensApart
<1>11. TypeOK' /\ LoginTypeOK'
  BY <1>1, <1>2, <1>5, <1>6, <1>9 DEF IInv, TypeOK, LoginTypeOK, CallerStates, Tokens
<1>12. SavedOK' /\ LoginsApart'
  BY <1>1, <1>2, <1>6 DEF IInv, SavedOK, LoginsApart, Carries
<1>13. LockExclusive'
  BY <1>5, <1>7, <1>8 DEF IInv, LockExclusive
<1>14. TokensApart'
  BY <1>5, <1>7, <1>8, <1>9, <1>10 DEF IInv, TokensApart
<1>15. record # None => record.token \in 1..issued /\ record.token # issued + 1
  BY <1>1 DEF IInv, SavedOK
<1>16. ASSUME NEW d \in Callers PROVE CallerOK(d)'
  <2>1. CASE d = c
    BY <2>1, <1>2, <1>3, <1>5, <1>6, <1>7, <1>9, <1>15 DEF IInv, CallerOK
  <2>2. CASE d # c
    BY <2>2, <1>5, <1>6, <1>8, <1>9, <1>10, <1>15 DEF IInv, CallerOK
  <2> QED
    BY <2>1, <2>2
<1>17. ASSUME NEW l \in Logins PROVE LoginOK(l)'
  <2>1. Carries(l) => /\ login[l].token \in valid /\ login[l].token # issued + 1
                      /\ login[l].token # caller[c].token
    BY <1>7, <1>9 DEF IInv, LoginOK
  <2>2. Carries(l)' <=> Carries(l)
    BY DEF Carries
  <2>3. Carries(l) => \A d \in Callers : Holds(d)' => caller'[d].token # login[l].token
    BY <2>1, <1>5, <1>7, <1>8 DEF IInv, LoginOK
  <2> QED
    BY <2>1, <2>2, <2>3, <1>6, <1>9 DEF IInv, LoginOK
<1>18. Usable(record)'
  <2>1. CASE record = None
    BY <2>1, <1>6 DEF Usable
  <2>2. CASE record # None /\ record.token = caller[c].token
    <3>1. ~caller[c].overtaken /\ caller[c].id = record.id
      BY <2>2, <1>2, <1>7 DEF IInv, CallerOK
    <3>2. CASE answer = "ok"
      BY <3>1, <3>2, <1>3, <1>5, <1>6, <1>9 DEF Usable
    <3>3. CASE answer = "failed"
      BY <2>2, <3>3, <1>3, <1>6 DEF Usable
    <3> QED
      BY <3>2, <3>3
  <2>3. CASE record # None /\ record.token # caller[c].token
    <3>1. CASE record.token \in valid \union excused
      BY <2>3, <3>1, <1>6, <1>9 DEF Usable
    <3>2. CASE record.token \notin valid \union excused
      <4>1. PICK d \in Callers :
              /\ caller[d].pc = "answered" /\ caller[d].id = record.id
              /\ caller[d].answer = "ok" /\ caller[d].token \in valid \union excused
        BY <2>3, <3>2 DEF IInv, Usable
      <4>2. d # c /\ Holds(d)
        BY <4>1, <1>2 DEF Holds
      <4> QED
        BY <4>1, <4>2, <1>5, <1>6, <1>9, <1>10 DEF Usable
    <3> QED
      BY <3>1, <3>2
  <2> QED
    BY <2>1, <2>2, <2>3
<1> QED
  BY <1>11, <1>12, <1>13, <1>14, <1>16, <1>17, <1>18 DEF IInv

\* A change of the record that keeps its id and its token.
LEMMA SameTokenKeeps ==
  ASSUME IInv, record # None, record' \in Records,
         record'.id = record.id, record'.token = record.token,
         disk = None => disk' = None,
         disk # None => disk' \in Records /\ disk'.token = disk.token,
         \/ saver = None /\ saver' = "other"
         \/ /\ saver' = saver /\ record'.status = record.status
            /\ disk = record => disk' = record',
         UNCHANGED <<dirty, caller, issued, valid, excused, login>>
  PROVE  IInv'
<1>1. TypeOK' /\ LoginTypeOK'
  BY DEF IInv, TypeOK, LoginTypeOK
<1>2. record' # None /\ (disk # None => disk' # None)
  BY NamesAssumption
<1>3. SavedOK'
  BY <1>2, NamesAssumption DEF IInv, SavedOK
<1>4. LockExclusive' /\ TokensApart' /\ LoginsApart'
  BY DEF IInv, LockExclusive, TokensApart, LoginsApart, Locked, Holds, Carries
<1>5. ASSUME NEW c \in Callers PROVE CallerOK(c)'
  BY <1>2, NamesAssumption DEF IInv, CallerOK, Holds
<1>6. ASSUME NEW l \in Logins PROVE LoginOK(l)'
  BY <1>2, NamesAssumption DEF IInv, LoginOK, Carries, Holds
<1>7. Usable(record)'
  BY <1>2 DEF IInv, Usable
<1> QED
  BY <1>1, <1>3, <1>4, <1>5, <1>6, <1>7 DEF IInv

\* UpdateAuth saves the token and never leaves an account expired.
LEMMA UpdateAuthType ==
  ASSUME NEW r \in Records, NEW t \in Tokens
  PROVE  /\ UpdateAuth(r, t) \in Records
         /\ UpdateAuth(r, t).id = r.id /\ UpdateAuth(r, t).token = t
         /\ UpdateAuth(r, t).status # "expired"
BY DEF UpdateAuth, Records, Statuses

\* MarkError keeps the id and the token.
LEMMA MarkErrorType ==
  ASSUME NEW r \in Records
  PROVE  /\ MarkError(r) \in Records
         /\ MarkError(r).id = r.id /\ MarkError(r).token = r.token
BY DEF MarkError, Records, Statuses

\* What a refresh makes of the record.
LEMMA OutcomeType ==
  ASSUME IInv, NEW c \in Callers, caller[c].pc = "answered", record # None
  PROVE  /\ Outcome(record, c) \in Records /\ Outcome(record, c).id = record.id
         /\ Outcome(record, c).token =
              IF caller[c].answer = "ok" THEN caller[c].token ELSE record.token
         /\ Outcome(record, c).status = "expired" =>
              caller[c].answer = "refused" \/ record.status = "expired"
<1>1. record \in Records /\ caller[c] \in CallerStates /\ caller[c].answer # "none"
  BY DEF IInv, TypeOK, CallerStates, CallerOK
<1>2. valid \union excused \subseteq Tokens
  BY DEF IInv, TypeOK, Tokens
<1>3. CASE caller[c].answer = "ok"
  <2>1. caller[c].token \in Tokens
    BY <1>2, <1>3 DEF IInv, CallerOK, Holds
  <2>2. Outcome(record, c) = UpdateAuth(record, caller[c].token)
    BY <1>3 DEF Outcome
  <2> QED
    BY <1>1, <1>3, <2>1, <2>2, UpdateAuthType
<1>4. CASE caller[c].answer = "refused"
  <2>1. Outcome(record, c) = MarkError(record)
    BY <1>4 DEF Outcome
  <2> QED
    BY <1>1, <1>4, <2>1, MarkErrorType
<1>5. CASE caller[c].answer = "failed"
  BY <1>1, <1>5 DEF Outcome
<1> QED
  BY <1>1, <1>3, <1>4, <1>5 DEF CallerStates

\* The outcome of a refresh is saved in the record it was for.
LEMMA ApplyFoundKeeps ==
  ASSUME IInv, NEW c \in Callers, caller[c].pc = "answered", Found(c),
         Persist(Outcome(record, c), c),
         caller' = [caller EXCEPT ![c] = [Idle EXCEPT !.pc = "saving", !.id = record.id]],
         UNCHANGED <<issued, valid, excused, login>>
  PROVE  IInv'
<1> DEFINE q == [Idle EXCEPT !.pc = "saving", !.id = record.id]
<1>1. /\ caller \in [Callers -> CallerStates] /\ record \in Records
      /\ record # None /\ caller[c].id = record.id
  BY DEF IInv, TypeOK, CallerStates, Found
<1>2. q \in CallerStates /\ q.pc = "saving" /\ q.id = record.id
  <2>1. record.id \in 0..MaxTokens
    BY <1>1 DEF Records, Tokens
  <2>2. Idle \in CallerStates
    BY IdleType
  <2> QED
    BY <2>1, <2>2 DEF CallerStates
<1>3. /\ caller' \in [Callers -> CallerStates] /\ caller'[c].pc = "saving"
      /\ caller'[c].id = record.id
      /\ \A d \in Callers : d # c => caller'[d] = caller[d]
  BY <1>1, <1>2
<1>4. /\ record' \in Records /\ record' # None /\ record'.id = record.id
      /\ record'.token = IF caller[c].answer = "ok" THEN caller[c].token ELSE record.token
  BY <1>1, OutcomeType, NamesAssumption DEF Persist
<1>5. saver = None /\ saver' = c /\ saver' # None /\ UNCHANGED <<disk, dirty>>
  BY NamesAssumption DEF Persist
<1>6. Locked(c) /\ Locked(c)' /\ ~Holds(c)'
  BY <1>3 DEF Locked, Holds
<1>7. \A d \in Callers : d # c => /\ Locked(d)' <=> Locked(d)
                                  /\ Holds(d)' <=> Holds(d)
  BY <1>3 DEF Locked, Holds
<1>8. caller[c].answer = "ok" => Holds(c) /\ caller[c].token \in valid \union excused
  BY DEF IInv, CallerOK, Holds
<1>9. \A d \in Callers : d # c /\ caller[d].pc \in {"asking", "answered"} =>
        /\ caller[d].overtaken /\ caller[d].id # record.id
        /\ Holds(d) => caller[d].token # record.token
        /\ caller[c].answer = "ok" /\ Holds(d) => caller[d].token # caller[c].token
  BY <1>1, <1>6, <1>8 DEF IInv, LockExclusive, TokensApart, CallerOK, Locked
<1>10. TypeOK' /\ LoginTypeOK'
  BY <1>3, <1>4, <1>5 DEF IInv, TypeOK, LoginTypeOK, CallerStates
<1>11. SavedOK'
  <2>1. record'.token \in 1..issued
    BY <1>1, <1>4, <1>8 DEF IInv, SavedOK, TypeOK
  <2> QED
    BY <2>1, <1>5 DEF IInv, SavedOK
<1>12. LockExclusive' /\ TokensApart' /\ LoginsApart'
  <2>1. LockExclusive'
    BY <1>1, <1>3, <1>6, <1>7 DEF IInv, LockExclusive
  <2>2. TokensApart'
    BY <1>3, <1>6, <1>7 DEF IInv, TokensApart
  <2>3. LoginsApart'
    BY DEF IInv, LoginsApart, Carries
  <2> QED
    BY <2>1, <2>2, <2>3
<1>13. ASSUME NEW d \in Callers PROVE CallerOK(d)'
  <2>1. CASE d = c
    BY <2>1, <1>3, <1>5, <1>6 DEF CallerOK
  <2>2. CASE d # c
    <3>1. caller[d].pc # "saving" /\ caller'[d] = caller[d] /\ saver' # d
      BY <2>2, <1>3, <1>5, NamesAssumption DEF IInv, CallerOK
    <3>2. Holds(d) => caller[d].pc \in {"asking", "answered"}
      BY DEF Holds
    <3> QED
      BY <2>2, <3>1, <3>2, <1>1, <1>4, <1>7, <1>9 DEF IInv, CallerOK
  <2> QED
    BY <2>1, <2>2
<1>14. ASSUME NEW l \in Logins PROVE LoginOK(l)'
  <2>1. login[l].pc # "saving"
    BY <1>5, NamesAssumption DEF IInv, LoginOK
  <2>2. login[l].pc = "exchanged" => record'.token # login[l].token
    BY <1>1, <1>4, <1>8 DEF IInv, LoginOK, Carries
  <2>3. Carries(l)' <=> Carries(l)
    BY DEF Carries
  <2> QED
    BY <2>1, <2>2, <2>3, <1>3, <1>5, <1>6, <1>7 DEF IInv, LoginOK
<1>15. Usable(record)'
  <2>1. CASE caller[c].answer = "ok"
    BY <2>1, <1>4, <1>8 DEF Usable
  <2>2. CASE caller[c].answer # "ok"
    <3>1. record.token \in valid \union excused
      BY <2>2, <1>1, <1>6 DEF IInv, Usable, LockExclusive, Locked
    <3> QED
      BY <2>2, <3>1, <1>4 DEF Usable
  <2> QED
    BY <2>1, <2>2
<1> QED
  BY <1>10, <1>11, <1>12, <1>13, <1>14, <1>15 DEF IInv

\* The admin API removes the account, also during a refresh.
LEMMA RemoveKeeps ==
  ASSUME IInv, Remove, UNCHANGED login
  PROVE  IInv'
<1>1. /\ saver = None /\ saver' = "other" /\ record' = None
      /\ UNCHANGED <<disk, dirty, caller, issued, valid, excused>>
  BY DEF Remove, Persist
<1>2. TypeOK' /\ LoginTypeOK' /\ SavedOK'
  BY <1>1, NamesAssumption DEF IInv, TypeOK, LoginTypeOK, SavedOK
<1>3. LockExclusive' /\ TokensApart' /\ LoginsApart'
  BY <1>1 DEF IInv, LockExclusive, TokensApart, LoginsApart, Locked, Holds, Carries
<1>4. ASSUME NEW c \in Callers PROVE CallerOK(c)'
  BY <1>1, NamesAssumption DEF IInv, CallerOK, Holds
<1>5. ASSUME NEW l \in Logins PROVE LoginOK(l)'
  BY <1>1, NamesAssumption DEF IInv, LoginOK, Carries, Holds
<1>6. Usable(record)'
  BY <1>1 DEF Usable
<1> QED
  BY <1>2, <1>3, <1>4, <1>5, <1>6 DEF IInv

\* A device login saves its token, also during a refresh.
LEMMA UpsertKeeps ==
  ASSUME IInv, NEW l \in Logins, Upsert(l)
  PROVE  IInv'
<1> DEFINE t == login[l].token
<1>1. /\ caller \in [Callers -> CallerStates]
      /\ login[l].pc = "exchanged" /\ Carries(l) /\ t \in valid /\ t \in 1..issued
      /\ t \in Tokens
  BY DEF IInv, TypeOK, CallerStates, Upsert, LoginOK, Carries, Tokens
<1>2. /\ saver = None /\ saver' = "login" /\ UNCHANGED <<disk, dirty, issued, valid, excused>>
      /\ record' = [id |-> IF record = None THEN t ELSE record.id,
                    status |-> "active", token |-> t, fresh |-> TRUE]
      /\ caller' = [c \in Callers |-> [caller[c] EXCEPT !.overtaken = Locked(c) \/ @]]
  BY DEF Upsert, UpsertFromToken, Persist
<1>3. /\ record' \in Records /\ record' # None /\ record'.token = t
      /\ record'.status = "active"
      /\ record # None => record'.id = record.id
  <2>1. record # None => record.id \in Tokens
    BY DEF IInv, TypeOK, Records
  <2>2. PICK i \in Tokens : /\ record' = [id |-> i, status |-> "active",
                                          token |-> t, fresh |-> TRUE]
                            /\ record # None => i = record.id
    BY <2>1, <1>1, <1>2
  <2>3. record' \in Records
    BY <2>2, <1>1 DEF Records, Statuses
  <2> QED
    BY <2>2, <2>3, NamesAssumption
<1>4. caller' \in [Callers -> CallerStates]
  <2>1. ASSUME NEW c \in Callers
        PROVE  [caller[c] EXCEPT !.overtaken = Locked(c) \/ @] \in CallerStates
    BY <1>1 DEF CallerStates, Locked
  <2> QED
    BY <2>1, <1>2
<1>5. ASSUME NEW c \in Callers
      PROVE  /\ caller'[c].pc = caller[c].pc /\ caller'[c].id = caller[c].id
             /\ caller'[c].token = caller[c].token /\ caller'[c].answer = caller[c].answer
             /\ caller'[c].overtaken <=> Locked(c) \/ caller[c].overtaken
  BY <1>1, <1>2 DEF CallerStates
<1>6. \A c \in Callers : /\ Locked(c)' <=> Locked(c)
                         /\ Holds(c)' <=> Holds(c)
                         /\ Holds(c) => caller[c].token # t
  BY <1>1, <1>5 DEF Locked, Holds, IInv, LoginOK
<1>7. /\ login'[l].pc = "saving" /\ login'[l].token = t
      /\ login'[l].status = login[l].status
      /\ \A m \in Logins : m # l => login'[m] = login[m]
      /\ LoginTypeOK'
  BY DEF IInv, LoginTypeOK, Upsert
<1>8. TypeOK'
  BY <1>2, <1>3, <1>4 DEF IInv, TypeOK, CallerStates
<1>9. SavedOK'
  BY <1>1, <1>2, <1>3, NamesAssumption DEF IInv, SavedOK
<1>10. LockExclusive' /\ TokensApart'
  BY <1>5, <1>6 DEF IInv, LockExclusive, TokensApart
<1>11. \A m \in Logins : (Carries(m)' <=> Carries(m)) /\ login'[m].token = login[m].token
  BY <1>1, <1>7 DEF Carries
<1>12. LoginsApart'
  BY <1>11 DEF IInv, LoginsApart
<1>13. ASSUME NEW c \in Callers PROVE CallerOK(c)'
  BY <1>2, <1>3, <1>5, <1>6, NamesAssumption DEF IInv, CallerOK, Locked
<1>14. ASSUME NEW m \in Logins PROVE LoginOK(m)'
  <2>1. CASE m = l
    <3>1. login[l].status = "pending" /\ (disk # None => disk.token # t)
      BY <1>1 DEF IInv, LoginOK
    <3> QED
      BY <2>1, <3>1, <1>1, <1>2, <1>3, <1>5, <1>6, <1>7 DEF LoginOK
  <2>2. CASE m # l
    <3>1. login[m].pc # "saving"
      BY <1>2, NamesAssumption DEF IInv, LoginOK
    <3>2. Carries(m) => login[m].token # t
      BY <2>2, <1>1 DEF IInv, LoginsApart
    <3> QED
      BY <2>2, <3>1, <3>2, <1>2, <1>3, <1>5, <1>6, <1>7, <1>11 DEF IInv, LoginOK, Carries
  <2> QED
    BY <2>1, <2>2
<1>15. Usable(record)'
  BY <1>1, <1>2, <1>3 DEF Usable
<1> QED
  BY <1>7, <1>8, <1>9, <1>10, <1>12, <1>13, <1>14, <1>15 DEF IInv

\* The end of a write: memory is unchanged and one goroutine at most returns.
LEMMA SaveStep ==
  ASSUME IInv, Save
  PROVE  /\ caller' \in [Callers -> CallerStates]
         /\ \A c \in Callers : caller'[c] = IF saver = c THEN Idle ELSE caller[c]
         /\ \A c \in Callers : Holds(c)' <=> Holds(c)
         /\ \A c \in Callers : Locked(c)' => Locked(c) /\ caller'[c] = caller[c]
         /\ UNCHANGED <<record, issued, valid, excused>>
         /\ saver # None /\ saver' = None
         /\ \/ disk' = record /\ dirty' = FALSE
            \/ disk' = disk /\ dirty' = TRUE
<1>1. caller \in [Callers -> CallerStates]
  BY DEF IInv, TypeOK, CallerStates
<1>2. /\ UNCHANGED <<record, issued, valid, excused>>
      /\ saver # None /\ saver' = None
      /\ \/ disk' = record /\ dirty' = FALSE
         \/ disk' = disk /\ dirty' = TRUE
  BY DEF Save, Written, NotWritten
<1>3. \/ saver \in Callers /\ caller' = [caller EXCEPT ![saver] = Idle]
      \/ saver \notin Callers /\ caller' = caller
  BY DEF Save, Return
<1>4. /\ caller' \in [Callers -> CallerStates]
      /\ \A c \in Callers : caller'[c] = IF saver = c THEN Idle ELSE caller[c]
  BY <1>1, <1>3, IdleType
<1>5. ASSUME NEW c \in Callers
      PROVE  /\ Holds(c)' <=> Holds(c)
             /\ Locked(c)' => Locked(c) /\ caller'[c] = caller[c]
  BY <1>4, IdleType DEF IInv, CallerOK, Holds, Locked
<1> QED
  BY <1>2, <1>4, <1>5

\* A write ends, with or without the file, for a login or for anyone else.
LEMMA SaveKeeps ==
  ASSUME IInv, Save,
         \/ saver # "login" /\ login' = login
         \/ \E l \in Logins : login[l].pc = "saving" /\ SavedStatus(l)
  PROVE  IInv'
<1>1. /\ caller' \in [Callers -> CallerStates]
      /\ \A c \in Callers : caller'[c] = IF saver = c THEN Idle ELSE caller[c]
      /\ \A c \in Callers : Holds(c)' <=> Holds(c)
      /\ \A c \in Callers : Locked(c)' => Locked(c) /\ caller'[c] = caller[c]
      /\ UNCHANGED <<record, issued, valid, excused>>
      /\ saver # None /\ saver' = None
      /\ \/ disk' = record /\ dirty' = FALSE
         \/ disk' = disk /\ dirty' = TRUE
  BY SaveStep
<1>2. TypeOK' /\ SavedOK'
  BY <1>1 DEF IInv, TypeOK, CallerStates, SavedOK
<1>3. LockExclusive'
  BY <1>1 DEF IInv, LockExclusive
<1>4. TokensApart'
  <2>1. \A c \in Callers : Holds(c) => caller'[c] = caller[c]
    BY <1>1 DEF IInv, CallerOK, Holds
  <2> QED
    BY <2>1, <1>1 DEF IInv, TokensApart
<1>5. \A c \in Callers : Holds(c) => caller'[c].token = caller[c].token
  BY <1>1 DEF IInv, CallerOK, Holds
<1>6. ASSUME NEW c \in Callers PROVE CallerOK(c)'
  <2>1. CASE saver = c
    <3>1. caller'[c].pc = "idle" /\ saver' # c /\ ~Holds(c)'
      BY <2>1, <1>1, IdleType, NamesAssumption DEF Holds
    <3> QED
      BY <3>1 DEF CallerOK
  <2>2. CASE saver # c
    BY <2>2, <1>1, NamesAssumption DEF IInv, CallerOK
  <2> QED
    BY <2>1, <2>2
<1>7. /\ LoginTypeOK'
      /\ \A l \in Logins : \/ login'[l] = login[l] /\ login[l].pc # "saving"
                           \/ /\ login'[l].pc = "ended"
                              /\ login'[l].status \in {"ready", "error"}
  <2>1. CASE saver # "login" /\ login' = login
    BY <2>1 DEF IInv, LoginTypeOK, LoginOK
  <2>2. ASSUME NEW k \in Logins, login[k].pc = "saving", SavedStatus(k)
        PROVE  /\ LoginTypeOK'
               /\ \A l \in Logins : \/ login'[l] = login[l] /\ login[l].pc # "saving"
                                    \/ /\ login'[l].pc = "ended"
                                       /\ login'[l].status \in {"ready", "error"}
    <3> DEFINE s == IF dirty' THEN "error" ELSE "ready"
    <3>1. login' = [login EXCEPT ![k] = [NoLogin EXCEPT !.status = s]]
      BY <2>2 DEF SavedStatus, SetStatus
    <3>2. [NoLogin EXCEPT !.status = s] \in LoginStates
          /\ [NoLogin EXCEPT !.status = s].pc = "ended"
          /\ [NoLogin EXCEPT !.status = s].status \in {"ready", "error"}
      BY NoLoginType DEF LoginStates
    <3>3. \A m \in Logins : m # k => login[m].pc # "saving"
      BY <2>2 DEF IInv, LoginOK, LoginsApart, Carries
    <3> QED
      BY <3>1, <3>2, <3>3 DEF IInv, LoginTypeOK, LoginStates
  <2> QED
    BY <2>1, <2>2
<1>8. LoginsApart'
  BY <1>7 DEF IInv, LoginsApart, Carries
<1>9. ASSUME NEW l \in Logins PROVE LoginOK(l)'
  <2>1. CASE login'[l] = login[l] /\ login[l].pc # "saving"
    BY <2>1, <1>1, <1>5 DEF IInv, LoginOK, Carries
  <2>2. CASE login'[l].pc = "ended" /\ login'[l].status \in {"ready", "error"}
    BY <2>2 DEF LoginOK, Carries
  <2> QED
    BY <2>1, <2>2, <1>7
<1>10. Usable(record)'
  <2>1. \A c \in Callers : caller[c].pc = "answered" => caller'[c] = caller[c]
    BY <1>1 DEF IInv, CallerOK
  <2> QED
    BY <2>1, <1>1 DEF IInv, Usable
<1> QED
  BY <1>2, <1>3, <1>4, <1>6, <1>7, <1>8, <1>9, <1>10 DEF IInv

\* The process starts again from the file: a token whose replacement is lost with
\* the old process is excused.
LEMMA RestartKeeps ==
  ASSUME IInv, LoginRestart
  PROVE  IInv'
<1>1. /\ disk' = disk \/ (saver # None /\ disk' = record)
      /\ record' = disk' /\ saver' = None /\ dirty' = FALSE
      /\ caller' = [c \in Callers |-> Idle]
      /\ issued' = issued /\ valid' = valid
      /\ login' = [l \in Logins |-> NoLogin]
      /\ excused' = IF disk' # None /\ (dirty \/ saver # None
                                         \/ \E c \in Callers : caller[c].pc = "answered")
                    THEN excused \union ({disk'.token} \ valid) ELSE excused
  BY DEF LoginRestart, Restart
<1>2. /\ caller' \in [Callers -> CallerStates]
      /\ \A c \in Callers : caller'[c].pc = "idle" /\ ~Locked(c)' /\ ~Holds(c)'
  BY <1>1, IdleType DEF Locked, Holds
<1>3. /\ LoginTypeOK'
      /\ \A l \in Logins : /\ login'[l].pc = "ended" /\ login'[l].status = "none"
                           /\ ~Carries(l)'
  BY <1>1, NoLoginType DEF LoginTypeOK, LoginStates, Carries
<1>4. disk' \in Records \union {None} /\ (disk' # None => disk'.token \in 1..issued)
  BY <1>1 DEF IInv, TypeOK, SavedOK
<1>5. excused' \subseteq 1..issued
  BY <1>1, <1>4 DEF IInv, TypeOK
<1>6. TypeOK' /\ SavedOK'
  BY <1>1, <1>2, <1>4, <1>5 DEF IInv, TypeOK, CallerStates, SavedOK
<1>7. LockExclusive' /\ TokensApart' /\ LoginsApart'
  BY <1>2, <1>3 DEF LockExclusive, TokensApart, LoginsApart
<1>8. ASSUME NEW c \in Callers PROVE CallerOK(c)'
  BY <1>1, <1>2, NamesAssumption DEF CallerOK
<1>9. ASSUME NEW l \in Logins PROVE LoginOK(l)'
  BY <1>3 DEF LoginOK, Carries
<1>10. Usable(record)'
  <2>1. CASE disk' = None
    BY <2>1, <1>1 DEF Usable
  <2>2. CASE disk' # None /\ (dirty \/ saver # None
                               \/ \E c \in Callers : caller[c].pc = "answered")
    BY <2>2, <1>1 DEF Usable
  <2>3. CASE disk' # None /\ ~dirty /\ saver = None
             /\ ~\E c \in Callers : caller[c].pc = "answered"
    BY <2>3, <1>1 DEF IInv, SavedOK, Usable
  <2> QED
    BY <2>1, <2>2, <2>3
<1> QED
  BY <1>3, <1>6, <1>7, <1>8, <1>9, <1>10 DEF IInv

\* A step of a login that saves nothing.
LEMMA LoginOnlyKeeps ==
  ASSUME IInv, NEW l \in Logins, UNCHANGED vars,
         login[l].pc # "exchanged" /\ login[l].pc # "saving",
         NEW q \in LoginStates, q.token = 0, q.pc \in {"polling", "ended"},
         q.status = "pending" <=> q.pc # "ended",
         login' = [login EXCEPT ![l] = q]
  PROVE  IInv'
<1>2. /\ LoginTypeOK' /\ login'[l] = q
      /\ \A m \in Logins : m # l => login'[m] = login[m]
  BY DEF IInv, LoginTypeOK, LoginStates
<1>3. \A m \in Logins : /\ Carries(m)' <=> Carries(m)
                        /\ Carries(m) => login'[m] = login[m]
  BY <1>2 DEF Carries
<1>4. TypeOK' /\ SavedOK' /\ LockExclusive' /\ TokensApart' /\ Usable(record)'
  BY DEF vars, IInv, TypeOK, SavedOK, LockExclusive, TokensApart, Usable, Locked, Holds
<1>5. \A c \in Callers : CallerOK(c)'
  BY DEF vars, IInv, CallerOK, Holds
<1>6. LoginsApart'
  BY <1>3 DEF IInv, LoginsApart
<1>7. ASSUME NEW m \in Logins PROVE LoginOK(m)'
  <2>1. CASE m = l
    BY <2>1, <1>2 DEF LoginOK, Carries
  <2>2. CASE m # l
    BY <2>2, <1>2, <1>3 DEF vars, IInv, LoginOK, Holds
  <2> QED
    BY <2>1, <2>2
<1> QED
  BY <1>2, <1>4, <1>5, <1>6, <1>7 DEF IInv

\* The provider issues a token that nobody has yet.
LEMMA ExchangeKeeps ==
  ASSUME IInv, NEW l \in Logins, ExchangeAuthorizationCode(l)
  PROVE  IInv'
<1>1. /\ login[l].pc = "polling" /\ issued \in Nat /\ issued + 1 \in Tokens
      /\ issued' = issued + 1 /\ valid' = valid \union {issued + 1}
      /\ UNCHANGED <<record, disk, saver, dirty, caller, excused>>
      /\ valid \subseteq 1..issued /\ excused \subseteq 1..issued
  BY DEF ExchangeAuthorizationCode, IInv, TypeOK, Tokens
<1>2. /\ valid' \subseteq 1..(issued + 1) /\ excused \subseteq 1..(issued + 1)
      /\ issued + 1 \in valid' /\ 1..issued \subseteq 1..(issued + 1)
      /\ \A t \in 1..issued : t # issued + 1 /\ (t \in valid' <=> t \in valid)
  BY <1>1
<1>3. /\ LoginTypeOK'
      /\ \A m \in Logins : m # l => login'[m] = login[m]
      /\ \/ /\ login'[l].pc = "exchanged" /\ login'[l].token = issued + 1
            /\ login'[l].status = login[l].status
         \/ login'[l].pc = "ended" /\ login'[l].status = "error"
  <2>1. CASE login' = [login EXCEPT ![l].pc = "exchanged", ![l].token = issued']
    <3> DEFINE q == [login[l] EXCEPT !.pc = "exchanged", !.token = issued + 1]
    <3>1. login' = [login EXCEPT ![l] = q]
      BY <2>1, <1>1 DEF IInv, LoginTypeOK
    <3>2. q \in LoginStates
          /\ q.pc = "exchanged" /\ q.token = issued + 1
          /\ q.status = login[l].status
      <4>1. login[l] \in LoginStates /\ issued + 1 \in 0..MaxTokens
        BY <1>1 DEF IInv, LoginTypeOK, LoginStates, Tokens
      <4> QED
        BY <4>1 DEF LoginStates
    <3> QED
      BY <3>1, <3>2 DEF IInv, LoginTypeOK, LoginStates
  <2>2. CASE SetStatus(l, "error")
    <3>1. [NoLogin EXCEPT !.status = "error"] \in LoginStates
          /\ [NoLogin EXCEPT !.status = "error"].pc = "ended"
          /\ [NoLogin EXCEPT !.status = "error"].status = "error"
      BY NoLoginType DEF LoginStates
    <3> QED
      BY <2>2, <3>1 DEF IInv, LoginTypeOK, LoginStates, SetStatus
  <2> QED
    BY <2>1, <2>2 DEF ExchangeAuthorizationCode
<1>4. TypeOK' /\ SavedOK'
  BY <1>1, <1>2 DEF IInv, TypeOK, SavedOK
<1>5. LockExclusive' /\ TokensApart' /\ Usable(record)'
  BY <1>1 DEF IInv, LockExclusive, TokensApart, Usable, Locked, Holds
<1>6. /\ record # None => record.token \in 1..issued
      /\ disk # None => disk.token \in 1..issued
      /\ \A c \in Callers : Holds(c) => caller[c].token \in 1..issued
      /\ \A m \in Logins : Carries(m) => login[m].token \in 1..issued
  BY <1>1 DEF IInv, SavedOK, CallerOK, LoginOK
<1>7. ASSUME NEW c \in Callers PROVE CallerOK(c)'
  BY <1>1, <1>2, <1>6 DEF IInv, CallerOK, Holds
<1>8. LoginsApart'
  <2>1. \A m \in Logins : m # l => (Carries(m)' <=> Carries(m))
    BY <1>3 DEF Carries
  <2>2. Carries(l)' => login'[l].token = issued + 1
    BY <1>3 DEF Carries
  <2> QED
    BY <2>1, <2>2, <1>2, <1>3, <1>6 DEF IInv, LoginsApart
<1>9. ASSUME NEW m \in Logins PROVE LoginOK(m)'
  <2>1. CASE m = l
    <3>1. login[l].status = "pending"
      BY <1>1 DEF IInv, LoginOK
    <3> QED
      BY <2>1, <3>1, <1>1, <1>2, <1>3, <1>6 DEF LoginOK, Carries, Holds
  <2>2. CASE m # l
    BY <2>2, <1>1, <1>2, <1>3 DEF IInv, LoginOK, Carries, Holds
  <2> QED
    BY <2>1, <2>2
<1> QED
  BY <1>3, <1>4, <1>5, <1>7, <1>8, <1>9 DEF IInv
-----------------------------------------------------------------------------

\* The initial states.
LEMMA InitOK == LoginInit => IInv
<1> SUFFICES ASSUME LoginInit PROVE IInv
  OBVIOUS
<1>1. /\ disk = record /\ saver = None /\ dirty = FALSE
      /\ issued = 1 /\ valid = {1} /\ excused = {}
      /\ record # None => record \in Records /\ record.token = 1
  BY DEF LoginInit, Init, Records, Tokens
<1>2. record \in Records \union {None} /\ 1 \in Tokens
  BY <1>1 DEF Tokens
<1>3. /\ caller \in [Callers -> CallerStates]
      /\ \A c \in Callers : caller[c].pc = "idle" /\ ~Locked(c) /\ ~Holds(c)
  BY IdleType DEF LoginInit, Init, Locked, Holds
<1>4. /\ LoginTypeOK
      /\ \A l \in Logins : /\ login[l].pc = "ended" /\ login[l].status = "none"
                           /\ ~Carries(l)
  BY NoLoginType DEF LoginInit, LoginTypeOK, LoginStates, Carries
<1>5. TypeOK /\ SavedOK
  <2>1. 1 \in 1..issued /\ valid \subseteq 1..issued /\ excused \subseteq 1..issued
    BY <1>1
  <2> QED
    BY <2>1, <1>1, <1>2, <1>3 DEF TypeOK, CallerStates, SavedOK
<1>6. LockExclusive /\ TokensApart /\ LoginsApart
  BY <1>3, <1>4 DEF LockExclusive, TokensApart, LoginsApart
<1>7. \A c \in Callers : CallerOK(c)
  BY <1>1, <1>3, NamesAssumption DEF CallerOK
<1>8. \A l \in Logins : LoginOK(l)
  BY <1>4 DEF LoginOK, Carries
<1>9. Usable(record)
  BY <1>1 DEF Usable
<1> QED
  BY <1>4, <1>5, <1>6, <1>7, <1>8, <1>9 DEF IInv

\* The steps of one goroutine.
LEMMA CallerActionsKeep ==
  ASSUME IInv, NEW c \in Callers, UNCHANGED login,
         EnsureReady(c) \/ Refresh(c) \/ Lock(c) \/ Answered(c) \/ Apply(c)
  PROVE  IInv'
<1>1. caller \in [Callers -> CallerStates] /\ caller[c] \in CallerStates
  BY DEF IInv, TypeOK, CallerStates
<1>2. record # None => record \in Records /\ record.id \in 0..MaxTokens
  BY DEF IInv, TypeOK, Records, Tokens
<1>3. CASE EnsureReady(c)
  <2> DEFINE q == [Idle EXCEPT !.pc = "blocked", !.id = record.id]
  <2>1. record # None /\ caller[c].pc = "idle" /\ caller' = [caller EXCEPT ![c] = q]
        /\ UNCHANGED <<record, disk, saver, dirty, issued, valid, excused>>
    BY <1>3 DEF EnsureReady
  <2>2. q \in CallerStates /\ q.pc = "blocked" /\ ~q.overtaken
    BY <1>2, <2>1, IdleType DEF CallerStates
  <2> HIDE DEF q
  <2> QED
    BY <2>1, <2>2, QuietStep
<1>4. CASE Refresh(c)
  <2> DEFINE q == [Idle EXCEPT !.pc = "blocked", !.id = record.id, !.forced = TRUE]
  <2>1. record # None /\ caller[c].pc = "idle" /\ caller' = [caller EXCEPT ![c] = q]
        /\ UNCHANGED <<record, disk, saver, dirty, issued, valid, excused>>
    BY <1>4 DEF Refresh
  <2>2. q \in CallerStates /\ q.pc = "blocked" /\ ~q.overtaken
    BY <1>2, <2>1, IdleType DEF CallerStates
  <2> HIDE DEF q
  <2> QED
    BY <2>1, <2>2, QuietStep
<1>5. CASE Lock(c)
  <2>1. /\ caller[c].pc = "blocked" /\ saver = None
        /\ \A d \in Callers : ~(Locked(d) /\ caller[d].id = caller[c].id)
        /\ UNCHANGED <<record, disk, saver, dirty, issued, valid, excused>>
    BY <1>5 DEF Lock
  <2>2. CASE Needed(c) /\ Submit(c)
    BY <2>1, <2>2, SubmitKeeps DEF Needed
  <2>3. CASE Return(c)
    BY <2>1, <2>3, IdleType, QuietStep DEF Return
  <2> QED
    BY <1>5, <2>2, <2>3 DEF Lock
<1>6. CASE Answered(c)
  <2>1. CASE Kept(c)
    BY <1>1, <2>1, AnswerKeeps DEF Kept, CallerStates
  <2>2. CASE Rotated(c)
    BY <2>2, RotatedKeeps
  <2>3. CASE Refused(c)
    BY <2>3, AnswerKeeps DEF Refused
  <2>4. CASE Failed(c)
    BY <2>4, AnswerKeeps DEF Failed
  <2> QED
    BY <1>6, <2>1, <2>2, <2>3, <2>4 DEF Answered
<1>7. CASE Apply(c)
  <2>1. caller[c].pc = "answered" /\ UNCHANGED <<issued, valid, excused>>
    BY <1>7 DEF Apply
  <2>2. CASE Found(c)
    BY <1>7, <2>1, <2>2, ApplyFoundKeeps DEF Apply
  <2>3. CASE ~Found(c)
    <3>1. Return(c) /\ UNCHANGED <<record, disk, saver, dirty>>
      BY <1>7, <2>3 DEF Apply
    <3> QED
      BY <2>1, <2>3, <3>1, IdleType, QuietStep DEF Return
  <2> QED
    BY <2>2, <2>3
<1> QED
  BY <1>3, <1>4, <1>5, <1>6, <1>7

\* The steps of everything else that changes the record.
LEMMA OtherActionsKeep ==
  ASSUME IInv, UNCHANGED login,
         \/ saver # "login" /\ Save
         \/ Remove \/ Unauthorized \/ Expire
         \/ \E s \in {"active", "disabled"} : Patch(s)
  PROVE  IInv'
<1>1. record # None => record \in Records
  BY DEF IInv, TypeOK
<1>2. disk # None => disk \in Records
  BY DEF IInv, TypeOK
<1>3. CASE saver # "login" /\ Save
  BY <1>3, SaveKeeps
<1>4. CASE Remove
  BY <1>4, RemoveKeeps
<1>5. CASE Unauthorized
  BY <1>1, <1>2, <1>5, MarkErrorType, SameTokenKeeps DEF Unauthorized, Persist
<1>6. CASE Expire
  <2>1. ASSUME NEW r \in Records
        PROVE  /\ Stale(r) \in Records /\ Stale(r).id = r.id
               /\ Stale(r).token = r.token /\ Stale(r).status = r.status
    BY NamesAssumption DEF Stale, Records
  <2>2. Stale(None) = None
    BY DEF Stale
  <2>3. /\ record # None /\ record' = Stale(record) /\ disk' = Stale(disk)
        /\ UNCHANGED <<saver, dirty, caller, issued, valid, excused>>
    BY <1>6 DEF Expire
  <2> QED
    BY <1>1, <1>2, <2>1, <2>2, <2>3, SameTokenKeeps
<1>7. ASSUME NEW s \in {"active", "disabled"}, Patch(s) PROVE IInv'
  <2>1. record # None /\ Persist([record EXCEPT !.status = s], "other")
        /\ UNCHANGED <<caller, issued, valid, excused>>
    BY <1>7 DEF Patch
  <2>2. /\ [record EXCEPT !.status = s] \in Records
        /\ [record EXCEPT !.status = s].id = record.id
        /\ [record EXCEPT !.status = s].token = record.token
    BY <1>1, <2>1 DEF Records, Statuses
  <2>3. saver = None /\ saver' = "other" /\ record' = [record EXCEPT !.status = s]
        /\ UNCHANGED <<disk, dirty>>
    BY <2>1 DEF Persist
  <2> QED
    BY <1>2, <2>1, <2>2, <2>3, SameTokenKeeps
<1> QED
  BY <1>3, <1>4, <1>5, <1>6, <1>7

\* The steps of one login.
LEMMA LoginActionsKeep ==
  ASSUME IInv, NEW l \in Logins,
         \/ Start(l) \/ Deadline(l) \/ LoginFails(l)
         \/ ExchangeAuthorizationCode(l) \/ Upsert(l) \/ SaveLogin(l) \/ DeleteExpired(l)
  PROVE  IInv'
<1>1. CASE Start(l)
  <2>1. /\ [NoLogin EXCEPT !.status = "pending", !.pc = "polling"] \in LoginStates
        /\ [NoLogin EXCEPT !.status = "pending", !.pc = "polling"].pc = "polling"
        /\ [NoLogin EXCEPT !.status = "pending", !.pc = "polling"].status = "pending"
        /\ [NoLogin EXCEPT !.status = "pending", !.pc = "polling"].token = 0
    BY NoLoginType DEF LoginStates
  <2>2. login[l].pc = "ended"
    BY <1>1 DEF Start, IInv, LoginOK, LoginTypeOK
  <2> QED
    BY <1>1, <2>1, <2>2, LoginOnlyKeeps DEF Start
<1>2. CASE Deadline(l)
  BY <1>2, TerminalLogin, LoginOnlyKeeps DEF Deadline, SetStatus
<1>3. CASE LoginFails(l)
  BY <1>3, TerminalLogin, LoginOnlyKeeps DEF LoginFails, SetStatus
<1>4. CASE ExchangeAuthorizationCode(l)
  BY <1>4, ExchangeKeeps
<1>5. CASE Upsert(l)
  BY <1>5, UpsertKeeps
<1>6. CASE SaveLogin(l)
  BY <1>6, SaveKeeps DEF SaveLogin
<1>7. CASE DeleteExpired(l)
  <2>1. login[l].pc = "ended"
    BY <1>7 DEF DeleteExpired, IInv, LoginOK, LoginTypeOK
  <2> QED
    BY <1>7, <2>1, NoLoginType, LoginOnlyKeeps DEF DeleteExpired
<1> QED
  BY <1>1, <1>2, <1>3, <1>4, <1>5, <1>6, <1>7

\* A step of something else.
LEMMA StutterKeeps ==
  ASSUME IInv, UNCHANGED <<vars, login>>
  PROVE  IInv'
<1>1. /\ TypeOK' /\ LoginTypeOK' /\ SavedOK' /\ LockExclusive' /\ TokensApart'
      /\ LoginsApart' /\ Usable(record)'
  BY DEF vars, IInv, TypeOK, LoginTypeOK, SavedOK, LockExclusive, TokensApart,
         LoginsApart, Usable, Locked, Holds, Carries
<1>2. \A c \in Callers : CallerOK(c)'
  BY DEF vars, IInv, CallerOK, Holds
<1>3. \A l \in Logins : LoginOK(l)'
  BY DEF vars, IInv, LoginOK, Holds, Carries
<1> QED
  BY <1>1, <1>2, <1>3 DEF IInv

\* IInv is inductive.
LEMMA NextKeeps == IInv /\ [LoginNext]_<<vars, login>> => IInv'
<1> SUFFICES ASSUME IInv, [LoginNext]_<<vars, login>> PROVE IInv'
  OBVIOUS
<1>1. CASE UNCHANGED <<vars, login>>
  BY <1>1, StutterKeeps
<1>2. ASSUME NEW l \in Logins,
             \/ Start(l) \/ Deadline(l) \/ LoginFails(l)
             \/ ExchangeAuthorizationCode(l) \/ Upsert(l) \/ SaveLogin(l) \/ DeleteExpired(l)
      PROVE  IInv'
  BY <1>2, LoginActionsKeep
<1>3. CASE LoginRestart
  BY <1>3, RestartKeeps
<1>4. ASSUME UNCHANGED login, NEW c \in Callers,
             EnsureReady(c) \/ Refresh(c) \/ Lock(c) \/ Answered(c) \/ Apply(c)
      PROVE  IInv'
  BY <1>4, CallerActionsKeep
<1>5. ASSUME UNCHANGED login,
             \/ saver # "login" /\ Save
             \/ Remove \/ Unauthorized \/ Expire
             \/ \E s \in {"active", "disabled"} : Patch(s)
      PROVE  IInv'
  BY <1>5, OtherActionsKeep
<1> QED
  BY <1>1, <1>2, <1>3, <1>4, <1>5 DEF LoginNext

\* IInv holds in every reachable state, whatever refreshes, logins, changes by the
\* admin API, failed writes and restarts are mixed.
THEOREM InvariantHolds == LoginSpec => []IInv
<1> QED
  BY InitOK, NextKeeps, PTL DEF LoginSpec

\* Every variable of the two modules keeps its type.
THEOREM TypeCorrect == LoginSpec => [](TypeOK /\ LoginTypeOK)
<1>1. IInv => TypeOK /\ LoginTypeOK
  BY DEF IInv
<1> QED
  BY <1>1, InvariantHolds, PTL

\* The saved refresh token is one that the provider accepts, in memory and in the
\* file, unless its replacement is being saved or was lost on the way.
THEOREM TokenStaysUsable == LoginSpec => []TokenUsable
<1>1. IInv => TokenUsable
  BY DEF IInv, SavedOK, TokenUsable
<1> QED
  BY <1>1, InvariantHolds, PTL

\* No refresh submits a token that the provider has replaced, unless the
\* replacement was lost on the way.
THEOREM NoTokenSpentTwice == LoginSpec => []ReplacedTokenNotReused
<1>1. IInv => ReplacedTokenNotReused
  BY DEF IInv, CallerOK, Holds, ReplacedTokenNotReused
<1> QED
  BY <1>1, InvariantHolds, PTL

\* markRefreshFailure marks an account as expired only when the provider refuses
\* the account's own token, unless a login has overtaken the refresh.
THEOREM ExpiryHasAReason == LoginSpec => ExpiredForAReason
<1>1. IInv /\ [LoginNext]_<<vars, login>> =>
        [\A c \in Callers :
           /\ caller[c].pc = "answered" /\ caller'[c].pc = "saving" /\ ~caller[c].overtaken
           /\ record.status # "expired" /\ record'.status = "expired"
           => record.token \notin valid]_vars
  <2> SUFFICES ASSUME IInv, [LoginNext]_<<vars, login>>, NEW c \in Callers,
                      caller[c].pc = "answered", caller'[c].pc = "saving",
                      ~caller[c].overtaken,
                      record.status # "expired", record'.status = "expired"
               PROVE  record.token \notin valid
    BY DEF vars
  <2>1. caller \in [Callers -> CallerStates]
    BY DEF IInv, TypeOK, CallerStates
  <2>2. Apply(c)
    <3>1. caller'[c] # caller[c] /\ caller' # caller
      OBVIOUS
    <3>2. ASSUME NEW d \in Callers, \/ EnsureReady(d) \/ Refresh(d) \/ Lock(d)
                                    \/ Answered(d) \/ Apply(d)
          PROVE  Apply(c)
      <4>1. CASE EnsureReady(d) \/ Refresh(d)
        BY <4>1, <3>1, <2>1, IdleType DEF EnsureReady, Refresh
      <4>2. CASE Lock(d)
        BY <4>2, <3>1, <2>1, IdleType DEF Lock, Submit, Return
      <4>3. CASE Answered(d)
        BY <4>3, <3>1, <2>1 DEF Answered, Kept, Rotated, Refused, Failed, Hear
      <4>4. CASE Apply(d)
        BY <4>4, <3>1, <2>1 DEF Apply, Return
      <4> QED
        BY <3>2, <4>1, <4>2, <4>3, <4>4
    <3>3. ~Save
      BY <3>1, SaveStep, IdleType DEF IInv, CallerOK
    <3>4. ~LoginRestart
      BY IdleType DEF LoginRestart, Restart
    <3>5. ASSUME NEW l \in Logins,
                 \/ Start(l) \/ Deadline(l) \/ LoginFails(l)
                 \/ ExchangeAuthorizationCode(l) \/ Upsert(l) \/ SaveLogin(l) \/ DeleteExpired(l)
          PROVE  FALSE
      <4>1. CASE Upsert(l)
        BY <4>1, <2>1 DEF Upsert, UpsertFromToken, CallerStates
      <4>2. CASE SaveLogin(l)
        BY <4>2, <3>3 DEF SaveLogin
      <4> QED
        BY <3>1, <3>5, <4>1, <4>2 DEF Start, Deadline, LoginFails,
           ExchangeAuthorizationCode, DeleteExpired, vars
    <3>6. ~Remove /\ ~Unauthorized /\ ~Expire /\ \A s \in {"active", "disabled"} : ~Patch(s)
      BY <3>1 DEF Remove, Unauthorized, Expire, Patch
    <3> QED
      BY <3>1, <3>2, <3>3, <3>4, <3>5, <3>6 DEF LoginNext, vars
  <2>3. Found(c) /\ record' = Outcome(record, c) /\ record # None
    BY <2>1, <2>2, IdleType DEF Apply, Return, Persist, Found
  <2>4. caller[c].answer = "refused"
    BY <2>3, OutcomeType
  <2> QED
    BY <2>3, <2>4 DEF IInv, CallerOK
<1> QED
  BY <1>1, InvariantHolds, PTL DEF LoginSpec, ExpiredForAReason

\* A device login is told to be ready exactly when its token is in the accounts
\* file of an active account.
THEOREM LoginsToldTheTruth == LoginSpec => LoginTold
<1> DEFINE A(l) == login[l].status = "pending" /\ login'[l].status \notin {"none", "pending"} =>
              LET saved == disk' # None /\ disk'.status = "active" /\ disk'.token = login[l].token
              IN  (login'[l].status = "ready") <=> saved
<1>1. IInv /\ [LoginNext]_<<vars, login>> => [\A l \in Logins : A(l)]_<<vars, login>>
  <2> SUFFICES ASSUME IInv, [LoginNext]_<<vars, login>>, NEW l \in Logins,
                      login[l].status = "pending",
                      login'[l].status \notin {"none", "pending"}
               PROVE  login'[l].status = "ready" <=>
                        /\ disk' # None /\ disk'.status = "active"
                        /\ disk'.token = login[l].token
    OBVIOUS
  <2>1. /\ login \in [Logins -> LoginStates]
        /\ disk # None => disk.token # 0
        /\ login[l].pc = "polling" => login[l].token = 0
    <3>1. 0 \notin 1..issued
      BY DEF IInv, TypeOK, Tokens
    <3> QED
      BY <3>1 DEF IInv, LoginTypeOK, LoginStates, LoginOK, SavedOK
  <2>2. login' # login
    OBVIOUS
  <2>3. ASSUME login[l].pc = "polling", SetStatus(l, "expired") \/ SetStatus(l, "error"),
               disk' = disk
        PROVE  login'[l].status # "ready" /\ (disk' # None => disk'.token # login[l].token)
    BY <2>1, <2>3, TerminalLogin DEF SetStatus
  <2>4. ASSUME NEW k \in Logins,
               \/ Start(k) \/ Deadline(k) \/ LoginFails(k)
               \/ ExchangeAuthorizationCode(k) \/ Upsert(k) \/ DeleteExpired(k)
        PROVE  /\ login'[l].status # "ready"
               /\ disk' # None => disk'.token # login[l].token
    <3>1. CASE Start(k)
      BY <2>1, <3>1, NoLoginType DEF Start, LoginStates
    <3>2. CASE Deadline(k) \/ LoginFails(k)
      BY <2>1, <2>3, <3>2, TerminalLogin DEF Deadline, LoginFails, SetStatus, vars
    <3>3. CASE ExchangeAuthorizationCode(k)
      <4>1. CASE login' = [login EXCEPT ![k].pc = "exchanged", ![k].token = issued']
        BY <2>1, <4>1 DEF LoginStates
      <4>2. CASE SetStatus(k, "error")
        BY <2>1, <2>3, <3>3, <4>2, TerminalLogin DEF ExchangeAuthorizationCode, SetStatus
      <4> QED
        BY <3>3, <4>1, <4>2 DEF ExchangeAuthorizationCode
    <3>4. CASE Upsert(k)
      BY <2>1, <3>4 DEF Upsert, LoginStates
    <3>5. CASE DeleteExpired(k)
      BY <2>1, <3>5, NoLoginType DEF DeleteExpired
    <3> QED
      BY <2>4, <3>1, <3>2, <3>3, <3>4, <3>5
  <2>5. ASSUME NEW k \in Logins, SaveLogin(k)
        PROVE  login'[l].status = "ready" <=>
                 /\ disk' # None /\ disk'.status = "active"
                 /\ disk'.token = login[l].token
    <3>1. /\ login[k].pc = "saving" /\ Save
          /\ login' = [login EXCEPT ![k] =
                         [NoLogin EXCEPT !.status = IF dirty' THEN "error" ELSE "ready"]]
      BY <2>5 DEF SaveLogin, SavedStatus, SetStatus
    <3>2. k = l
      BY <2>1, <3>1
    <3>3. login'[l].status = IF dirty' THEN "error" ELSE "ready"
      BY <2>1, <3>1, <3>2, TerminalLogin
    <3>4. /\ record # None /\ record.status = "active" /\ record.token = login[l].token
          /\ disk # None => disk.token # login[l].token
      BY <3>1, <3>2 DEF IInv, LoginOK, Carries
    <3>5. \/ disk' = record /\ dirty' = FALSE
          \/ disk' = disk /\ dirty' = TRUE
      BY <3>1, SaveStep
    <3> QED
      BY <3>3, <3>4, <3>5
  <2>6. ~LoginRestart
    BY NoLoginType DEF LoginRestart
  <2> QED
    BY <2>2, <2>4, <2>5, <2>6 DEF LoginNext
<1> QED
  BY <1>1, InvariantHolds, PTL DEF LoginSpec, LoginTold
=============================================================================
