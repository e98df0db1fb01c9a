------------------------------ MODULE Activity ------------------------------
(***************************************************************************)
(* The request activity store (internal/activity): the live records of     *)
(* inference requests, the subscribers of the admin event stream with      *)
(* their bounded buffers, and one day's log file with the pages that       *)
(* QueryLogs reads from it.  Whatever order the handlers call the store    *)
(* in, it is checked as it stands.                                         *)
(***************************************************************************)
EXTENDS Naturals, Sequences, SequencesExt

CONSTANTS Ids,          \* request ids; clients may choose them and use them again
          Accounts,
          Reached,      \* bound: the phases that SetPhase is called with
          Subscribers,  \* connections of the activity stream
          Buffer,       \* SubscriberBuffer
          PageSize,     \* LogQuery.Limit
          MaxLines,     \* bound: requests logged on the day
          None

ASSUME BoundsAssumption == /\ Buffer \in Nat \ {0} /\ PageSize \in Nat \ {0}
                           /\ MaxLines \in Nat /\ IsFiniteSet(Ids)

VARIABLES
  records,   \* Store.records: the live records, or None
  expired,   \* the records that ended longer ago than terminalRetention
  subs,      \* per connection: registered or not, its channel, what it was told
  writing,   \* the records that are finished but not appended to the file yet
  lines,     \* the number of readable lines in the file
  torn,      \* the file ends in half a line
  pager      \* a client that reads the log page by page

vars == <<records, expired, subs, writing, lines, torn, pager>>
-----------------------------------------------------------------------------

\* The order of phaseRank.
Phases == <<"routing", "upstream", "streaming", "finalizing", "complete">>

ASSUME ReachedAssumption == Reached \subseteq ToSet(Phases)

PhaseRank(p) == CHOOSE n \in 1..5 : Phases[n] = p

\* "ended" stands for every outcome that terminalOutcome lets through.
Outcomes == {"active", "ended"}

Records == [phase: ToSet(Phases), outcome: Outcomes, account: Accounts \union {None}]

ASSUME NoneAssumption == None \notin Records

Live == {i \in Ids : records[i] # None}

Upsert(i, r) == <<[id |-> i, record |-> r]>>

Silent == [state |-> "off", buffer |-> <<>>, view |-> [i \in Ids |-> None]]

NoPage == [state |-> "off", offset |-> 0, seen |-> {}, first |-> 0]

Init ==
  /\ records = [i \in Ids |-> None] /\ expired = {}
  /\ subs = [s \in Subscribers |-> Silent]
  /\ writing = {} /\ lines = 0 /\ torn = FALSE /\ pager = NoPage

PublishedDropsBug(events) ==
  [s \in Subscribers |->
    LET all == subs[s].buffer \o events
    IN IF subs[s].state = "registered"
       THEN [subs[s] EXCEPT !.buffer = SubSeq(all, 1, IF Len(all) < Buffer THEN Len(all) ELSE Buffer)]
       ELSE subs[s]]

\* publishLocked: a subscriber whose channel is full is closed and forgotten; it
\* may still read what is in the channel.
Published(events) ==
  [s \in Subscribers |->
    LET all == subs[s].buffer \o events
    IN IF subs[s].state # "registered" THEN subs[s]
       ELSE IF Len(all) <= Buffer THEN [subs[s] EXCEPT !.buffer = all]
       ELSE [subs[s] EXCEPT !.buffer = SubSeq(all, 1, Buffer), !.state = "closed"]]

Publish(events) == subs' = Published(events)
-----------------------------------------------------------------------------

\* The id of a record that is still in the window is refused.  By the time that
\* window is over the line of the earlier record has long been written.
Start(i) ==
  LET r == [phase |-> "routing", outcome |-> "active", account |-> None]
  IN /\ records[i] = None /\ i \notin writing
     /\ lines + Cardinality(Live \union writing) < MaxLines
     /\ records' = [records EXCEPT ![i] = r]
     /\ Publish(Upsert(i, r))
     /\ UNCHANGED <<expired, writing, lines, torn, pager>>

SanitizedBackwardBug(r, before) ==
  IF r.phase = "complete" THEN [r EXCEPT !.phase = before.phase] ELSE r

\* sanitizeRecordUpdate: the phase neither goes back nor becomes "complete".
Sanitized(r, before) ==
  IF PhaseRank(r.phase) < PhaseRank(before.phase) \/ r.phase = "complete"
  THEN [r EXCEPT !.phase = before.phase] ELSE r

\* Update with the record that SetAccount or SetPhase has changed.
Update(i, changed) ==
  LET r == Sanitized(changed, records[i])
  IN /\ records[i].outcome = "active" /\ r # records[i]
     /\ records' = [records EXCEPT ![i] = r]
     /\ Publish(Upsert(i, r))
     /\ UNCHANGED <<expired, writing, lines, torn, pager>>

SetAccount(i, a) == /\ records[i] # None
                    /\ Update(i, [records[i] EXCEPT !.account = a, !.phase = "upstream"])

SetPhase(i, p) == records[i] # None /\ Update(i, [records[i] EXCEPT !.phase = p])

\* Finish: the record ends, then its line is written without the store's lock.
Finish(i) ==
  /\ records[i] # None /\ records[i].outcome = "active"
  /\ LET r == [records[i] EXCEPT !.phase = "complete", !.outcome = "ended"]
     IN records' = [records EXCEPT ![i] = r] /\ Publish(Upsert(i, r))
  /\ writing' = writing \union {i}
  /\ UNCHANGED <<expired, lines, torn, pager>>

\* appendRecord.  A line that follows half a line cannot be read; a write may
\* fail at once or leave half a line of its own.
AppendRecord(i) ==
  /\ i \in writing /\ writing' = writing \ {i}
  /\ \/ /\ lines' = IF torn THEN lines ELSE lines + 1
        /\ torn' = FALSE
     \/ UNCHANGED <<lines, torn>>
     \/ torn' = TRUE /\ UNCHANGED lines
  /\ UNCHANGED <<records, expired, subs, pager>>

\* terminalRetention has passed since the request ended.
Age(i) == /\ records[i] # None /\ records[i].phase = "complete" /\ i \notin expired
          /\ expired' = expired \union {i}
          /\ UNCHANGED <<records, subs, writing, lines, torn, pager>>

\* pruneExpiredLocked: the records that go, in the order of the map, and the
\* ones that stay.
Removals(order) == [n \in DOMAIN order |-> [id |-> order[n], record |-> None]]

Kept == [i \in Ids |-> IF i \in expired THEN None ELSE records[i]]

Prune == records' = Kept /\ expired' = {}

\* Sweep, and Snapshot for one page view.
Sweep == /\ expired # {} /\ Prune
         /\ \E order \in SetToSeqs(expired) : Publish(Removals(order))
         /\ UNCHANGED <<writing, lines, torn, pager>>
-----------------------------------------------------------------------------

\* Subscribe removes what has expired, tells the others, and hands out the
\* snapshot in one critical section.
Subscribe(s) ==
  /\ subs[s].state = "off" /\ Prune
  /\ \E order \in SetToSeqs(expired) :
       subs' = [Published(Removals(order)) EXCEPT
                  ![s] = [state |-> "registered", buffer |-> <<>>, view |-> Kept]]
  /\ UNCHANGED <<writing, lines, torn, pager>>

\* The stream handler sends the next event to the client.
Receive(s) ==
  /\ subs[s].buffer # <<>>
  /\ LET e == Head(subs[s].buffer)
     IN subs' = [subs EXCEPT ![s].buffer = Tail(subs[s].buffer), ![s].view[e.id] = e.record]
  /\ UNCHANGED <<records, expired, writing, lines, torn, pager>>

\* Close, on shutdown: no stream gets another event.
Close == LET open == {s \in Subscribers : subs[s].state = "registered"}
         IN /\ open # {}
            /\ subs' = [s \in Subscribers |-> IF s \in open THEN [subs[s] EXCEPT !.state = "closed"] ELSE subs[s]]
            /\ UNCHANGED <<records, expired, writing, lines, torn, pager>>

\* The channel is closed and empty, or the client has gone: the handler ends.
StreamEnds(s) == /\ subs[s].state # "off"
                 /\ subs' = [subs EXCEPT ![s] = Silent]
                 /\ UNCHANGED <<records, expired, writing, lines, torn, pager>>

PageEnd(offset) == IF offset + PageSize < lines THEN offset + PageSize ELSE lines

QueryLogsSkipsBug ==
  /\ pager.state # "done"
  /\ LET end == PageEnd(pager.offset)
     IN pager' = [state |-> IF end < lines THEN "paging" ELSE "done",
                  offset |-> IF end < lines THEN end + 1 ELSE end,
                  seen |-> pager.seen \union (lines - end + 1)..(lines - pager.offset),
                  first |-> IF pager.state = "off" THEN lines ELSE pager.first]
  /\ UNCHANGED <<records, expired, subs, writing, lines, torn>>

\* QueryLogs: the newest lines first, from the offset in the cursor on.  The
\* page holds the lines numbered from lines - offset down to lines - end + 1.
QueryLogs ==
  /\ pager.state # "done"
  /\ LET end == PageEnd(pager.offset)
     IN pager' = [state |-> IF end < lines THEN "paging" ELSE "done",
                  offset |-> end,
                  seen |-> pager.seen \union (lines - end + 1)..(lines - pager.offset),
                  first |-> IF pager.state = "off" THEN lines ELSE pager.first]
  /\ UNCHANGED <<records, expired, subs, writing, lines, torn>>

\* The process stops: the live records and the streams are lost, and what was
\* being written is in the file, cut in half, or not there.
Restart ==
  /\ records' = [i \in Ids |-> None] /\ expired' = {} /\ writing' = {}
  /\ subs' = [s \in Subscribers |-> Silent]
  /\ \/ UNCHANGED <<lines, torn>>
     \/ writing # {} /\ torn' = TRUE /\ UNCHANGED lines
  /\ UNCHANGED pager

Next ==
  \/ \E i \in Ids :
       \/ Start(i) \/ Finish(i) \/ AppendRecord(i) \/ Age(i)
       \/ \E a \in Accounts : SetAccount(i, a)
       \/ \E p \in Reached : SetPhase(i, p)
  \/ \E s \in Subscribers : Subscribe(s) \/ Receive(s) \/ StreamEnds(s)
  \/ Sweep \/ Close \/ QueryLogs \/ Restart

Spec == Init /\ [][Next]_vars

\* The state is made of records, channels, counters and a page cursor.
TypeOK ==
  /\ records \in [Ids -> Records \union {None}]
  /\ expired \subseteq Live /\ writing \subseteq Ids
  /\ DOMAIN subs = Subscribers
  /\ \A s \in Subscribers : Len(subs[s].buffer) <= Buffer
  /\ lines \in 0..MaxLines /\ torn \in BOOLEAN
  /\ pager.offset \in 0..MaxLines /\ pager.seen \subseteq 1..MaxLines
-----------------------------------------------------------------------------

\* What the client shows of a request once it has received all that is in its
\* channel: the last event about it, or what it shows now.
Shows(view, buffer, i, r) ==
  \/ view[i] = r /\ \A n \in DOMAIN buffer : buffer[n].id # i
  \/ \E n \in DOMAIN buffer : /\ buffer[n].id = i /\ buffer[n].record = r
                              /\ \A m \in DOMAIN buffer : m > n => buffer[m].id # i

\* The snapshot of a stream and the events after it add up to the live records:
\* a client that has received everything in its channel shows what the store
\* holds, and one that was too slow is told by the end of its stream.
StreamExact == \A s \in Subscribers : subs[s].state = "registered" =>
  \A i \in Ids : Shows(subs[s].view, subs[s].buffer, i, records[i])

\* A client that follows the cursors to the end has seen every line that was
\* there when it began, however many requests end in the meantime.
PagesMissNothing == pager.state = "done" => 1..pager.first \subseteq pager.seen

\* What a stream tells of one request never goes back: no phase is undone and
\* nothing but its removal follows its end.
Forward(before, after) ==
  \/ before = None \/ after = None \/ after = before
  \/ before.outcome = "active" /\ PhaseRank(before.phase) <= PhaseRank(after.phase)

StreamForward == [][\A s \in Subscribers, i \in Ids :
  subs'[s].state # "off" /\ subs[s].state # "off" => Forward(subs[s].view[i], subs'[s].view[i])]_vars
=============================================================================
