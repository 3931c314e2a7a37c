------------------------------ MODULE Analytics -------------------------------
(***************************************************************************)
(* Counting views: the beacon of the public page and the route that takes  *)
(* it, the buffer and the daily salt in Redis, the flush that moves the    *)
(* buffer to the database, and the figures the couple are shown            *)
(* (core/src/analytics, infra/src/analytics, db/.../analytics.repository). *)
(*                                                                         *)
(* A view is named by the beacon that reports it, or, when the client of   *)
(* Redis sends what pushes it a second time, by that second transaction.   *)
(* Its hash is the salt, the visitor and the invitation; a salt is named   *)
(* by the view that minted it.  A day's salt outlives the day by two hours *)
(* and is not asked for again.  Device classes are left out, and so is     *)
(* what makes a page visible, which is in PublicEdge.                      *)
(***************************************************************************)
EXTENDS Integers, Sequences, FiniteSets

CONSTANTS
  Views,        \* beacons, each sent once, and pushes sent again
  Visitors,     \* addresses with their user agents
  Invitations,
  Flushes,      \* what may flush: the worker's timer, the cron route
  Null,
  BatchSize,    \* FLUSH_BATCH_SIZE
  MaxBatches,   \* FLUSH_MAX_BATCHES
  BufferMax,    \* BUFFER_MAX_EVENTS
  LastDay,      \* bound on days
  MaxFaults     \* bound on failures

ASSUME AnalyticsAssumption ==
  /\ Null \notin Views
  /\ {BatchSize, MaxBatches, BufferMax} \subseteq Nat \ {0}
  /\ {LastDay, MaxFaults} \subseteq Nat

VARIABLES
  gone,        \* invitations deleted
  day,         \* the date
  salt,        \* zfaf:analytics:salt:<day>
  buffer,      \* zfaf:analytics:pending, the newest view first
  unreadable,  \* views another release encoded its own way
  view,        \* the beacons, and the pushes sent again
  flush,       \* the flush runs
  rows,        \* how many rows of analytics_events each view has
  overflowReported,  \* the cap dropped a view, and it was said
  restarted,   \* Redis lost what it held
  faults       \* failures so far

countingVars == <<gone, day, salt, buffer, unreadable, view, flush, rows, overflowReported, restarted,
                  faults>>

(* -------------------------------- the state ---------------------------- *)

Days == 0..LastDay

View == [pc : {"new", "sent", "mint", "read", "push", "done", "dropped"},
         invitation : Invitations \cup {Null},
         visitor : Visitors \cup {Null}, at : Days, salt : Views \cup {Null}]

NewView == [pc |-> "new", invitation |-> Null, visitor |-> Null, at |-> 0, salt |-> Null]

Flush == [pc : {"idle", "drain", "write", "alive", "retry"}, batch : SUBSET Views,
          left : 0..MaxBatches, alive : SUBSET Invitations]

IdleFlush == [pc |-> "idle", batch |-> {}, left |-> 0, alive |-> {}]

CountingInit ==
  /\ gone = {}
  /\ day = 0
  /\ salt = [d \in Days |-> Null]
  /\ buffer = <<>>
  /\ unreadable = {}
  /\ view = [v \in Views |-> NewView]
  /\ flush = [f \in Flushes |-> IdleFlush]
  /\ rows = [v \in Views |-> 0]
  /\ overflowReported = FALSE
  /\ restarted = FALSE
  /\ faults = 0

Fail == faults < MaxFaults /\ faults' = faults + 1

(* ------------------------------- one beacon ---------------------------- *)

NextView(v) == view[v].pc = "new" /\ v = CHOOSE new \in Views : view[new].pc = "new"

\* reportView: a page open on this invitation sends its address, once, and forgets it.
Report(v, visitor, i) ==
  /\ NextView(v)
  /\ view' = [view EXCEPT ![v].pc = "sent", ![v].invitation = i, ![v].visitor = visitor]
  /\ UNCHANGED <<gone, day, salt, buffer, unreadable, flush, rows, overflowReported, restarted,
                 faults>>

Drop(v) == view' = [view EXCEPT ![v] = [NewView EXCEPT !.pc = "dropped"]]

\* It never arrives, or is answered 204 and forgotten: too many from this visitor, a body
\* too large or of another shape, an address that leads to no page a guest may see now.
TurnAway(v) ==
  /\ view[v].pc = "sent"
  /\ Drop(v)
  /\ UNCHANGED <<gone, day, salt, buffer, unreadable, flush, rows, overflowReported, restarted,
                 faults>>

\* recordView: the address leads to a page a guest may see now.
Resolve(v) ==
  /\ view[v].pc = "sent" /\ view[v].invitation \notin gone
  /\ view' = [view EXCEPT ![v].pc = "mint", ![v].at = day]
  /\ UNCHANGED <<gone, day, salt, buffer, unreadable, flush, rows, overflowReported, restarted,
                 faults>>

\* Redis does not answer: recordView says BUFFER_UNAVAILABLE, and the answer is 204.
Unavailable(v) ==
  /\ view[v].pc \in {"mint", "read", "push"}
  /\ Fail
  /\ Drop(v)
  /\ UNCHANGED <<gone, day, salt, buffer, unreadable, flush, rows, overflowReported, restarted>>

\* Seeded fault: the salt is set whether or not the day has one.
MintSalt_Overwrites(v) ==
  /\ view[v].pc = "mint"
  /\ salt' = [salt EXCEPT ![view[v].at] = v]
  /\ view' = [view EXCEPT ![v].pc = "read"]
  /\ UNCHANGED <<gone, day, buffer, unreadable, flush, rows, overflowReported, restarted, faults>>

\* currentSalt: SET key candidate NX.
MintSalt(v) ==
  /\ view[v].pc = "mint"
  /\ salt' = [salt EXCEPT ![view[v].at] = IF @ = Null THEN v ELSE @]
  /\ view' = [view EXCEPT ![v].pc = "read"]
  /\ UNCHANGED <<gone, day, buffer, unreadable, flush, rows, overflowReported, restarted, faults>>

\* then GET key, or the candidate if the key is gone.
ReadSalt(v) == LET stored == salt[view[v].at] IN
  /\ view[v].pc = "read"
  /\ view' = [view EXCEPT ![v].pc = "push", ![v].salt = IF stored = Null THEN v ELSE stored]
  /\ UNCHANGED <<gone, day, salt, buffer, unreadable, flush, rows, overflowReported, restarted,
                 faults>>

\* visitorHash: nobody can tell which of its three parts made two hashes differ.
VisitorHash(v) == <<view[v].salt, view[v].visitor, view[v].invitation>>

\* The connection drops under a push.  Whether or not the transaction was executed, the client
\* of Redis sends it again over the next connection.
PushAgain(v, again) ==
  /\ view[v].pc = "push" /\ NextView(again)
  /\ Fail
  /\ view' = [view EXCEPT ![again] = view[v]]
  /\ UNCHANGED <<gone, day, salt, buffer, unreadable, flush, rows, overflowReported, restarted>>

\* LPUSH and LTRIM in one transaction; a list longer than the cap is reported.  While a
\* deploy is under way the release that pushes may not be the one that reads.
Push(v) == LET pushed == <<v>> \o buffer IN
  /\ view[v].pc = "push"
  /\ IF Len(pushed) > BufferMax
       THEN buffer' = SubSeq(pushed, 1, BufferMax) /\ overflowReported' = TRUE
       ELSE buffer' = pushed /\ UNCHANGED overflowReported
  /\ view' = [view EXCEPT ![v].pc = "done"]
  /\ \/ UNCHANGED <<unreadable, faults>>
     \/ Fail /\ unreadable' = unreadable \cup {v}
  /\ UNCHANGED <<gone, day, salt, flush, rows, restarted>>

(* -------------------------------- the flush ---------------------------- *)

\* A run that finds the buffer empty changes nothing.
StartFlush(f) ==
  /\ flush[f].pc = "idle" /\ buffer # <<>>
  /\ flush' = [flush EXCEPT ![f].pc = "drain", ![f].left = MaxBatches]
  /\ UNCHANGED <<gone, day, salt, buffer, unreadable, view, rows, overflowReported, restarted,
                 faults>>

\* decodeBufferedEvent: an entry that does not parse is discarded.
Decoded(entries) == entries \ unreadable

\* RPOP key n: the oldest of the list, taken out of it.  A run ends with its last batch,
\* and with a batch that holds nothing it can read.
Drain(f) ==
  LET size  == IF Len(buffer) < BatchSize THEN Len(buffer) ELSE BatchSize
      batch == Decoded({buffer[k] : k \in (Len(buffer) - size + 1)..Len(buffer)})
  IN
  /\ flush[f].pc = "drain"
  /\ buffer' = IF flush[f].left = 0 THEN buffer ELSE SubSeq(buffer, 1, Len(buffer) - size)
  /\ flush' = IF flush[f].left = 0 \/ batch = {}
                THEN [flush EXCEPT ![f] = IdleFlush]
                ELSE [flush EXCEPT ![f].pc = "write", ![f].batch = batch, ![f].left = @ - 1]
  /\ UNCHANGED <<gone, day, salt, unreadable, view, rows, overflowReported, restarted, faults>>

Alive(batch) == {v \in batch : view[v].invitation \notin gone}

Insert(batch) == rows' = [v \in Views |-> IF v \in batch THEN rows[v] + 1 ELSE rows[v]]

\* The batch is dealt with; the run takes the next.
NextBatch(f) == flush' = [flush EXCEPT ![f] = [IdleFlush EXCEPT !.pc = "drain", !.left = flush[f].left]]

\* recordBatch: one INSERT, which the foreign key refuses whole.
Write(f) == LET batch == flush[f].batch IN
  /\ flush[f].pc = "write"
  /\ IF Alive(batch) = batch
       THEN Insert(batch) /\ NextBatch(f)
       ELSE flush' = [flush EXCEPT ![f].pc = "alive"] /\ UNCHANGED rows
  /\ UNCHANGED <<gone, day, salt, buffer, unreadable, view, overflowReported, restarted, faults>>

\* Which of the invitations still exist?
FindAlive(f) ==
  /\ flush[f].pc = "alive"
  /\ IF Alive(flush[f].batch) = {} THEN NextBatch(f)
     ELSE flush' = [flush EXCEPT ![f].pc = "retry", ![f].alive = Invitations \ gone]
  /\ UNCHANGED <<gone, day, salt, buffer, unreadable, view, rows, overflowReported, restarted,
                 faults>>

\* A second INSERT for those; one of them may have gone since, and the batch is lost.
WriteSurvivors(f) ==
  LET survivors == {v \in flush[f].batch : view[v].invitation \in flush[f].alive} IN
  /\ flush[f].pc = "retry"
  /\ IF Alive(survivors) = survivors THEN Insert(survivors) ELSE UNCHANGED rows
  /\ NextBatch(f)
  /\ UNCHANGED <<gone, day, salt, buffer, unreadable, view, overflowReported, restarted, faults>>

\* Seeded fault: a batch whose write failed is put back for the next run.
WriteFails_PutBack(f) == LET batch == flush[f].batch IN
  /\ flush[f].pc \in {"write", "alive", "retry"}
  /\ Fail
  /\ Insert(Alive(batch)) \/ UNCHANGED rows
  /\ buffer' = buffer \o CHOOSE s \in [1..Cardinality(batch) -> batch] :
                            \A v \in batch : \E k \in DOMAIN s : s[k] = v
  /\ NextBatch(f)
  /\ UNCHANGED <<gone, day, salt, unreadable, view, overflowReported, restarted>>

\* The connection fails, before the commit or after it: the batch is not put back.
WriteFails(f) == LET batch == flush[f].batch IN
  /\ flush[f].pc \in {"write", "alive", "retry"}
  /\ Fail
  /\ \/ UNCHANGED rows
     \/ flush[f].pc = "write" /\ Alive(batch) = batch /\ Insert(batch)
  /\ NextBatch(f)
  /\ UNCHANGED <<gone, day, salt, buffer, unreadable, view, overflowReported, restarted>>

\* Redis does not answer, or the process stops: the run ends with what it holds.
FlushEnds(f) ==
  /\ flush[f].pc # "idle"
  /\ Fail
  /\ flush' = [flush EXCEPT ![f] = IdleFlush]
  /\ UNCHANGED <<gone, day, salt, buffer, unreadable, view, rows, overflowReported, restarted>>

(* ------------------------------ around them ---------------------------- *)

\* The invitation is deleted, and its rows with it.
Delete(i) ==
  /\ i \notin gone
  /\ gone' = gone \cup {i}
  /\ rows' = [v \in Views |-> IF view[v].invitation = i THEN 0 ELSE rows[v]]
  /\ UNCHANGED <<day, salt, buffer, unreadable, view, flush, overflowReported, restarted, faults>>

NextDay ==
  /\ day < LastDay
  /\ day' = day + 1
  /\ UNCHANGED <<gone, salt, buffer, unreadable, view, flush, rows, overflowReported, restarted,
                 faults>>

\* Redis keeps nothing across a restart.
RedisRestarts ==
  /\ Fail
  /\ restarted' = TRUE
  /\ salt' = [d \in Days |-> Null]
  /\ buffer' = <<>>
  /\ UNCHANGED <<gone, day, unreadable, view, flush, rows, overflowReported>>

CountingNext ==
  \/ \E v \in Views :
       \/ \E visitor \in Visitors, i \in Invitations : Report(v, visitor, i)
       \/ TurnAway(v) \/ Resolve(v) \/ Unavailable(v)
       \/ MintSalt(v) \/ ReadSalt(v) \/ Push(v)
       \/ \E again \in Views : PushAgain(v, again)
  \/ \E f \in Flushes : 
       \/ StartFlush(f) \/ Drain(f) \/ Write(f) \/ FindAlive(f) \/ WriteSurvivors(f)
       \/ WriteFails(f) \/ FlushEnds(f)
  \/ \E i \in Invitations : Delete(i)
  \/ NextDay \/ RedisRestarts

CountingSpec == CountingInit /\ [][CountingNext]_countingVars

(* -------------------------------- properties --------------------------- *)

\* Every variable keeps its shape, and the list its cap.
CountingTypeOK ==
  /\ gone \subseteq Invitations
  /\ day \in Days
  /\ salt \in [Days -> Views \cup {Null}]
  /\ buffer \in Seq(Views) /\ Len(buffer) <= BufferMax
  /\ unreadable \subseteq Views
  /\ view \in [Views -> View]
  /\ flush \in [Flushes -> Flush]
  /\ rows \in [Views -> Nat]
  /\ {overflowReported, restarted} \subseteq BOOLEAN
  /\ faults \in 0..MaxFaults

Copies(v) ==
  rows[v] + Cardinality({k \in DOMAIN buffer : buffer[k] = v})
          + Cardinality({f \in Flushes : v \in flush[f].batch})

\* Two runs that drain at once never hand one entry of the buffer to the database twice,
\* whatever write fails on the way (redis-analytics-buffer.ts:14, flush-analytics.ts:58); a
\* push sent again is an entry of its own, and is counted again.  And one dead invitation costs
\* only its own views (analytics.repository.ts:38): as long as nothing fails and no overflow
\* was reported, a view that was pushed is on its way or counted.
EachViewOnce ==
  \A v \in Views :
    /\ Copies(v) <= 1
    /\ faults = 0 /\ ~overflowReported /\ Cardinality(gone) <= 1
         => (view[v].pc = "done" /\ view[v].invitation \notin gone => Copies(v) = 1)

\* statsFor: the rows of one invitation, and COUNT(DISTINCT visitor_hash) over them.
Counted(i) == {v \in Views : rows[v] > 0 /\ view[v].invitation = i}

UniqueVisitors(i) == Cardinality({VisitorHash(v) : v \in Counted(i)})

\* However the first views of a day race for its salt, unique visitors are people,
\* once a day, as long as Redis keeps the salt (redis-daily-salt.ts:20).
UniquesArePeople ==
  ~restarted => \A i \in Invitations :
    UniqueVisitors(i) = Cardinality({<<view[v].at, view[v].visitor>> : v \in Counted(i)})
=============================================================================
