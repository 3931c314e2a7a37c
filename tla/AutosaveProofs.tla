--------------------------- MODULE AutosaveProofs ---------------------------
(***************************************************************************)
(* Proofs about Autosave and DraftStore, for any tabs, paths and values.   *)
(***************************************************************************)
EXTENDS Autosave, TLAPS

(* ----------------------------- the operators --------------------------- *)

LEMMA Blanks == Blank \in Document /\ NoEdits \in Patch
  BY DraftStoreAssumption DEF Blank, Document, NoEdits, Patch

\* A patch applied to a document is a document, and to a patch a patch.
LEMMA ApplyTyped ==
  ASSUME NEW patch \in Patch
  PROVE  /\ \A d \in Document : Apply(d, patch) \in Document
         /\ \A q \in Patch : Apply(q, patch) \in Patch
  BY DEF Apply, Document, Patch

LEMMA QueueTyped == ASSUME NEW e \in Engine PROVE Queue(e) \in Patch
<1>1. e.inFlight \in Patch /\ e.pending \in Patch
  BY DEF Engine
<1> QED BY <1>1, ApplyTyped DEF Queue

\* With nothing in flight the queue is what is pending.
LEMMA QueueIsPending ==
  ASSUME NEW e \in Engine, e.inFlight = NoEdits
  PROVE  Queue(e) = e.pending
<1>1. e.pending \in Patch
  BY DEF Engine
<1>2. \A p \in Paths : Apply(NoEdits, e.pending)[p] = e.pending[p]
  BY DEF Apply, NoEdits
<1> QED BY <1>1, <1>2 DEF Queue, Apply, Patch

\* With nothing pending it is what is in flight.
LEMMA QueueIsInFlight ==
  ASSUME NEW e \in Engine, e.pending = NoEdits
  PROVE  Queue(e) = e.inFlight
<1>1. e.inFlight \in Patch
  BY DEF Engine
<1>2. \A p \in Paths : Apply(e.inFlight, NoEdits)[p] = e.inFlight[p]
  BY DEF Apply, NoEdits
<1> QED BY <1>1, <1>2 DEF Queue, Apply, Patch

LEMMA LoadedTyped ==
  ASSUME NEW d \in Document, NEW v \in Nat
  PROVE  Loaded(d, v) \in Engine
<1>1. <<>> \in Seq(SUBSET Paths)
  OBVIOUS
<1> QED BY <1>1, Blanks DEF Loaded, Engine, NoConflict

LEMMA PersistedTyped == ASSUME NEW e \in Engine PROVE Persisted(e) \in LocalDraft
  BY QueueTyped DEF Persisted, LocalDraft, Engine

LEMMA SendingTyped == ASSUME NEW e \in Engine PROVE Sending(e) \in Engine
  BY QueueTyped, Blanks DEF Sending, Engine

LEMMA AwaitingTyped == ASSUME NEW e \in Engine PROVE Awaiting(e) \in Engine
<1>1. Touched(Queue(e)) \in SUBSET Paths
  BY DEF Touched
<1>2. Append(e.waiting, Touched(Queue(e))) \in Seq(SUBSET Paths)
  BY <1>1 DEF Engine
<1> QED BY <1>2 DEF Awaiting, Engine

\* What each answer makes of the engine.
LEMMA AnswersTyped ==
  ASSUME NEW e \in Engine, NEW c \in Call
  PROVE  /\ Acknowledged(e, c) \in Engine
         /\ Rebased(e, c) \in Engine
         /\ Asking(e, c) \in Engine
         /\ Dropped(e) \in Engine
         /\ Offline(e) \in Engine
<1>1. /\ c.patch \in Patch /\ c.answer.document \in Document /\ c.answer.version \in Nat
      /\ e.base \in Document /\ e.pending \in Patch /\ e.debounce \in BOOLEAN
  BY DEF Call, Answer, Engine
<1>2. /\ Apply(e.base, c.patch) \in Document
      /\ Apply(c.answer.document, c.patch) \in Document
      /\ Apply(c.patch, e.pending) \in Patch
  BY <1>1, ApplyTyped
<1>3. Acknowledged(e, c) \in Engine
  BY <1>1, <1>2, Blanks DEF Acknowledged, Engine
<1>4. Rebased(e, c) \in Engine
  BY <1>1, <1>2, Blanks DEF Rebased, Engine
<1>5. Asking(e, c) \in Engine
  BY <1>1 DEF Asking, Engine
<1>6. Dropped(e) \in Engine /\ Offline(e) \in Engine
  BY Blanks DEF Dropped, Offline, Engine
<1> QED BY <1>3, <1>4, <1>5, <1>6

(* --------------------------- the invariant ----------------------------- *)

\* The drafts are never none, and a draft still to settle is a draft.
Typed ==
  /\ TypeOK
  /\ drafts # <<>>
  /\ \A t \in Tabs : restore[t] \in {"use-local", "ask"} => found[t] \in LocalDraft

\* A tab waits for at most one answer, and only while it is saving; a closed one is not.
Awaits ==
  /\ \A c, d \in calls : c.live /\ d.live /\ c.tab = d.tab => c = d
  /\ \A c \in calls : c.live => engine[c.tab].saving
  /\ \A t \in Tabs : t \notin open => ~engine[t].saving

\* What is queued has a clock; what was typed behind a save has one that outlives its answer.
Clocked(e) ==
  /\ Queue(e) # NoEdits => e.debounce \/ e.retry \/ e.saving \/ e.status = "conflict"
  /\ e.saving /\ e.pending # NoEdits => e.debounce \/ e.waiting # <<>>

Clocks == \A t \in Tabs : Clocked(engine[t])

\* What an answer must leave for the engine it resumes to have a clock again.
Settled(e) ==
  \/ Queue(e) = NoEdits
  \/ e.waiting # <<>>
  \/ e.debounce \/ e.retry \/ e.status = "conflict"

(* ------------------------------ the steps ------------------------------ *)

LEMMA NewCallTyped ==
  ASSUME NEW t \in Tabs, NEW q \in Patch, NEW v \in Nat
  PROVE  NewCall(t, q, v) \in Call /\ NewCall(t, q, v).tab = t
  BY Blanks DEF NewCall, NoAnswer, Answer, Call

\* Sending, from among calls none of which the tab still waits for.
LEMMA SendKeeps ==
  ASSUME Typed, Awaits, Clocks, NEW t \in Tabs, NEW e \in Engine, NEW others,
         others \subseteq Call,
         \A d \in others : d.live => d.tab # t,
         \A d \in others : d.live => d \in calls,
         t \in open, open' = open,
         Send(t, e, others)
  PROVE  /\ engine' \in [Tabs -> Engine] /\ calls' \subseteq Call
         /\ Awaits' /\ Clocks'
<1> DEFINE n == NewCall(t, Queue(e), e.version)
           s == Sending(e)
<1>1. e.version \in Nat /\ Queue(e) \in Patch
  BY QueueTyped DEF Engine
<1>2. n \in Call /\ n.tab = t
  BY <1>1, NewCallTyped
<1>3. s \in Engine
  BY SendingTyped
<1>4. s.saving /\ s.pending = NoEdits
  BY DEF Sending, Engine
<1>5. engine' = [engine EXCEPT ![t] = s] /\ calls' = others \cup {n}
  BY DEF Send
<1>6. engine \in [Tabs -> Engine]
  BY DEF Typed, TypeOK
<1>7. engine' \in [Tabs -> Engine] /\ calls' \subseteq Call
  BY <1>2, <1>3, <1>5, <1>6
<1>8. engine'[t] = s /\ \A u \in Tabs : u # t => engine'[u] = engine[u]
  BY <1>5, <1>6
<1>9. Awaits'
  <2>1. \A d \in others : d.live => d.tab \in Tabs /\ engine'[d.tab].saving
    BY <1>8 DEF Awaits, Call
  <2>2. \A c, d \in others : c.live /\ d.live /\ c.tab = d.tab => c = d
    BY DEF Awaits
  <2>3. \A c, d \in calls' : c.live /\ d.live /\ c.tab = d.tab => c = d
    BY <2>2, <1>2, <1>5
  <2>4. \A c \in calls' : c.live => engine'[c.tab].saving
    BY <2>1, <1>2, <1>4, <1>5, <1>8
  <2>5. \A u \in Tabs : u \notin open' => ~engine'[u].saving
    BY <1>8 DEF Awaits
  <2> QED BY <2>3, <2>4, <2>5 DEF Awaits
<1>10. Clocks'
  <2>1. Clocked(s)
    BY <1>4 DEF Clocked
  <2> QED BY <2>1, <1>8 DEF Clocks
<1> QED BY <1>7, <1>9, <1>10

\* Changing one tab's engine and no call.
LEMMA EngineKeeps ==
  ASSUME Typed, Awaits, Clocks, NEW t \in Tabs, NEW e \in Engine, Clocked(e),
         e.saving = engine[t].saving, open' = open,
         engine' = [engine EXCEPT ![t] = e], calls' = calls
  PROVE  engine' \in [Tabs -> Engine] /\ Awaits' /\ Clocks'
<1>1. engine \in [Tabs -> Engine] /\ calls \subseteq Call
  BY DEF Typed, TypeOK
<1>2. engine'[t] = e /\ \A u \in Tabs : u # t => engine'[u] = engine[u]
  BY <1>1
<1>3. \A u \in Tabs : engine'[u].saving = engine[u].saving
  BY <1>2
<1>4. \A c \in calls : c.tab \in Tabs
  BY <1>1 DEF Call
<1> QED BY <1>1, <1>2, <1>3, <1>4 DEF Awaits, Clocks

\* Taking an answer: the call it came by is gone, or nobody waits for it any more.
LEMMA ResumeKeeps ==
  ASSUME Typed, Awaits, Clocks, NEW t \in Tabs, NEW e \in Engine, NEW others,
         others \subseteq Call,
         \A d \in others : d.live => d.tab # t,
         \A d \in others : d.live => d \in calls,
         t \in open, open' = open, Settled(e),
         Resume(t, e, others)
  PROVE  /\ engine' \in [Tabs -> Engine] /\ calls' \subseteq Call
         /\ Awaits' /\ Clocks'
<1> DEFINE rest == [e EXCEPT !.saving = FALSE, !.waiting = <<>>]
<1>1. rest \in Engine
  <2>1. <<>> \in Seq(SUBSET Paths)
    OBVIOUS
  <2> QED BY <2>1 DEF Engine
<1>2. CASE e.waiting # <<>> /\ Queue(e) # NoEdits
  <2>1. Send(t, rest, others)
    BY <1>2 DEF Resume
  <2> QED BY <2>1, <1>1, SendKeeps
<1>3. CASE ~(e.waiting # <<>> /\ Queue(e) # NoEdits)
  <2>1. engine' = [engine EXCEPT ![t] = rest] /\ calls' = others
    BY <1>3 DEF Resume
  <2>2. engine \in [Tabs -> Engine]
    BY DEF Typed, TypeOK
  <2>3. engine'[t] = rest /\ \A u \in Tabs : u # t => engine'[u] = engine[u]
    BY <2>1, <2>2
  <2>4. engine' \in [Tabs -> Engine]
    BY <2>1, <2>2, <1>1
  <2>5. /\ ~rest.saving /\ rest.debounce = e.debounce /\ rest.retry = e.retry
        /\ rest.status = e.status /\ rest.inFlight = e.inFlight /\ rest.pending = e.pending
    BY DEF Engine
  <2>6. Clocked(rest)
    <3>1. Queue(rest) = Queue(e)
      BY <2>5 DEF Queue
    <3> QED BY <3>1, <2>5, <1>3 DEF Clocked, Settled
  <2>7. Awaits'
    <3>1. \A d \in others : d.live => d.tab \in Tabs /\ engine'[d.tab].saving
      BY <2>3 DEF Awaits, Call
    <3>2. \A c, d \in others : c.live /\ d.live /\ c.tab = d.tab => c = d
      BY DEF Awaits
    <3>3. \A u \in Tabs : u \notin open' => ~engine'[u].saving
      BY <2>3 DEF Awaits
    <3> QED BY <3>1, <3>2, <3>3, <2>1 DEF Awaits
  <2>8. Clocks'
    BY <2>3, <2>6 DEF Clocks
  <2> QED BY <2>1, <2>4, <2>7, <2>8
<1> QED BY <1>2, <1>3

\* The calls left when one answer is taken.
LEMMA OthersWithout ==
  ASSUME Typed, Awaits, NEW t \in Tabs, NEW c \in calls, c.tab = t, c.live
  PROVE  /\ calls \ {c} \subseteq Call
         /\ \A d \in calls \ {c} : d.live => d.tab # t
         /\ \A d \in calls \ {c} : d.live => d \in calls
         /\ engine[t].saving /\ t \in open /\ c \in Call /\ engine[t] \in Engine
  BY DEF Typed, TypeOK, Awaits

\* The calls left when a tab gives up on its own.
LEMMA OthersAbandoned ==
  ASSUME Typed, NEW t \in Tabs, NEW served \in {{}, GivenUp(t)}
  PROVE  /\ NotOf(t) \cup served \subseteq Call
         /\ \A d \in NotOf(t) \cup served : d.live => d.tab # t
         /\ \A d \in NotOf(t) \cup served : d.live => d \in calls
<1>1. calls \subseteq Call
  BY DEF Typed, TypeOK
<1>2. \A d \in GivenUp(t) : d \in Call /\ ~d.live
  BY <1>1 DEF GivenUp, Call
<1>3. \A d \in NotOf(t) : d \in calls /\ (d.live => d.tab # t)
  BY DEF NotOf
<1> QED BY <1>1, <1>2, <1>3

\* Every answer leaves the engine with a clock, or with nothing to send.
LEMMA AnswersSettle ==
  ASSUME NEW e \in Engine, NEW c \in Call, Clocked(e), e.saving
  PROVE  /\ Settled(Acknowledged(e, c)) /\ Settled(Rebased(e, c))
         /\ Settled(Asking(e, c)) /\ Settled(Dropped(e)) /\ Settled(Offline(e))
<1>1. /\ Acknowledged(e, c) \in Engine /\ Rebased(e, c) \in Engine
      /\ Asking(e, c) \in Engine /\ Dropped(e) \in Engine /\ Offline(e) \in Engine
  BY AnswersTyped
<1>2. Settled(Acknowledged(e, c))
  <2> DEFINE a == Acknowledged(e, c)
  <2>1. a.inFlight = NoEdits /\ a.pending = e.pending
    BY DEF Acknowledged, Engine
  <2>2. a.pending # NoEdits => a.debounce
    BY DEF Acknowledged, Engine
  <2>3. Queue(a) = a.pending
    BY <1>1, <2>1, QueueIsPending
  <2> QED BY <2>2, <2>3 DEF Settled
<1>3. Settled(Rebased(e, c))
  BY DEF Settled, Rebased, Engine
<1>4. Settled(Asking(e, c))
  BY DEF Settled, Asking, Engine
<1>5. Settled(Dropped(e))
  <2> DEFINE d == Dropped(e)
  <2>1. /\ d.inFlight = NoEdits /\ d.pending = e.pending
        /\ d.debounce = e.debounce /\ d.waiting = e.waiting
    BY DEF Dropped, Engine
  <2>2. Queue(d) = d.pending
    BY <1>1, <2>1, QueueIsPending
  <2> QED BY <2>1, <2>2 DEF Settled, Clocked
<1>6. Settled(Offline(e))
  BY DEF Settled, Offline, Engine
<1> QED BY <1>2, <1>3, <1>4, <1>5, <1>6

\* The server answers a call or moves it on, and writes documents only.
LEMMA ServeKeeps ==
  ASSUME Typed, Awaits, NEW c \in calls, Serve(c), UNCHANGED <<engine, open>>
  PROVE  /\ drafts' \in Seq(Document) /\ drafts' # <<>>
         /\ calls' \subseteq Call /\ Awaits'
<1>1. /\ drafts \in Seq(Document) /\ drafts # <<>> /\ calls \subseteq Call /\ c \in Call
      /\ Version \in Nat /\ Version \in DOMAIN drafts
  BY DEF Typed, TypeOK, Version
<1>2. Current \in Document
  BY <1>1 DEF Current
<1>3. ASSUME NEW a \in Answer, Reply(c, a)
      PROVE  /\ calls' \subseteq Call
             /\ \A d \in calls' : d \in calls \ {c} \/ (d.tab = c.tab /\ c.live)
             /\ \A d, f \in calls' : d \notin calls \ {c} /\ f \notin calls \ {c} => d = f
  BY <1>1, <1>3 DEF Reply, Call
<1>4. ASSUME NEW d \in Call, d.tab = c.tab, d.live = c.live, Step(c, d)
      PROVE  /\ calls' \subseteq Call
             /\ \A f \in calls' : f \in calls \ {c} \/ (f.tab = c.tab /\ f.live = c.live)
             /\ \A f, g \in calls' : f \notin calls \ {c} /\ g \notin calls \ {c} => f = g
  BY <1>1, <1>4 DEF Step
<1>5. /\ Rejected \in Answer /\ Saved(c.baseVersion + 1) \in Answer
      /\ Conflict(Version, Current) \in Answer /\ Conflict(c.existing, Current) \in Answer
  BY <1>1, <1>2, Blanks DEF Rejected, Saved, Conflict, Answer, Call
<1>6. /\ [c EXCEPT !.at = "matched"] \in Call
      /\ [c EXCEPT !.at = "writing", !.existing = Version] \in Call
      /\ [c EXCEPT !.at = "raced"] \in Call
  BY <1>1 DEF Call
<1>7. /\ calls' \subseteq Call
      /\ \A d \in calls' : d \in calls \ {c} \/ (d.tab = c.tab /\ (d.live => c.live))
      /\ \A d, f \in calls' : d \notin calls \ {c} /\ f \notin calls \ {c} => d = f
  <2>1. CASE Refuse(c)
    BY <2>1, <1>3, <1>5 DEF Refuse
  <2>2. CASE FindStale(c)
    BY <2>2, <1>3, <1>5 DEF FindStale
  <2>3. CASE FindMatching(c)
    BY <2>3, <1>1, <1>4, <1>6 DEF FindMatching, Call
  <2>4. CASE ReadExisting(c)
    BY <2>4, <1>1, <1>4, <1>6 DEF ReadExisting, Call
  <2>5. CASE Write(c)
    BY <2>5, <1>3, <1>5 DEF Write
  <2>6. CASE LoseRace(c)
    BY <2>6, <1>1, <1>4, <1>6 DEF LoseRace, Call
  <2>7. CASE ReadFresh(c)
    BY <2>7, <1>3, <1>5 DEF ReadFresh
  <2> QED BY <2>1, <2>2, <2>3, <2>4, <2>5, <2>6, <2>7 DEF Serve
<1>8. drafts' \in Seq(Document) /\ drafts' # <<>>
  <2>1. CASE Write(c)
    <3>1. c.baseVersion = Version /\ c.patch \in Patch
      BY <2>1, <1>1 DEF Write, Predicate, Call
    <3>2. Apply(drafts[c.baseVersion], c.patch) \in Document
      BY <3>1, <1>2, ApplyTyped DEF Current
    <3> QED BY <2>1, <3>2, <1>1 DEF Write
  <2>2. CASE ~Write(c)
    BY <2>2, <1>1 DEF Serve, Refuse, FindStale, FindMatching, ReadExisting, LoseRace, ReadFresh
  <2> QED BY <2>1, <2>2
<1>9. Awaits'
  <2>1. \A d, f \in calls' : d.live /\ f.live /\ d.tab = f.tab => d = f
    BY <1>7 DEF Awaits
  <2>2. \A d \in calls' : d.live => engine'[d.tab].saving
    BY <1>7 DEF Awaits
  <2> QED BY <2>1, <2>2 DEF Awaits
<1> QED BY <1>7, <1>8, <1>9

(* ---------------------------- the inductive step ----------------------- *)

IInv == Typed /\ Awaits /\ Clocks

\* The typing of what a tab's step leaves besides the engines and the calls.
LEMMA TypedFrom ==
  ASSUME Typed, UNCHANGED drafts, engine' \in [Tabs -> Engine], calls' \subseteq Call,
         open' \subseteq Tabs, local' \in [Tabs -> LocalDraft \cup {NoDraft}],
         UNCHANGED <<found, restore>>,
         used' \in [edits : 0..MaxEdits, faults : 0..MaxFaults, flushes : 0..MaxFlushes]
  PROVE  Typed'
  BY DEF Typed, TypeOK

LEMMA UsedTyped ==
  ASSUME Typed
  PROVE  /\ used.edits < MaxEdits =>
              [used EXCEPT !.edits = @ + 1]
                \in [edits : 0..MaxEdits, faults : 0..MaxFaults, flushes : 0..MaxFlushes]
         /\ used.faults < MaxFaults =>
              [used EXCEPT !.faults = @ + 1]
                \in [edits : 0..MaxEdits, faults : 0..MaxFaults, flushes : 0..MaxFlushes]
         /\ used.flushes < MaxFlushes =>
              [used EXCEPT !.flushes = @ + 1]
                \in [edits : 0..MaxEdits, faults : 0..MaxFaults, flushes : 0..MaxFlushes]
  BY AutosaveAssumption DEF Typed, TypeOK

LEMMA InitHolds == ASSUME Init PROVE IInv
<1>1. drafts \in Seq(Document) /\ drafts # <<>>
  BY Blanks DEF Init, DraftInit
<1>2. Loaded(Blank, 1) \in Engine
  BY Blanks, LoadedTyped
<1>3. Typed
  BY <1>1, <1>2, AutosaveAssumption DEF Init, DraftInit, Typed, TypeOK
<1>4. Awaits
  BY DEF Init, DraftInit, Awaits, Loaded
<1>5. Clocks
  <2>1. Loaded(Blank, 1).pending = NoEdits /\ Loaded(Blank, 1).inFlight = NoEdits
        /\ ~Loaded(Blank, 1).saving
    BY DEF Loaded
  <2>2. Queue(Loaded(Blank, 1)) = NoEdits
    BY <1>2, <2>1, QueueIsPending
  <2> QED BY <2>1, <2>2 DEF Init, Clocks, Clocked
<1> QED BY <1>3, <1>4, <1>5 DEF IInv

\* A flush sends, waits, or finds nothing to do.
LEMMA FlushKeeps ==
  ASSUME IInv, NEW t \in Tabs, Flush(t), used' \in
           [edits : 0..MaxEdits, faults : 0..MaxFaults, flushes : 0..MaxFlushes]
  PROVE  IInv'
<1> USE DEF IInv
<1> DEFINE e == [engine[t] EXCEPT !.debounce = FALSE, !.retry = FALSE]
<1>1. /\ e \in Engine /\ e.saving = engine[t].saving /\ e.pending = engine[t].pending
      /\ e.inFlight = engine[t].inFlight /\ e.waiting = engine[t].waiting
  <2>1. engine[t] \in Engine
    BY DEF Typed, TypeOK
  <2> HIDE DEF IInv
  <2> QED BY <2>1 DEF Engine
<1>2. UNCHANGED <<drafts, local, open, found, restore>> /\ t \in open
  BY DEF Flush, page
<1>3. local' \in [Tabs -> LocalDraft \cup {NoDraft}] /\ open' \subseteq Tabs
      /\ calls \subseteq Call
  BY <1>2 DEF Typed, TypeOK
<1>4. /\ engine' \in [Tabs -> Engine] /\ calls' \subseteq Call /\ Awaits' /\ Clocks'
  <2>1. CASE e.saving /\ engine' = [engine EXCEPT ![t] = Awaiting(e)] /\ UNCHANGED calls
    <3>1. Awaiting(e) \in Engine
      BY <1>1, AwaitingTyped
    <3>2. Awaiting(e).saving /\ Awaiting(e).waiting # <<>>
      <4>1. e.waiting \in Seq(SUBSET Paths) /\ Touched(Queue(e)) \in SUBSET Paths
        BY <1>1 DEF Engine, Touched
      <4>2. Awaiting(e).waiting = Append(e.waiting, Touched(Queue(e)))
        BY <1>1 DEF Awaiting, Engine
      <4>3. Append(e.waiting, Touched(Queue(e))) # <<>>
        BY <4>1
      <4>4. Awaiting(e).saving = e.saving
        BY <1>1 DEF Awaiting, Engine
      <4> QED BY <4>2, <4>3, <4>4, <2>1
    <3>3. Clocked(Awaiting(e))
      BY <3>2 DEF Clocked
    <3>4. Awaiting(e).saving = engine[t].saving
      BY <3>2, <2>1, <1>1
    <3> QED BY <3>1, <3>3, <3>4, <2>1, <1>2, <1>3, EngineKeeps
  <2>2. CASE ~e.saving /\ Queue(e) = NoEdits /\ engine' = [engine EXCEPT ![t] = e]
             /\ UNCHANGED calls
    <3>1. Clocked(e)
      BY <2>2 DEF Clocked
    <3> QED BY <3>1, <2>2, <1>1, <1>2, <1>3, EngineKeeps
  <2>3. CASE ~e.saving /\ Send(t, e, calls)
    <3>1. \A d \in calls : d.live => d.tab # t
      BY <2>3, <1>1 DEF Awaits
    <3> QED BY <3>1, <2>3, <1>1, <1>2, <1>3, SendKeeps
  <2> QED BY <2>1, <2>2, <2>3 DEF Flush
<1> QED BY <1>2, <1>3, <1>4, TypedFrom

\* Taking an answer, or giving up on it.
LEMMA TakeKeeps ==
  ASSUME IInv, NEW t \in Tabs, NEW e \in Engine, NEW others, t \in open, Settled(e),
         others \subseteq Call,
         \A d \in others : d.live => d.tab # t,
         \A d \in others : d.live => d \in calls,
         Resume(t, e, others),
         UNCHANGED <<drafts, page>>,
         \/ UNCHANGED local
         \/ local' = [local EXCEPT ![t] = Persisted(e)],
         used' \in [edits : 0..MaxEdits, faults : 0..MaxFaults, flushes : 0..MaxFlushes]
  PROVE  IInv'
<1>1. open' = open /\ UNCHANGED <<found, restore>>
  BY DEF page
<1>2. /\ engine' \in [Tabs -> Engine] /\ calls' \subseteq Call /\ Awaits' /\ Clocks'
  BY <1>1, ResumeKeeps DEF IInv
<1>3. local' \in [Tabs -> LocalDraft \cup {NoDraft}]
  BY PersistedTyped DEF IInv, Typed, TypeOK
<1>4. open' \subseteq Tabs
  BY <1>1 DEF IInv, Typed, TypeOK
<1> QED BY <1>1, <1>2, <1>3, <1>4, TypedFrom DEF IInv

\* Opening, restoring and closing: the tab's engine is made anew, and what it awaited is not.
LEMMA PageKeeps ==
  ASSUME IInv, NEW t \in Tabs,
         Load(t) \/ Restore(t) \/ DeclineRestore(t) \/ Close(t)
  PROVE  IInv'
<1> USE DEF IInv
<1>1. /\ engine \in [Tabs -> Engine] /\ calls \subseteq Call
      /\ drafts \in Seq(Document) /\ drafts # <<>> /\ open \subseteq Tabs
      /\ local \in [Tabs -> LocalDraft \cup {NoDraft}]
      /\ found \in [Tabs -> LocalDraft \cup {NoDraft}]
      /\ restore \in [Tabs -> {"none", "use-local", "ask", "restored", "declined"}]
      /\ Version \in Nat /\ Current \in Document
  BY DEF Typed, TypeOK, Version, Current
<1>2. ASSUME NEW d \in Document, NEW v \in Nat
      PROVE  /\ Loaded(d, v) \in Engine /\ Clocked(Loaded(d, v)) /\ ~Loaded(d, v).saving
  <2>1. Loaded(d, v) \in Engine
    BY LoadedTyped
  <2>2. Loaded(d, v).inFlight = NoEdits /\ Loaded(d, v).pending = NoEdits
        /\ ~Loaded(d, v).saving
    BY DEF Loaded
  <2>3. Queue(Loaded(d, v)) = NoEdits
    BY <2>1, <2>2, QueueIsPending
  <2> QED BY <2>1, <2>2, <2>3 DEF Clocked
<1>3. CASE Load(t)
  <2> DEFINE e == Loaded(Current, Version)
  <2>1. e \in Engine /\ Clocked(e) /\ ~e.saving
    BY <1>1, <1>2
  <2>2. engine' = [engine EXCEPT ![t] = e] /\ UNCHANGED <<drafts, calls, local, used>>
        /\ open' = open \cup {t} /\ t \notin open
    BY <1>3 DEF Load
  <2>3. DecideRestore(local[t], Version) \in {"none", "ask", "use-local"}
        /\ (DecideRestore(local[t], Version) # "none" => local[t] \in LocalDraft)
    BY <1>1 DEF DecideRestore
  <2>4. /\ restore' = [restore EXCEPT ![t] = DecideRestore(local[t], Version)]
        /\ found' = [found EXCEPT ![t] = IF restore'[t] = "none" THEN NoDraft ELSE local[t]]
    BY <1>3 DEF Load
  <2>5. /\ restore' \in [Tabs -> {"none", "use-local", "ask", "restored", "declined"}]
        /\ found' \in [Tabs -> LocalDraft \cup {NoDraft}]
        /\ \A u \in Tabs : restore'[u] \in {"use-local", "ask"} => found'[u] \in LocalDraft
    BY <2>3, <2>4, <1>1 DEF Typed
  <2>6. Typed'
    BY <2>1, <2>2, <2>5, <1>1 DEF Typed, TypeOK
  <2>7. Awaits' /\ Clocks'
    <3>1. ~engine[t].saving
      BY <2>2 DEF Awaits
    <3>2. engine'[t] = e /\ \A u \in Tabs : u # t => engine'[u] = engine[u]
      BY <2>2, <1>1
    <3>3. \A u \in Tabs : engine'[u].saving = engine[u].saving
      BY <2>1, <3>1, <3>2, <1>1 DEF Engine
    <3>4. \A c \in calls : c.tab \in Tabs
      BY <1>1 DEF Call
    <3> QED BY <2>1, <2>2, <3>2, <3>3, <3>4 DEF Awaits, Clocks
  <2> QED BY <2>6, <2>7
<1>4. CASE Restore(t)
  <2> DEFINE e == Restored(engine[t], found[t])
  <2>1. found[t] \in LocalDraft /\ engine[t] \in Engine
    BY <1>1, <1>4 DEF Restore, Typed
  <2>2. e \in Engine /\ e.debounce /\ e.saving = engine[t].saving
    BY <2>1 DEF Restored, LocalDraft, Engine
  <2>3. Clocked(e)
    BY <2>2 DEF Clocked
  <2>4. engine' = [engine EXCEPT ![t] = e] /\ UNCHANGED <<drafts, calls, open, local, used>>
    BY <1>4 DEF Restore
  <2>5. engine' \in [Tabs -> Engine] /\ Awaits' /\ Clocks'
    BY <2>2, <2>3, <2>4, EngineKeeps
  <2>6. /\ restore' \in [Tabs -> {"none", "use-local", "ask", "restored", "declined"}]
        /\ found' \in [Tabs -> LocalDraft \cup {NoDraft}]
        /\ \A u \in Tabs : restore'[u] \in {"use-local", "ask"} => found'[u] \in LocalDraft
    BY <1>1, <1>4 DEF Restore, Typed
  <2> QED BY <2>4, <2>5, <2>6, <1>1 DEF Typed, TypeOK
<1>5. CASE DeclineRestore(t)
  <2>1. /\ UNCHANGED <<drafts, calls, open, engine, used>>
        /\ local' \in [Tabs -> LocalDraft \cup {NoDraft}]
        /\ restore' \in [Tabs -> {"none", "use-local", "ask", "restored", "declined"}]
        /\ found' \in [Tabs -> LocalDraft \cup {NoDraft}]
        /\ \A u \in Tabs : restore'[u] \in {"use-local", "ask"} => found'[u] \in LocalDraft
    BY <1>1, <1>5 DEF DeclineRestore, Typed
  <2> QED BY <2>1, <1>1 DEF Typed, TypeOK, Awaits, Clocks
<1>6. CASE Close(t)
  <2> DEFINE e == Loaded(Blank, 1)
  <2>1. e \in Engine /\ Clocked(e) /\ ~e.saving
    BY <1>2, Blanks
  <2>2. PICK served \in {{}, GivenUp(t)} : calls' = NotOf(t) \cup served
    BY <1>6 DEF Close
  <2>3. /\ engine' = [engine EXCEPT ![t] = e] /\ UNCHANGED <<drafts, local>>
        /\ open' = open \ {t}
    BY <1>6 DEF Close
  <2>4. /\ calls' \subseteq Call
        /\ \A d \in calls' : d.live => d.tab # t /\ d \in calls
    BY <2>2, OthersAbandoned
  <2>5. engine'[t] = e /\ \A u \in Tabs : u # t => engine'[u] = engine[u]
    BY <2>3, <1>1
  <2>6. /\ restore' \in [Tabs -> {"none", "use-local", "ask", "restored", "declined"}]
        /\ found' \in [Tabs -> LocalDraft \cup {NoDraft}]
        /\ \A u \in Tabs : restore'[u] \in {"use-local", "ask"} => found'[u] \in LocalDraft
    BY <1>1, <1>6 DEF Close, Typed
  <2>7. used' \in [edits : 0..MaxEdits, faults : 0..MaxFaults, flushes : 0..MaxFlushes]
    BY <1>6, UsedTyped DEF Close
  <2>8. Typed'
    BY <2>1, <2>3, <2>4, <2>6, <2>7, <1>1 DEF Typed, TypeOK
  <2>9. Awaits'
    <3>1. \A d \in calls' : d.live => engine'[d.tab].saving
      BY <2>4, <2>5 DEF Awaits, Call
    <3>2. \A c, d \in calls' : c.live /\ d.live /\ c.tab = d.tab => c = d
      BY <2>4 DEF Awaits
    <3>3. \A u \in Tabs : u \notin open' => ~engine'[u].saving
      BY <2>1, <2>3, <2>5 DEF Awaits
    <3> QED BY <3>1, <3>2, <3>3 DEF Awaits
  <2>10. Clocks'
    BY <2>1, <2>5 DEF Clocks
  <2> QED BY <2>8, <2>9, <2>10
<1> QED BY <1>3, <1>4, <1>5, <1>6

\* Editing, and choosing a side of a conflict: a new engine, and the draft that goes with it.
LEMMA ChangeKeeps ==
  ASSUME IInv, NEW t \in Tabs, NEW e \in Engine, Clocked(e), e.saving = engine[t].saving,
         engine' = [engine EXCEPT ![t] = e],
         local' = [local EXCEPT ![t] = Persisted(e)],
         UNCHANGED <<drafts, calls, page>>,
         used' \in [edits : 0..MaxEdits, faults : 0..MaxFaults, flushes : 0..MaxFlushes]
  PROVE  IInv'
<1>1. open' = open /\ UNCHANGED <<found, restore>>
  BY DEF page
<1>2. engine' \in [Tabs -> Engine] /\ Awaits' /\ Clocks'
  BY <1>1, EngineKeeps DEF IInv
<1>3. local' \in [Tabs -> LocalDraft \cup {NoDraft}]
  BY PersistedTyped DEF IInv, Typed, TypeOK
<1>4. open' \subseteq Tabs /\ calls' \subseteq Call
  BY <1>1 DEF IInv, Typed, TypeOK
<1> QED BY <1>1, <1>2, <1>3, <1>4, TypedFrom DEF IInv

LEMMA EditKeeps ==
  ASSUME IInv, NEW t \in Tabs, NEW p \in Paths, NEW v \in Values, Edit(t, p, v)
  PROVE  IInv'
<1> DEFINE e == [engine[t] EXCEPT !.document = [@ EXCEPT ![p] = v],
                                  !.pending = [@ EXCEPT ![p] = v],
                                  !.status = "pending", !.debounce = TRUE]
<1>1. engine \in [Tabs -> Engine] /\ engine[t] \in Engine
  BY DEF IInv, Typed, TypeOK
<1>2. /\ [engine[t].document EXCEPT ![p] = v] \in Document
      /\ [engine[t].pending EXCEPT ![p] = v] \in Patch
  BY <1>1 DEF Engine, Document, Patch
<1>3. e \in Engine /\ e.debounce /\ e.saving = engine[t].saving
  BY <1>1, <1>2 DEF Engine
<1>4. engine' = [engine EXCEPT ![t] = e]
  BY <1>1 DEF Edit
<1>5. engine'[t] = e
  BY <1>1, <1>4
<1>6. local' = [local EXCEPT ![t] = Persisted(e)]
  BY <1>5 DEF Edit
<1>7. Clocked(e)
  BY <1>3 DEF Clocked
<1>8. used' \in [edits : 0..MaxEdits, faults : 0..MaxFaults, flushes : 0..MaxFlushes]
  BY UsedTyped DEF Edit, IInv
<1>9. UNCHANGED <<drafts, calls, page>>
  BY DEF Edit
<1> QED BY <1>3, <1>4, <1>6, <1>7, <1>8, <1>9, ChangeKeeps

\* Only a tab that is not saving shows a conflict: what is chosen is sent by the debounce.
LEMMA ResolveKeeps ==
  ASSUME IInv, NEW t \in Tabs, NEW chosen \in Patch, Resolve(t, chosen)
  PROVE  IInv'
<1> DEFINE side == [engine[t] EXCEPT !.server = NoConflict, !.version = engine[t].server.version,
                      !.base = engine[t].server.document, !.inFlight = NoEdits,
                      !.document = Apply(engine[t].server.document, chosen),
                      !.pending = chosen]
           e == IF chosen = NoEdits THEN [side EXCEPT !.status = "clean"]
                ELSE [side EXCEPT !.status = "pending", !.debounce = TRUE]
<1>1. engine \in [Tabs -> Engine] /\ engine[t] \in Engine
  BY DEF IInv, Typed, TypeOK
<1>2. engine[t].server.document \in Document /\ engine[t].server.version \in Nat
  BY <1>1 DEF Engine
<1>3. Apply(engine[t].server.document, chosen) \in Document
  BY <1>2, ApplyTyped
<1>4. NoConflict \in [version : Nat, document : Document]
  BY Blanks DEF NoConflict
<1>5. side \in Engine
  BY <1>1, <1>2, <1>3, <1>4, Blanks DEF Engine
<1>6. /\ side.saving = engine[t].saving /\ side.inFlight = NoEdits /\ side.pending = chosen
  BY <1>1 DEF Engine
<1>7. e \in Engine
  BY <1>5 DEF Engine
<1>8. /\ e.saving = engine[t].saving /\ e.inFlight = NoEdits /\ e.pending = chosen
      /\ (chosen # NoEdits => e.debounce)
  BY <1>5, <1>6 DEF Engine
<1>9. Clocked(e)
  <2>1. Queue(e) = chosen
    BY <1>7, <1>8, QueueIsPending
  <2> QED BY <2>1, <1>8 DEF Clocked
<1>10. engine' = [engine EXCEPT ![t] = e]
  BY DEF Resolve
<1>11. engine'[t] = e
  BY <1>1, <1>10
<1>12. local' = [local EXCEPT ![t] = Persisted(e)]
  BY <1>11 DEF Resolve
<1>13. UNCHANGED <<drafts, calls, page>>
  BY DEF Resolve
<1>14. used' \in [edits : 0..MaxEdits, faults : 0..MaxFaults, flushes : 0..MaxFlushes]
  BY DEF Resolve, IInv, Typed, TypeOK
<1> HIDE DEF e
<1> QED BY <1>7, <1>8, <1>9, <1>10, <1>12, <1>13, <1>14, ChangeKeeps

LEMMA AnswerKeeps ==
  ASSUME IInv, NEW t \in Tabs, Answered(t) \/ LoseConnection(t)
  PROVE  IInv'
<1>1. engine[t] \in Engine /\ Clocked(engine[t]) /\ Typed /\ Awaits
      /\ used \in [edits : 0..MaxEdits, faults : 0..MaxFaults, flushes : 0..MaxFlushes]
  BY DEF IInv, Typed, TypeOK, Clocks
<1>2. ASSUME NEW kind, NEW c \in Awaited(t, kind)
      PROVE  /\ calls \ {c} \subseteq Call
             /\ \A d \in calls \ {c} : d.live => d.tab # t
             /\ \A d \in calls \ {c} : d.live => d \in calls
             /\ engine[t].saving /\ t \in open /\ c \in Call
  <2>1. c \in calls /\ c.tab = t /\ c.live
    BY <1>2 DEF Awaited
  <2> QED BY <2>1, <1>1, OthersWithout
<1>3. CASE TakeSaved(t)
  <2>1. PICK c \in Awaited(t, "saved") :
          /\ Resume(t, Acknowledged(engine[t], c), calls \ {c})
          /\ local' = [local EXCEPT ![t] = Persisted(Acknowledged(engine[t], c))]
          /\ UNCHANGED <<drafts, page, used>>
    BY <1>3 DEF TakeSaved
  <2>2. Acknowledged(engine[t], c) \in Engine /\ Settled(Acknowledged(engine[t], c))
    BY <1>1, <1>2, AnswersTyped, AnswersSettle
  <2> QED BY <2>1, <2>2, <1>1, <1>2, TakeKeeps
<1>4. CASE TakeDisjoint(t)
  <2>1. PICK c \in Awaited(t, "conflict") :
          /\ Resume(t, Rebased(engine[t], c), calls \ {c})
          /\ local' = [local EXCEPT ![t] = Persisted(Rebased(engine[t], c))]
          /\ UNCHANGED <<drafts, page, used>>
    BY <1>4 DEF TakeDisjoint
  <2>2. Rebased(engine[t], c) \in Engine /\ Settled(Rebased(engine[t], c))
    BY <1>1, <1>2, AnswersTyped, AnswersSettle
  <2> QED BY <2>1, <2>2, <1>1, <1>2, TakeKeeps
<1>5. CASE TakeContended(t)
  <2>1. PICK c \in Awaited(t, "conflict") :
          /\ Resume(t, Asking(engine[t], c), calls \ {c})
          /\ UNCHANGED <<drafts, local, page, used>>
    BY <1>5 DEF TakeContended
  <2>2. Asking(engine[t], c) \in Engine /\ Settled(Asking(engine[t], c))
    BY <1>1, <1>2, AnswersTyped, AnswersSettle
  <2> QED BY <2>1, <2>2, <1>1, <1>2, TakeKeeps
<1>6. CASE TakeRejected(t)
  <2>1. PICK c \in Awaited(t, "rejected") :
          /\ Resume(t, Dropped(engine[t]), calls \ {c})
          /\ UNCHANGED <<drafts, local, page, used>>
    BY <1>6 DEF TakeRejected
  <2>2. Dropped(engine[t]) \in Engine /\ Settled(Dropped(engine[t]))
    BY <1>1, <1>2, AnswersTyped, AnswersSettle
  <2> QED BY <2>1, <2>2, <1>1, <1>2, TakeKeeps
<1>7. CASE LoseConnection(t)
  <2>1. PICK served \in {{}, GivenUp(t)} :
          Resume(t, Offline(engine[t]), NotOf(t) \cup served)
    BY <1>7 DEF LoseConnection
  <2>2. Offline(engine[t]) \in Engine /\ Settled(Offline(engine[t]))
    <3>1. Offline(engine[t]) \in Engine
      BY <1>1 DEF Offline, Engine
    <3> QED BY <3>1, <1>1 DEF Settled, Offline, Engine
  <2>3. t \in open
    BY <1>1, <1>7 DEF LoseConnection, Awaits
  <2>4. UNCHANGED <<drafts, local, page>>
    BY <1>7 DEF LoseConnection
  <2>5. used' \in [edits : 0..MaxEdits, faults : 0..MaxFaults, flushes : 0..MaxFlushes]
    BY <1>1, <1>7, UsedTyped DEF LoseConnection
  <2> QED BY <2>1, <2>2, <2>3, <2>4, <2>5, <1>1, OthersAbandoned, TakeKeeps
<1> QED BY <1>3, <1>4, <1>5, <1>6, <1>7 DEF Answered

LEMMA StepHolds == ASSUME IInv, [Next]_vars PROVE IInv'
<1>1. ASSUME NEW c \in calls, Serve(c), UNCHANGED <<engine, local, page, used>>
      PROVE  IInv'
  <2>1. UNCHANGED <<engine, open, found, restore>>
    BY <1>1 DEF page
  <2>2. /\ drafts' \in Seq(Document) /\ drafts' # <<>> /\ calls' \subseteq Call /\ Awaits'
    BY <1>1, <2>1, ServeKeeps DEF IInv
  <2>3. Typed'
    BY <1>1, <2>1, <2>2 DEF IInv, Typed, TypeOK
  <2>4. Clocks'
    BY <2>1 DEF IInv, Clocks
  <2> QED BY <2>2, <2>3, <2>4 DEF IInv
<1>2. ASSUME NEW t \in Tabs, DebounceFires(t) \/ RetryFires(t) \/ FlushNow(t)
      PROVE  IInv'
  <2>1. Flush(t)
    BY <1>2 DEF DebounceFires, RetryFires, FlushNow
  <2>2. used' \in [edits : 0..MaxEdits, faults : 0..MaxFaults, flushes : 0..MaxFlushes]
    BY <1>2, UsedTyped DEF DebounceFires, RetryFires, FlushNow, IInv, Typed, TypeOK
  <2> QED BY <2>1, <2>2, FlushKeeps
<1>3. ASSUME NEW t \in Tabs, KeepMine(t) \/ TakeTheirs(t)
      PROVE  IInv'
  <2>1. Queue(engine[t]) \in Patch
    BY QueueTyped DEF IInv, Typed, TypeOK
  <2> QED BY <2>1, <1>3, Blanks, ResolveKeeps DEF KeepMine, TakeTheirs
<1>4. CASE UNCHANGED vars
  BY <1>4 DEF IInv, Typed, TypeOK, Awaits, Clocks, vars
<1>5. CASE ServeOne
  BY <1>1, <1>5 DEF ServeOne
<1>6. ASSUME NEW t \in Tabs, Load(t) \/ Restore(t) \/ DeclineRestore(t) \/ Close(t)
      PROVE  IInv'
  BY <1>6, PageKeeps
<1>7. ASSUME NEW t \in Tabs, NEW p \in Paths, NEW v \in Values, Edit(t, p, v)
      PROVE  IInv'
  BY <1>7, EditKeeps
<1>8. ASSUME NEW t \in Tabs, Answered(t) \/ LoseConnection(t)
      PROVE  IInv'
  BY <1>8, AnswerKeeps
<1> QED BY <1>2, <1>3, <1>4, <1>5, <1>6, <1>7, <1>8 DEF Next, Answered

(* ------------------------------ the results ---------------------------- *)

\* The invariant holds of every reachable state.
LEMMA Inductive == Spec => []IInv
<1>1. Init => IInv
  BY InitHolds
<1>2. IInv /\ [Next]_vars => IInv'
  BY StepHolds
<1> QED BY <1>1, <1>2, PTL DEF Spec

\* Every variable keeps to its declared values, in the server and in every tab.
THEOREM AutosaveTyped == Spec => []TypeOK
<1>1. IInv => TypeOK
  BY DEF IInv, Typed
<1> QED BY <1>1, Inductive, PTL

\* No queued edit is stranded: a timer, a save in flight or the user's choice will move it.
THEOREM NothingIsStranded == Spec => []WorkHasAClock
<1>1. IInv => WorkHasAClock
  BY DEF IInv, Clocks, Clocked, WorkHasAClock, Typed, TypeOK
<1> QED BY <1>1, Inductive, PTL

\* A tab's own step writes no draft.
LEMMA OnlyWritesWrite == ASSUME [Next]_vars, drafts' # drafts PROVE \E c \in calls : Write(c)
<1>1. ASSUME NEW t \in Tabs, Flush(t) PROVE UNCHANGED drafts
  BY <1>1 DEF Flush
<1>2. ASSUME NEW t \in Tabs, Answered(t) \/ LoseConnection(t) PROVE UNCHANGED drafts
  BY <1>2 DEF Answered, TakeSaved, TakeDisjoint, TakeContended, TakeRejected, LoseConnection
<1>3. ASSUME NEW t \in Tabs, Load(t) \/ Restore(t) \/ DeclineRestore(t) \/ Close(t)
      PROVE  UNCHANGED drafts
  BY <1>3 DEF Load, Restore, DeclineRestore, Close
<1>4. ASSUME NEW t \in Tabs, KeepMine(t) \/ TakeTheirs(t) PROVE UNCHANGED drafts
  BY <1>4 DEF KeepMine, TakeTheirs, Resolve
<1>5. ASSUME NEW t \in Tabs, NEW p \in Paths, NEW v \in Values, Edit(t, p, v)
      PROVE  UNCHANGED drafts
  BY <1>5 DEF Edit
<1>6. ASSUME NEW c \in calls, Serve(c), ~Write(c) PROVE UNCHANGED drafts
  BY <1>6 DEF Serve, Refuse, FindStale, FindMatching, ReadExisting, LoseRace, ReadFresh
<1>7. ServeOne
  BY <1>1, <1>2, <1>3, <1>4, <1>5
     DEF Next, vars, Answered, DebounceFires, RetryFires, FlushNow
<1> QED BY <1>6, <1>7 DEF ServeOne

\* Two saves never both win: a landed save changes the fields it names and no other, whatever
\* ran between its reads and its write.
THEOREM SavesUndoNothing == Spec => NoSaveUndoesAnother
<1>1. ASSUME IInv, [Next]_vars, NEW p \in Paths, Current'[p] # Current[p]
      PROVE  \E c \in calls : c.at = "writing" /\ c.patch[p] = Current'[p]
  <2>1. drafts' # drafts
    BY <1>1 DEF Current, Version
  <2>2. PICK c \in calls : Write(c)
    BY <1>1, <2>1, OnlyWritesWrite
  <2>3. c.baseVersion = Version /\ c.at = "writing"
    BY <2>2 DEF Write, Predicate
  <2>4. drafts \in Seq(Document) /\ drafts # <<>>
    BY <1>1 DEF IInv, Typed, TypeOK
  <2>5. Current' = Apply(Current, c.patch)
    BY <2>2, <2>3, <2>4 DEF Write, Current, Version
  <2>6. c.patch[p] = Current'[p]
    BY <2>5, <1>1 DEF Apply
  <2> QED BY <2>3, <2>6
<1>2. IInv /\ [Next]_vars =>
        [\A p \in Paths : Current'[p] # Current[p] =>
           \E c \in calls : c.at = "writing" /\ c.patch[p] = Current'[p]]_vars
  BY <1>1
<1> QED BY <1>2, Inductive, PTL DEF Spec, NoSaveUndoesAnother


(* ---------------------- what the local draft holds --------------------- *)

\* Whoever reads the local draft finds in it all that is queued.
Covers(d, q) == q = NoEdits \/ (d # NoDraft /\ Apply(d.pending, q) = d.pending)

Kept(t) == t \in open /\ restore[t] = "none" => Covers(local[t], Queue(engine[t]))

Durable == \A t \in Tabs : Kept(t)

\* A draft written from the engine covers its queue.
LEMMA PersistedCovers ==
  ASSUME NEW e \in Engine
  PROVE  Covers(Persisted(e), Queue(e))
<1>1. Persisted(e) \in LocalDraft /\ Queue(e) \in Patch
  BY PersistedTyped, QueueTyped
<1>2. Persisted(e) # NoDraft /\ Persisted(e).pending = Queue(e)
  BY <1>1, NoDraftAssumption DEF Persisted
<1>3. Apply(Queue(e), Queue(e)) = Queue(e)
  BY <1>1 DEF Apply, Patch
<1> QED BY <1>2, <1>3 DEF Covers

\* A draft that covers a queue covers what is left of it when what is in flight is dropped.
LEMMA CoversTheRest ==
  ASSUME NEW e \in Engine, NEW d \in LocalDraft \cup {NoDraft}, Covers(d, Queue(e))
  PROVE  Covers(d, e.pending)
<1>1. e.pending \in Patch /\ e.inFlight \in Patch
  BY DEF Engine
<1>2. CASE Queue(e) = NoEdits
  <2>1. \A p \in Paths : e.pending[p] = Unset
    <3> SUFFICES ASSUME NEW p \in Paths PROVE e.pending[p] = Unset
      OBVIOUS
    <3>1. Queue(e)[p] = Unset
      BY <1>2 DEF NoEdits
    <3> QED BY <3>1 DEF Queue, Apply
  <2>2. e.pending = NoEdits
    BY <1>1, <2>1 DEF Patch, NoEdits
  <2> QED BY <2>2 DEF Covers
<1>3. CASE d # NoDraft /\ Apply(d.pending, Queue(e)) = d.pending
  <2>1. d.pending \in Patch
    BY <1>3 DEF LocalDraft
  <2>2. ASSUME NEW p \in Paths PROVE Apply(d.pending, e.pending)[p] = d.pending[p]
    <3>1. CASE e.pending[p] = Unset
      BY <3>1 DEF Apply
    <3>2. CASE e.pending[p] # Unset
      <4>1. Queue(e)[p] = e.pending[p]
        BY <3>2 DEF Queue, Apply
      <4>2. Apply(d.pending, Queue(e))[p] = Queue(e)[p]
        BY <3>2, <4>1 DEF Apply
      <4> QED BY <1>3, <3>2, <4>1, <4>2 DEF Apply
    <3> QED BY <3>1, <3>2
  <2>3. Apply(d.pending, e.pending) = d.pending
    BY <2>1, <2>2 DEF Apply, Patch
  <2> QED BY <1>3, <2>3 DEF Covers
<1> QED BY <1>2, <1>3 DEF Covers

\* What a save moves into flight is still queued.
LEMMA SendingQueue == ASSUME NEW e \in Engine PROVE Queue(Sending(e)) = Queue(e)
<1>1. Sending(e) \in Engine
  BY SendingTyped
<1>2. Sending(e).pending = NoEdits /\ Sending(e).inFlight = Queue(e)
  BY DEF Sending, Engine
<1> QED BY <1>1, <1>2, QueueIsInFlight

\* What a send makes of the engine it is given.
LEMMA SendShape ==
  ASSUME engine \in [Tabs -> Engine], NEW t \in Tabs, NEW e \in Engine, NEW others,
         Send(t, e, others)
  PROVE  /\ \A u \in Tabs : u # t => engine'[u] = engine[u]
         /\ engine'[t].base = e.base /\ engine'[t].version = e.version
         /\ engine'[t].status = "saving" /\ Queue(engine'[t]) = Queue(e)
         /\ calls' = others \cup {NewCall(t, Queue(e), e.version)}
<1>1. engine' = [engine EXCEPT ![t] = Sending(e)]
      /\ calls' = others \cup {NewCall(t, Queue(e), e.version)}
  BY DEF Send
<1>2. engine'[t] = Sending(e) /\ \A u \in Tabs : u # t => engine'[u] = engine[u]
  BY <1>1
<1>3. /\ Sending(e).base = e.base /\ Sending(e).version = e.version
      /\ Sending(e).status = "saving"
  BY DEF Sending, Engine
<1> QED BY <1>1, <1>2, <1>3, SendingQueue

\* And what the end of a save does.
LEMMA ResumeShape ==
  ASSUME engine \in [Tabs -> Engine], NEW t \in Tabs, NEW e \in Engine, NEW others,
         Resume(t, e, others)
  PROVE  /\ \A u \in Tabs : u # t => engine'[u] = engine[u]
         /\ engine'[t].base = e.base /\ engine'[t].version = e.version
         /\ Queue(engine'[t]) = Queue(e)
         /\ \/ /\ engine'[t].status = e.status /\ ~engine'[t].saving
               /\ engine'[t].server = e.server /\ calls' = others
            \/ /\ engine'[t].status = "saving"
               /\ calls' = others \cup {NewCall(t, Queue(e), e.version)}
<1> DEFINE rest == [e EXCEPT !.saving = FALSE, !.waiting = <<>>]
<1>1. rest \in Engine
  <2>1. <<>> \in Seq(SUBSET Paths)
    OBVIOUS
  <2> QED BY <2>1 DEF Engine
<1>2. /\ rest.base = e.base /\ rest.version = e.version /\ rest.status = e.status
      /\ rest.server = e.server /\ ~rest.saving /\ rest.inFlight = e.inFlight
      /\ rest.pending = e.pending
  BY DEF Engine
<1>3. Queue(rest) = Queue(e)
  BY <1>2 DEF Queue
<1>4. \/ /\ e.waiting # <<>> /\ Queue(e) # NoEdits
         /\ Send(t, rest, others)
      \/ engine' = [engine EXCEPT ![t] = rest] /\ calls' = others
  BY DEF Resume
<1> HIDE DEF rest
<1>5. CASE Send(t, rest, others)
  BY <1>1, <1>2, <1>3, <1>5, SendShape
<1>6. CASE engine' = [engine EXCEPT ![t] = rest] /\ calls' = others
  <2>1. engine'[t] = rest /\ \A u \in Tabs : u # t => engine'[u] = engine[u]
    BY <1>6
  <2> QED BY <1>2, <1>3, <1>6, <2>1
<1> QED BY <1>4, <1>5, <1>6

\* The answers, by what they leave queued and make of the base.
LEMMA AnswerShape ==
  ASSUME NEW e \in Engine, NEW c \in Call
  PROVE  /\ Queue(Asking(e, c)) = Queue(e) /\ Queue(Offline(e)) = Queue(e)
         /\ Queue(Dropped(e)) = e.pending
         /\ Acknowledged(e, c).base = Apply(e.base, c.patch)
         /\ Acknowledged(e, c).version = c.answer.version
         /\ Acknowledged(e, c).status \in {"clean", "pending"}
         /\ Rebased(e, c).base = c.answer.document
         /\ Rebased(e, c).version = c.answer.version /\ Rebased(e, c).status = "pending"
         /\ Asking(e, c).base = e.base /\ Asking(e, c).version = e.version
         /\ Asking(e, c).server = [version |-> c.answer.version, document |-> c.answer.document]
         /\ Dropped(e).base = e.base /\ Dropped(e).version = e.version
         /\ Dropped(e).status = "failed"
         /\ Offline(e).base = e.base /\ Offline(e).version = e.version
         /\ Offline(e).status = "offline"
<1>1. /\ Asking(e, c).inFlight = e.inFlight /\ Asking(e, c).pending = e.pending
      /\ Offline(e).inFlight = e.inFlight /\ Offline(e).pending = e.pending
      /\ Dropped(e).inFlight = NoEdits /\ Dropped(e).pending = e.pending
  BY DEF Asking, Offline, Dropped, Engine
<1>2. /\ Queue(Asking(e, c)) = Queue(e) /\ Queue(Offline(e)) = Queue(e)
      /\ Queue(Dropped(e)) = e.pending
  BY <1>1, AnswersTyped, QueueIsPending DEF Queue
<1>3. /\ Acknowledged(e, c).base = Apply(e.base, c.patch)
      /\ Acknowledged(e, c).version = c.answer.version
      /\ Acknowledged(e, c).status \in {"clean", "pending"}
  BY DEF Acknowledged, Engine
<1>4. /\ Rebased(e, c).base = c.answer.document
      /\ Rebased(e, c).version = c.answer.version /\ Rebased(e, c).status = "pending"
  BY DEF Rebased, Engine
<1>5. /\ Asking(e, c).base = e.base /\ Asking(e, c).version = e.version
      /\ Asking(e, c).server = [version |-> c.answer.version, document |-> c.answer.document]
  BY DEF Asking, Engine
<1>6. /\ Dropped(e).base = e.base /\ Dropped(e).version = e.version
      /\ Dropped(e).status = "failed"
      /\ Offline(e).base = e.base /\ Offline(e).version = e.version
      /\ Offline(e).status = "offline"
  BY DEF Dropped, Offline, Engine
<1> QED BY <1>2, <1>3, <1>4, <1>5, <1>6

\* A flush leaves the queue, the base and the version as they are, whatever it does.
LEMMA FlushShape ==
  ASSUME engine \in [Tabs -> Engine], NEW t \in Tabs, Flush(t)
  PROVE  /\ \A u \in Tabs : u # t => engine'[u] = engine[u]
         /\ engine'[t].base = engine[t].base /\ engine'[t].version = engine[t].version
         /\ Queue(engine'[t]) = Queue(engine[t])
         /\ \/ /\ engine'[t].status = engine[t].status /\ engine'[t].saving = engine[t].saving
               /\ engine'[t].server = engine[t].server /\ calls' = calls
            \/ /\ engine'[t].status = "saving" /\ ~engine[t].saving
               /\ calls' = calls \cup {NewCall(t, Queue(engine[t]), engine[t].version)}
<1> DEFINE e == [engine[t] EXCEPT !.debounce = FALSE, !.retry = FALSE]
<1>0. engine[t] \in Engine
  OBVIOUS
<1>1. /\ e \in Engine /\ e.saving = engine[t].saving /\ e.pending = engine[t].pending
      /\ e.inFlight = engine[t].inFlight /\ e.base = engine[t].base
      /\ e.version = engine[t].version /\ e.status = engine[t].status
      /\ e.server = engine[t].server
  BY <1>0 DEF Engine
<1>2. Queue(e) = Queue(engine[t])
  BY <1>1 DEF Queue
<1>3. \/ e.saving /\ engine' = [engine EXCEPT ![t] = Awaiting(e)] /\ UNCHANGED calls
      \/ engine' = [engine EXCEPT ![t] = e] /\ UNCHANGED calls
      \/ ~e.saving /\ Send(t, e, calls)
  BY DEF Flush
<1> HIDE DEF e
<1>4. CASE engine' = [engine EXCEPT ![t] = Awaiting(e)] /\ UNCHANGED calls
  <2>1. engine'[t] = Awaiting(e) /\ \A u \in Tabs : u # t => engine'[u] = engine[u]
    BY <1>4
  <2>2. /\ Awaiting(e).saving = e.saving /\ Awaiting(e).pending = e.pending
        /\ Awaiting(e).inFlight = e.inFlight /\ Awaiting(e).base = e.base
        /\ Awaiting(e).version = e.version /\ Awaiting(e).status = e.status
        /\ Awaiting(e).server = e.server
    BY <1>1 DEF Awaiting, Engine
  <2>3. Queue(Awaiting(e)) = Queue(e)
    BY <2>2 DEF Queue
  <2> QED BY <1>1, <1>2, <1>4, <2>1, <2>2, <2>3
<1>5. CASE engine' = [engine EXCEPT ![t] = e] /\ UNCHANGED calls
  <2>1. engine'[t] = e /\ \A u \in Tabs : u # t => engine'[u] = engine[u]
    BY <1>5
  <2> QED BY <1>1, <1>2, <1>5, <2>1
<1>6. CASE ~e.saving /\ Send(t, e, calls)
  BY <1>1, <1>2, <1>6, SendShape
<1> QED BY <1>3, <1>4, <1>5, <1>6

\* Every step keeps what is queued in the local draft.
LEMMA DurableStep == ASSUME IInv, Durable, [Next]_vars PROVE Durable'
<1>0. /\ engine \in [Tabs -> Engine] /\ local \in [Tabs -> LocalDraft \cup {NoDraft}]
      /\ restore \in [Tabs -> {"none", "use-local", "ask", "restored", "declined"}]
      /\ calls \subseteq Call /\ open \subseteq Tabs
      /\ found \in [Tabs -> LocalDraft \cup {NoDraft}]
  BY DEF IInv, Typed, TypeOK
<1>1. ASSUME NEW t \in Tabs, Kept(t)',
             \A u \in Tabs : u # t =>
               /\ engine'[u] = engine[u] /\ local'[u] = local[u] /\ restore'[u] = restore[u]
               /\ u \in open' => u \in open
      PROVE  Durable'
  <2> SUFFICES ASSUME NEW u \in Tabs PROVE Kept(u)'
    BY DEF Durable
  <2> QED BY <1>1 DEF Durable, Kept
<1>2. CASE ServeOne \/ UNCHANGED vars
  BY <1>2 DEF ServeOne, vars, page, Durable, Kept
<1>3. ASSUME NEW t \in Tabs, Load(t) PROVE Durable'
  <2>1. engine' = [engine EXCEPT ![t] = Loaded(Current, Version)] /\ UNCHANGED local
        /\ open' = open \cup {t}
    BY <1>3 DEF Load
  <2>2. Current \in Document /\ Version \in Nat
    BY DEF IInv, Typed, TypeOK, Current, Version
  <2>3. Queue(Loaded(Current, Version)) = NoEdits
    <3>1. Loaded(Current, Version) \in Engine /\ Loaded(Current, Version).inFlight = NoEdits
          /\ Loaded(Current, Version).pending = NoEdits
      BY <2>2, LoadedTyped DEF Loaded
    <3> QED BY <3>1, QueueIsPending
  <2>4. Queue(engine'[t]) = NoEdits
    BY <1>0, <2>1, <2>3
  <2>5. Kept(t)'
    BY <2>4 DEF Kept, Covers
  <2> QED BY <1>0, <1>1, <1>3, <2>1, <2>5 DEF Load
<1>4. ASSUME NEW t \in Tabs, Restore(t) \/ DeclineRestore(t) \/ Close(t) PROVE Durable'
  <2>1. restore'[t] # "none" \/ t \notin open'
    BY <1>0, <1>4 DEF Restore, DeclineRestore, Close
  <2>2. Kept(t)'
    BY <2>1 DEF Kept
  <2> QED BY <1>0, <1>1, <1>4, <2>2 DEF Restore, DeclineRestore, Close
<1>5. ASSUME NEW t \in Tabs, NEW e \in Engine, engine' = [engine EXCEPT ![t] = e],
             local' = [local EXCEPT ![t] = Persisted(engine'[t])], UNCHANGED <<open, restore>>
      PROVE  Durable'
  <2>1. engine'[t] = e /\ local'[t] = Persisted(e)
    BY <1>0, <1>5
  <2>2. Kept(t)'
    BY <2>1, PersistedCovers DEF Kept
  <2> QED BY <1>0, <1>1, <1>5, <2>2
<1>6. ASSUME NEW t \in Tabs, NEW p \in Paths, NEW v \in Values, Edit(t, p, v) PROVE Durable'
  <2>1. engine' \in [Tabs -> Engine]
    BY <1>6, EditKeeps DEF IInv, Typed, TypeOK
  <2>2. engine' = [engine EXCEPT ![t] = engine'[t]]
    <3>1. engine' = [engine EXCEPT ![t].document[p] = v, ![t].pending[p] = v,
                                   ![t].status = "pending", ![t].debounce = TRUE]
      BY <1>6 DEF Edit
    <3> QED BY <1>0, <3>1
  <2>3. PICK e \in Engine : e = engine'[t]
    BY <2>1
  <2> QED BY <1>5, <1>6, <2>2, <2>3 DEF Edit, page
<1>7. ASSUME NEW t \in Tabs, KeepMine(t) \/ TakeTheirs(t) PROVE Durable'
  <2>1. PICK chosen \in Patch : Resolve(t, chosen)
    <3>1. Queue(engine[t]) \in Patch
      BY <1>0, QueueTyped
    <3> QED BY <1>7, <3>1, Blanks DEF KeepMine, TakeTheirs
  <2>2. engine' \in [Tabs -> Engine]
    BY <2>1, ResolveKeeps DEF IInv, Typed, TypeOK
  <2>3. /\ engine' = [engine EXCEPT ![t] = engine'[t]]
        /\ local' = [local EXCEPT ![t] = Persisted(engine'[t])] /\ UNCHANGED <<open, restore>>
    <3>1. \E e : engine' = [engine EXCEPT ![t] = e]
      BY <2>1 DEF Resolve
    <3>2. engine' = [engine EXCEPT ![t] = engine'[t]]
      BY <1>0, <3>1
    <3> QED BY <2>1, <3>2 DEF Resolve, page
  <2>4. PICK e \in Engine : e = engine'[t]
    BY <2>2
  <2> QED BY <1>5, <2>3, <2>4
<1>8. ASSUME NEW t \in Tabs, Flush(t) PROVE Durable'
  <2>1. UNCHANGED <<local, open, restore>>
    BY <1>8 DEF Flush, page
  <2>2. Queue(engine'[t]) = Queue(engine[t])
    BY <1>0, <1>8, FlushShape
  <2>3. Kept(t)'
    BY <2>1, <2>2 DEF Kept, Durable
  <2> QED BY <1>0, <1>1, <1>8, <2>1, <2>3, FlushShape
<1>9. ASSUME NEW t \in Tabs, NEW e \in Engine, NEW others, Resume(t, e, others),
             UNCHANGED <<open, restore>>,
             \/ local' = [local EXCEPT ![t] = Persisted(e)]
             \/ /\ UNCHANGED local
                /\ Covers(local[t], Queue(engine[t])) => Covers(local[t], Queue(e))
      PROVE  Durable'
  <2>1. Queue(engine'[t]) = Queue(e) /\ \A u \in Tabs : u # t => engine'[u] = engine[u]
    BY <1>0, <1>9, ResumeShape
  <2>2. CASE local' = [local EXCEPT ![t] = Persisted(e)]
    <3>1. local'[t] = Persisted(e)
      BY <1>0, <2>2
    <3>2. Kept(t)'
      BY <2>1, <3>1, PersistedCovers DEF Kept
    <3> QED BY <1>0, <1>1, <1>9, <2>1, <2>2, <3>2
  <2>3. CASE UNCHANGED local /\ (Covers(local[t], Queue(engine[t])) => Covers(local[t], Queue(e)))
    <3>1. Kept(t)'
      BY <1>9, <2>1, <2>3 DEF Kept, Durable
    <3> QED BY <1>1, <1>9, <2>1, <2>3, <3>1
  <2> QED BY <1>9, <2>2, <2>3
<1>10. ASSUME NEW t \in Tabs, TakeSaved(t) \/ TakeDisjoint(t) PROVE Durable'
  <2>1. PICK c \in calls : \E e \in {Acknowledged(engine[t], c), Rebased(engine[t], c)} :
          Resume(t, e, calls \ {c}) /\ local' = [local EXCEPT ![t] = Persisted(e)]
    BY <1>10 DEF TakeSaved, TakeDisjoint, Awaited
  <2>2. Acknowledged(engine[t], c) \in Engine /\ Rebased(engine[t], c) \in Engine
    BY <1>0, AnswersTyped
  <2> QED BY <1>9, <1>10, <2>1, <2>2 DEF TakeSaved, TakeDisjoint, page
<1>11. ASSUME NEW t \in Tabs, TakeContended(t) \/ TakeRejected(t) PROVE Durable'
  <2>1. PICK c \in calls : \E e \in {Asking(engine[t], c), Dropped(engine[t])} :
          Resume(t, e, calls \ {c})
    BY <1>11 DEF TakeContended, TakeRejected, Awaited
  <2>2. Asking(engine[t], c) \in Engine /\ Dropped(engine[t]) \in Engine
    BY <1>0, AnswersTyped
  <2>3. Covers(local[t], Queue(engine[t])) =>
          Covers(local[t], Queue(Asking(engine[t], c))) /\ Covers(local[t], Queue(Dropped(engine[t])))
    <3>1. engine[t] \in Engine /\ local[t] \in LocalDraft \cup {NoDraft} /\ c \in Call
      BY <1>0
    <3>2. /\ Queue(Asking(engine[t], c)) = Queue(engine[t])
          /\ Queue(Dropped(engine[t])) = engine[t].pending
      BY <3>1, AnswerShape
    <3>3. Covers(local[t], Queue(engine[t])) => Covers(local[t], engine[t].pending)
      BY <3>1, CoversTheRest
    <3> QED BY <3>2, <3>3
  <2> QED BY <1>9, <1>11, <2>1, <2>2, <2>3 DEF TakeContended, TakeRejected, page
<1>12. ASSUME NEW t \in Tabs, LoseConnection(t) PROVE Durable'
  <2>1. PICK served \in {{}, GivenUp(t)} : Resume(t, Offline(engine[t]), NotOf(t) \cup served)
    BY <1>12 DEF LoseConnection
  <2>0. engine[t] \in Engine
    BY <1>0
  <2>2. Offline(engine[t]) \in Engine
    BY <2>0 DEF Offline, Engine
  <2>3. Queue(Offline(engine[t])) = Queue(engine[t])
    <3>1. Offline(engine[t]).inFlight = engine[t].inFlight
          /\ Offline(engine[t]).pending = engine[t].pending
      BY <2>0 DEF Offline, Engine
    <3> QED BY <3>1 DEF Queue
  <2> QED BY <1>9, <1>12, <2>1, <2>2, <2>3 DEF LoseConnection, page
<1> QED BY <1>2, <1>3, <1>4, <1>6, <1>7, <1>8, <1>10, <1>11, <1>12
        DEF Next, DebounceFires, RetryFires, FlushNow

\* Closing a tab loses nothing: all that is queued in it is in its local draft.
THEOREM QueueIsDurable == Spec => []DurableQueue
<1>1. Init => Durable
  BY DEF Init, Durable, Kept
<1>2. IInv /\ Durable /\ [Next]_vars => Durable'
  BY DurableStep
<1>3. IInv /\ Durable => DurableQueue
  BY DEF IInv, Typed, TypeOK, Durable, Kept, Covers, DurableQueue
<1> QED BY <1>1, <1>2, <1>3, Inductive, PTL DEF Spec

(* -------------------- what conflicts are measured against --------------- *)

\* The document is one that the server had at version v or has had since.
FromServer(d, v) == \E n \in 1..Version : v <= n /\ d = drafts[n]

Bases ==
  \A t \in open : restore[t] # "restored" => FromServer(engine[t].base, engine[t].version)

\* The user is asked about a conflict only while nothing is being saved.
Choices ==
  \A t \in Tabs : engine[t].status = "conflict" =>
    /\ ~engine[t].saving
    /\ FromServer(engine[t].server.document, engine[t].server.version)

\* What the answer that a tab waits for will tell it: a conflict's document is a draft, and a
\* save is of the base it was sent from.
Told(c) ==
  /\ c.at \in {"writing", "raced"} => c.existing <= Version
  /\ c.answer.kind = "conflict" => FromServer(c.answer.document, c.answer.version)
  /\ c.answer.kind = "saved" =>
       /\ c.baseVersion \in 1..Version /\ c.answer.version = c.baseVersion + 1
       /\ c.answer.version <= Version
       /\ drafts[c.answer.version] = Apply(drafts[c.baseVersion], c.patch)
  /\ restore[c.tab] # "restored" =>
       /\ c.baseVersion = engine[c.tab].version
       /\ c.answer.kind = "saved" => engine[c.tab].base = drafts[c.baseVersion]

Truths == Bases /\ Choices /\ \A c \in calls : c.live => Told(c)

\* What is known of every step: the types, and which calls are alive.
LEMMA Known ==
  ASSUME IInv
  PROVE  /\ drafts \in Seq(Document) /\ Version \in Nat \ {0} /\ Current = drafts[Version]
         /\ engine \in [Tabs -> Engine] /\ calls \subseteq Call /\ open \subseteq Tabs
         /\ restore \in [Tabs -> {"none", "use-local", "ask", "restored", "declined"}]
         /\ \A c \in calls : c.live => c.tab \in open /\ engine[c.tab].saving
  BY DEF IInv, Typed, TypeOK, Awaits, Version, Current, Call

\* The server moves a call on, and may add a draft: what was told stays true.
LEMMA ServeTruths ==
  ASSUME IInv, Truths, NEW c \in calls, Serve(c), UNCHANGED <<engine, open, restore>>
  PROVE  Truths'
<1>1. /\ drafts \in Seq(Document) /\ Version \in Nat \ {0} /\ Current = drafts[Version]
      /\ calls \subseteq Call /\ c \in Call /\ c.baseVersion \in Nat /\ c.existing \in Nat
      /\ \A d \in calls : d.live => d.tab \in open /\ d.tab \in Tabs
      /\ engine \in [Tabs -> Engine]
  BY Known DEF Call
<1>2. /\ Version' \in {Version, Version + 1}
      /\ \A n \in 1..Version : n \in 1..Version' /\ drafts'[n] = drafts[n]
  <2>1. CASE Write(c)
    <3>1. Len(drafts') = Len(drafts) + 1 /\ \A n \in 1..Len(drafts) : drafts'[n] = drafts[n]
      <4>1. Apply(drafts[c.baseVersion], c.patch) \in Document
        <5>1. c.baseVersion = Version /\ c.patch \in Patch /\ drafts[Version] \in Document
          BY <1>1, <2>1 DEF Write, Predicate, Call, Version
        <5> QED BY <5>1, ApplyTyped
      <4> QED BY <1>1, <2>1, <4>1 DEF Write
    <3> QED BY <1>1, <3>1 DEF Version
  <2>2. CASE ~Write(c)
    <3>1. UNCHANGED drafts
      BY <2>2 DEF Serve, Refuse, FindStale, FindMatching, ReadExisting, LoseRace, ReadFresh
    <3> QED BY <1>1, <3>1 DEF Version
  <2> QED BY <2>1, <2>2
<1>3. Bases' /\ Choices'
  BY <1>1, <1>2 DEF Truths, Bases, Choices, FromServer
<1>4. ASSUME NEW d \in calls, d.live PROVE Told(d)'
  BY <1>1, <1>2, <1>4 DEF Truths, Told, FromServer, Call
<1>5. ASSUME NEW a \in Answer, Reply(c, a), c.live => Told([c EXCEPT !.at = "answered", !.answer = a])'
      PROVE  Truths'
  BY <1>3, <1>4, <1>5 DEF Reply, Truths
<1>6. ASSUME NEW d \in Call, Step(c, d), d.live = c.live, c.live => Told(d)'
      PROVE  Truths'
  BY <1>3, <1>4, <1>6 DEF Step, Truths
<1>7. ASSUME NEW a \in Answer, c.live,
             a.kind = "conflict" => FromServer(a.document, a.version)',
             a.kind = "saved" =>
               /\ c.baseVersion \in 1..Version' /\ a.version = c.baseVersion + 1
               /\ a.version <= Version'
               /\ drafts'[a.version] = Apply(drafts'[c.baseVersion], c.patch)
               /\ restore[c.tab] # "restored" => engine[c.tab].base = drafts'[c.baseVersion]
      PROVE  Told([c EXCEPT !.at = "answered", !.answer = a])'
  <2>1. PICK d \in Call : d = [c EXCEPT !.at = "answered", !.answer = a]
    BY <1>1, <1>7 DEF Call
  <2>2. /\ d.at = "answered" /\ d.answer = a /\ d.tab = c.tab /\ d.patch = c.patch
        /\ d.baseVersion = c.baseVersion
    BY <1>1, <2>1 DEF Call
  <2>3. restore[c.tab] # "restored" => c.baseVersion = engine[c.tab].version
    BY <1>7 DEF Truths, Told
  <2>4. Told(d)'
    BY <1>7, <2>2, <2>3 DEF Told
  <2> QED BY <2>1, <2>4
<1>8. CASE Refuse(c)
  <2>1. PICK a \in Answer : a = Rejected
    BY Blanks DEF Rejected, Answer
  <2>2. a.kind = "rejected"
    BY <2>1 DEF Rejected
  <2> QED BY <1>5, <1>7, <1>8, <2>1, <2>2 DEF Refuse
<1>9. ASSUME NEW v \in Nat, v <= Version \/ ~c.live, Reply(c, Conflict(v, Current)), UNCHANGED drafts
      PROVE  Truths'
  <2>1. Current \in Document
    BY <1>1 DEF Version
  <2>2. PICK a \in Answer : a = Conflict(v, Current)
    BY <2>1 DEF Conflict, Answer
  <2>3. a.kind = "conflict" /\ a.version = v /\ a.document = Current
    BY <2>2 DEF Conflict
  <2>4. c.live => FromServer(a.document, a.version)'
    BY <1>1, <1>9, <2>3 DEF FromServer, Version
  <2> QED BY <1>5, <1>7, <1>9, <2>2, <2>3, <2>4
<1>10. CASE FindStale(c)
  BY <1>1, <1>9, <1>10 DEF FindStale
<1>11. CASE ReadFresh(c)
  <2>1. c.live => c.existing <= Version
    BY <1>11 DEF ReadFresh, Truths, Told
  <2> QED BY <1>1, <1>9, <1>11, <2>1 DEF ReadFresh
<1>12. CASE Write(c)
  <2>1. /\ c.baseVersion = Version
        /\ drafts' = Append(drafts, Apply(drafts[c.baseVersion], c.patch))
        /\ Reply(c, Saved(c.baseVersion + 1))
    BY <1>12 DEF Write, Predicate
  <2>2. Apply(drafts[Version], c.patch) \in Document
    BY <1>1, ApplyTyped DEF Call, Version
  <2>3. /\ Version' = Version + 1 /\ drafts'[Version] = drafts[Version]
        /\ drafts'[Version + 1] = Apply(drafts[Version], c.patch)
    BY <1>1, <2>1, <2>2 DEF Version
  <2>4. PICK a \in Answer : a = Saved(c.baseVersion + 1)
    <3>1. c.baseVersion + 1 \in Nat
      BY <1>1
    <3> QED BY <3>1, Blanks DEF Saved, Answer
  <2>5. a.kind = "saved" /\ a.version = c.baseVersion + 1
    BY <2>4 DEF Saved
  <2>6. c.live /\ restore[c.tab] # "restored" => engine[c.tab].base = drafts[c.baseVersion]
    <3> SUFFICES ASSUME c.live, restore[c.tab] # "restored"
                 PROVE  engine[c.tab].base = drafts[c.baseVersion]
      OBVIOUS
    <3>1. c.baseVersion = engine[c.tab].version /\ c.tab \in open
      BY <1>1 DEF Truths, Told
    <3>2. PICK n \in 1..Version : engine[c.tab].version <= n /\ engine[c.tab].base = drafts[n]
      BY <3>1 DEF Truths, Bases, FromServer
    <3>3. n = Version
      BY <1>1, <2>1, <3>1, <3>2
    <3> QED BY <2>1, <3>2, <3>3
  <2>7. c.live => Told([c EXCEPT !.at = "answered", !.answer = a])'
    <3> SUFFICES ASSUME c.live
                 PROVE  Told([c EXCEPT !.at = "answered", !.answer = a])'
      OBVIOUS
    <3>1. /\ c.baseVersion \in 1..Version' /\ a.version = c.baseVersion + 1
          /\ a.version <= Version'
          /\ drafts'[a.version] = Apply(drafts'[c.baseVersion], c.patch)
      <4>1. a.version = Version + 1 /\ Version \in 1..Version'
        BY <1>1, <2>1, <2>3, <2>5
      <4>2. Apply(drafts'[c.baseVersion], c.patch) = Apply(drafts[Version], c.patch)
        BY <2>1, <2>3
      <4>3. c.baseVersion \in 1..Version' /\ a.version = c.baseVersion + 1
        BY <2>1, <2>5, <4>1
      <4>4. a.version <= Version'
        BY <1>1, <2>3, <4>1
      <4>5. drafts'[a.version] = Apply(drafts'[c.baseVersion], c.patch)
        BY <2>3, <4>1, <4>2
      <4> QED BY <4>3, <4>4, <4>5
    <3>2. restore[c.tab] # "restored" => engine[c.tab].base = drafts'[c.baseVersion]
      BY <2>1, <2>3, <2>6
    <3> QED BY <1>7, <2>5, <3>1, <3>2
  <2> QED BY <1>5, <2>1, <2>4, <2>7
<1>13. ASSUME NEW d \in Call, Step(c, d), UNCHANGED drafts,
              d.live = c.live /\ d.tab = c.tab /\ d.patch = c.patch /\ d.answer = c.answer,
              d.baseVersion = c.baseVersion,
              c.live /\ d.at \in {"writing", "raced"} => d.existing <= Version
       PROVE  Truths'
  <2>1. ASSUME c.live PROVE Told(d)'
    <3>1. Told(c)'
      BY <1>4, <2>1
    <3> QED BY <1>13, <2>1, <3>1 DEF Told, Version
  <2> QED BY <1>6, <1>13, <2>1
<1>14. CASE FindMatching(c)
  <2>1. PICK d \in Call : d = [c EXCEPT !.at = "matched"]
    BY <1>1 DEF Call
  <2>2. /\ d.at = "matched" /\ d.live = c.live /\ d.tab = c.tab /\ d.patch = c.patch
        /\ d.answer = c.answer /\ d.baseVersion = c.baseVersion
    BY <1>1, <2>1 DEF Call
  <2> QED BY <1>13, <1>14, <2>1, <2>2 DEF FindMatching
<1>15. CASE ReadExisting(c)
  <2>1. PICK d \in Call : d = [c EXCEPT !.at = "writing", !.existing = Version]
    BY <1>1 DEF Call
  <2>2. /\ d.existing = Version /\ d.live = c.live /\ d.tab = c.tab /\ d.patch = c.patch
        /\ d.answer = c.answer /\ d.baseVersion = c.baseVersion
    BY <1>1, <2>1 DEF Call
  <2>3. d.existing <= Version /\ Step(c, d) /\ UNCHANGED drafts
    BY <1>1, <1>15, <2>1, <2>2 DEF ReadExisting
  <2> QED BY <1>13, <2>2, <2>3
<1>16. CASE LoseRace(c)
  <2>1. PICK d \in Call : d = [c EXCEPT !.at = "raced"]
    BY <1>1 DEF Call
  <2>2. /\ d.existing = c.existing /\ d.live = c.live /\ d.tab = c.tab /\ d.patch = c.patch
        /\ d.answer = c.answer /\ d.baseVersion = c.baseVersion
    BY <1>1, <2>1 DEF Call
  <2>3. c.live => c.existing <= Version
    BY <1>16 DEF LoseRace, Truths, Told
  <2> QED BY <1>13, <1>16, <2>1, <2>2, <2>3 DEF LoseRace
<1> QED BY <1>8, <1>10, <1>11, <1>12, <1>14, <1>15, <1>16 DEF Serve

\* A call just sent is of the engine's version, and has been told nothing.
JustSent(c, t, v) ==
  c.tab = t /\ c.baseVersion = v /\ c.at = "sent" /\ c.answer.kind = "none"

\* What a send adds is one.
LEMMA NewIsJustSent == \A t \in Tabs : \A q, v : JustSent(NewCall(t, q, v), t, v)
BY DEF JustSent, NewCall, NoAnswer

\* A step of one tab writes no draft; what it leaves of that tab has to be true.
LEMMA TabTruths ==
  ASSUME IInv, Truths, UNCHANGED drafts, NEW t \in Tabs,
         \A u \in Tabs : u # t => /\ engine'[u] = engine[u] /\ restore'[u] = restore[u]
                                  /\ u \in open' => u \in open,
         open' \subseteq Tabs,
         t \in open' /\ restore'[t] # "restored" => FromServer(engine[t].base, engine[t].version)',
         engine'[t].status = "conflict" =>
           ~engine'[t].saving /\ FromServer(engine[t].server.document, engine[t].server.version)',
         \A c \in calls' : c.live =>
           \/ c \in calls /\ c.tab # t
           \/ c.tab = t /\ JustSent(c, t, engine'[t].version)
           \/ /\ c \in calls /\ c.tab = t
              /\ restore'[t] # "restored" =>
                   /\ restore[t] # "restored"
                   /\ engine'[t].version = engine[t].version /\ engine'[t].base = engine[t].base
  PROVE  Truths'
<1>1. Version' = Version /\ \A c \in calls : c.live => c.tab \in Tabs /\ c \in Call
  BY Known DEF Version
<1>2. Bases'
  BY <1>1 DEF Truths, Bases, FromServer
<1>3. Choices'
  <2>1. ASSUME NEW u \in Tabs, u # t, engine'[u].status = "conflict"
        PROVE  ~engine'[u].saving /\ FromServer(engine[u].server.document, engine[u].server.version)'
    BY <1>1, <2>1 DEF Truths, Choices, FromServer
  <2> QED BY <2>1 DEF Choices
<1>4. ASSUME NEW c \in calls', c.live PROVE Told(c)'
  <2>1. CASE c \in calls /\ c.tab # t
    BY <1>1, <1>4, <2>1 DEF Truths, Told, FromServer
  <2>2. CASE c.tab = t /\ JustSent(c, t, engine'[t].version)
    BY <2>2 DEF JustSent, Told
  <2>3. CASE c \in calls /\ c.tab = t /\ (restore'[t] # "restored" =>
               /\ restore[t] # "restored"
               /\ engine'[t].version = engine[t].version /\ engine'[t].base = engine[t].base)
    BY <1>1, <1>4, <2>3 DEF Truths, Told, FromServer
  <2> QED BY <1>4, <2>1, <2>2, <2>3
<1> QED BY <1>2, <1>3, <1>4 DEF Truths

\* Every step keeps what the tabs and the answers take for the server's documents.
LEMMA TruthsStep == ASSUME IInv, Truths, [Next]_vars PROVE Truths'
<1>0. /\ drafts \in Seq(Document) /\ Version \in Nat \ {0} /\ Current = drafts[Version]
      /\ engine \in [Tabs -> Engine] /\ calls \subseteq Call /\ open \subseteq Tabs
      /\ restore \in [Tabs -> {"none", "use-local", "ask", "restored", "declined"}]
      /\ \A c \in calls : c.live => c.tab \in open /\ engine[c.tab].saving
  BY Known
<1>1. CASE ServeOne
  BY <1>1, ServeTruths DEF ServeOne, page
<1>2. CASE UNCHANGED vars
  BY <1>2 DEF vars, page, Truths, Bases, Choices, Told, FromServer, Version
<1>3. ASSUME NEW t \in Tabs, t \in open, restore[t] # "restored"
      PROVE  FromServer(engine[t].base, engine[t].version)
  BY <1>3 DEF Truths, Bases
<1>4. ASSUME NEW t \in Tabs, engine[t].status = "conflict"
      PROVE  /\ ~engine[t].saving
             /\ FromServer(engine[t].server.document, engine[t].server.version)
  BY <1>4 DEF Truths, Choices
<1>5. ASSUME NEW t \in Tabs, ~engine[t].saving PROVE \A c \in calls : c.live => c.tab # t
  BY <1>0, <1>5
<1>6. ASSUME NEW t \in Tabs, Load(t) PROVE Truths'
  <2>1. /\ engine' = [engine EXCEPT ![t] = Loaded(Current, Version)]
        /\ UNCHANGED <<drafts, calls>> /\ open' = open \cup {t} /\ t \notin open
    BY <1>6 DEF Load
  <2>2. \A c \in calls : c.live => c.tab # t
    BY <1>0, <2>1
  <2>3. /\ engine'[t].base = Current /\ engine'[t].version = Version
        /\ engine'[t].status = "clean" /\ \A u \in Tabs : u # t => engine'[u] = engine[u]
    BY <1>0, <2>1 DEF Loaded
  <2>4. FromServer(engine[t].base, engine[t].version)'
    BY <1>0, <2>1, <2>3 DEF FromServer, Version
  <2>5. \A u \in Tabs : u # t => restore'[u] = restore[u]
    BY <1>0, <1>6 DEF Load
  <2> QED BY <1>0, <2>1, <2>2, <2>3, <2>4, <2>5, TabTruths
<1>7. ASSUME NEW t \in Tabs, Restore(t) PROVE Truths'
  <2>1. /\ engine' = [engine EXCEPT ![t] = Restored(engine[t], found[t])]
        /\ restore' = [restore EXCEPT ![t] = "restored"]
        /\ UNCHANGED <<drafts, calls, open>>
    BY <1>7 DEF Restore
  <2>2. /\ engine'[t].status = "pending" /\ restore'[t] = "restored"
        /\ \A u \in Tabs : u # t => engine'[u] = engine[u] /\ restore'[u] = restore[u]
    BY <1>0, <2>1 DEF Restored, Engine
  <2> QED BY <1>0, <2>1, <2>2, TabTruths
<1>8. ASSUME NEW t \in Tabs, DeclineRestore(t) PROVE Truths'
  <2>1. /\ restore[t] = "ask" /\ restore' = [restore EXCEPT ![t] = "declined"]
        /\ UNCHANGED <<drafts, calls, open, engine>> /\ t \in open
    BY <1>8 DEF DeclineRestore
  <2>2. /\ FromServer(engine[t].base, engine[t].version)'
        /\ engine[t].status = "conflict" =>
             ~engine[t].saving /\ FromServer(engine[t].server.document, engine[t].server.version)'
    BY <1>3, <1>4, <2>1 DEF FromServer, Version
  <2> QED BY <1>0, <2>1, <2>2, TabTruths
<1>9. ASSUME NEW t \in Tabs, Close(t) PROVE Truths'
  <2>1. PICK served \in {{}, GivenUp(t)} : calls' = NotOf(t) \cup served
    BY <1>9 DEF Close
  <2>2. \A c \in calls' : c.live => c \in calls /\ c.tab # t
    BY <2>1, OthersAbandoned DEF IInv
  <2>3. /\ engine' = [engine EXCEPT ![t] = Loaded(Blank, 1)] /\ UNCHANGED drafts
        /\ open' = open \ {t} /\ restore' = [restore EXCEPT ![t] = "none"]
    BY <1>9 DEF Close
  <2>4. engine'[t].status = "clean" /\ \A u \in Tabs : u # t => engine'[u] = engine[u]
    BY <1>0, <2>3 DEF Loaded
  <2> QED BY <1>0, <2>2, <2>3, <2>4, TabTruths
<1>10. ASSUME NEW t \in Tabs, NEW p \in Paths, NEW v \in Values, Edit(t, p, v) PROVE Truths'
  <2>1. engine' = [engine EXCEPT ![t] = [engine[t] EXCEPT !.document = [@ EXCEPT ![p] = v],
                    !.pending = [@ EXCEPT ![p] = v], !.status = "pending", !.debounce = TRUE]]
        /\ UNCHANGED <<drafts, calls, open, restore>> /\ t \in open
    BY <1>0, <1>10 DEF Edit, page
  <2>2. engine[t] \in Engine
    BY <1>0
  <2> DEFINE e == [engine[t] EXCEPT !.document = [@ EXCEPT ![p] = v],
                    !.pending = [@ EXCEPT ![p] = v], !.status = "pending", !.debounce = TRUE]
  <2>3. e.base = engine[t].base /\ e.version = engine[t].version /\ e.status = "pending"
    BY <2>2 DEF Engine
  <2> HIDE DEF e
  <2>4. engine'[t] = e /\ \A u \in Tabs : u # t => engine'[u] = engine[u]
    BY <1>0, <2>1 DEF e
  <2>5. restore[t] # "restored" => FromServer(engine[t].base, engine[t].version)'
    BY <1>3, <2>1, <2>3, <2>4 DEF FromServer, Version
  <2> QED BY <1>0, <2>1, <2>3, <2>4, <2>5, TabTruths
<1>11. ASSUME NEW t \in Tabs, Flush(t) PROVE Truths'
  <2>1. UNCHANGED <<drafts, open, restore>> /\ t \in open
    BY <1>11 DEF Flush, page
  <2>2. /\ \A u \in Tabs : u # t => engine'[u] = engine[u]
        /\ engine'[t].base = engine[t].base /\ engine'[t].version = engine[t].version
        /\ \/ /\ engine'[t].status = engine[t].status /\ engine'[t].saving = engine[t].saving
              /\ engine'[t].server = engine[t].server /\ calls' = calls
           \/ /\ engine'[t].status = "saving" /\ ~engine[t].saving
              /\ calls' = calls \cup {NewCall(t, Queue(engine[t]), engine[t].version)}
    BY <1>0, <1>11, FlushShape
  <2>3. restore[t] # "restored" => FromServer(engine[t].base, engine[t].version)'
    BY <1>3, <2>1, <2>2 DEF FromServer, Version
  <2>4. engine'[t].status = "conflict" =>
          ~engine'[t].saving /\ FromServer(engine[t].server.document, engine[t].server.version)'
    BY <1>4, <2>1, <2>2 DEF FromServer, Version
  <2>5. \A c \in calls' : c.live =>
          \/ c \in calls /\ c.tab # t
          \/ c.tab = t /\ JustSent(c, t, engine'[t].version)
          \/ c \in calls /\ c.tab = t
    BY <2>2, NewIsJustSent DEF JustSent
  <2> QED BY <1>0, <2>1, <2>2, <2>3, <2>4, <2>5, TabTruths
<1>12. ASSUME NEW t \in Tabs, t \in open, NEW e \in Engine, NEW others, Resume(t, e, others),
              \A c \in others : c.live => c \in calls /\ c.tab # t,
              UNCHANGED <<drafts, open, restore>>,
              restore[t] # "restored" => FromServer(e.base, e.version),
              e.status = "conflict" => FromServer(e.server.document, e.server.version)
       PROVE  Truths'
  <2>1. /\ \A u \in Tabs : u # t => engine'[u] = engine[u]
        /\ engine'[t].base = e.base /\ engine'[t].version = e.version
        /\ \/ /\ engine'[t].status = e.status /\ ~engine'[t].saving
              /\ engine'[t].server = e.server /\ calls' = others
           \/ /\ engine'[t].status = "saving"
              /\ calls' = others \cup {NewCall(t, Queue(e), e.version)}
    BY <1>0, <1>12, ResumeShape
  <2>2. restore[t] # "restored" => FromServer(engine[t].base, engine[t].version)'
    BY <1>12, <2>1 DEF FromServer, Version
  <2>3. engine'[t].status = "conflict" =>
          ~engine'[t].saving /\ FromServer(engine[t].server.document, engine[t].server.version)'
    BY <1>12, <2>1 DEF FromServer, Version
  <2>4. \A c \in calls' : c.live =>
          \/ c \in calls /\ c.tab # t
          \/ c.tab = t /\ JustSent(c, t, engine'[t].version)
    BY <1>12, <2>1, NewIsJustSent DEF JustSent
  <2> QED BY <1>0, <1>12, <2>1, <2>2, <2>3, <2>4, TabTruths
<1>13. ASSUME NEW t \in Tabs, Answered(t) PROVE Truths'
  <2>1. PICK kind \in {"saved", "conflict", "rejected"}, c \in calls :
          /\ c \in Awaited(t, kind)
          /\ UNCHANGED <<drafts, page>>
          /\ \/ kind = "saved" /\ Resume(t, Acknowledged(engine[t], c), calls \ {c})
             \/ kind = "conflict" /\ Resume(t, Rebased(engine[t], c), calls \ {c})
             \/ kind = "conflict" /\ Resume(t, Asking(engine[t], c), calls \ {c})
             \/ kind = "rejected" /\ Resume(t, Dropped(engine[t]), calls \ {c})
    BY <1>13 DEF Answered, TakeSaved, TakeDisjoint, TakeContended, TakeRejected, Awaited
  <2>2. c \in calls /\ c.live /\ c.tab = t /\ c.answer.kind = kind
    BY <2>1 DEF Awaited
  <2>3. /\ t \in open /\ engine[t] \in Engine /\ c \in Call
        /\ \A d \in calls \ {c} : d.live => d \in calls /\ d.tab # t
    BY <2>2, OthersWithout DEF IInv
  <2>4. Told(c) /\ UNCHANGED <<open, restore>>
    BY <2>1, <2>2 DEF Truths, page
  <2> DEFINE a == Acknowledged(engine[t], c)
             r == Rebased(engine[t], c)
             k == Asking(engine[t], c)
             d == Dropped(engine[t])
  <2>5. a \in Engine /\ r \in Engine /\ k \in Engine /\ d \in Engine
    BY <2>3, AnswersTyped
  <2>6. /\ a.base = Apply(engine[t].base, c.patch) /\ a.version = c.answer.version
        /\ a.status # "conflict"
        /\ r.base = c.answer.document /\ r.version = c.answer.version /\ r.status # "conflict"
        /\ k.base = engine[t].base /\ k.version = engine[t].version
        /\ k.server = [version |-> c.answer.version, document |-> c.answer.document]
        /\ d.base = engine[t].base /\ d.version = engine[t].version /\ d.status # "conflict"
    BY <2>3, AnswerShape
  <2> HIDE DEF a, r, k, d
  <2>7. CASE kind = "saved" /\ Resume(t, a, calls \ {c})
    <3>1. restore[t] # "restored" => FromServer(a.base, a.version)
      <4> SUFFICES ASSUME restore[t] # "restored" PROVE FromServer(a.base, a.version)
        OBVIOUS
      <4>1. /\ c.answer.version = c.baseVersion + 1 /\ c.answer.version <= Version
            /\ c.baseVersion \in 1..Version
            /\ drafts[c.answer.version] = Apply(drafts[c.baseVersion], c.patch)
            /\ engine[t].base = drafts[c.baseVersion]
        BY <2>2, <2>4, <2>7 DEF Told
      <4> QED BY <1>0, <2>6, <4>1 DEF FromServer
    <3> QED BY <1>12, <2>1, <2>3, <2>4, <2>5, <2>6, <2>7, <3>1
  <2>8. CASE kind = "conflict" /\ Resume(t, r, calls \ {c})
    <3>1. FromServer(r.base, r.version)
      BY <2>2, <2>4, <2>6, <2>8 DEF Told
    <3> QED BY <1>12, <2>1, <2>3, <2>4, <2>5, <2>6, <2>8, <3>1
  <2>9. CASE kind = "conflict" /\ Resume(t, k, calls \ {c})
    <3>1. k.server.version = c.answer.version /\ k.server.document = c.answer.document
      BY <2>6
    <3>2. FromServer(k.server.document, k.server.version)
      BY <2>2, <2>4, <2>9, <3>1 DEF Told
    <3>3. restore[t] # "restored" => FromServer(k.base, k.version)
      BY <1>3, <2>3, <2>6
    <3> QED BY <1>12, <2>1, <2>3, <2>4, <2>5, <2>9, <3>2, <3>3
  <2>10. CASE kind = "rejected" /\ Resume(t, d, calls \ {c})
    <3>1. restore[t] # "restored" => FromServer(d.base, d.version)
      BY <1>3, <2>3, <2>6
    <3> QED BY <1>12, <2>1, <2>3, <2>4, <2>5, <2>6, <2>10, <3>1
  <2> QED BY <2>1, <2>7, <2>8, <2>9, <2>10 DEF a, r, k, d
<1>14. ASSUME NEW t \in Tabs, LoseConnection(t) PROVE Truths'
  <2>1. PICK served \in {{}, GivenUp(t)} : Resume(t, Offline(engine[t]), NotOf(t) \cup served)
    BY <1>14 DEF LoseConnection
  <2>2. \A c \in NotOf(t) \cup served : c.live => c \in calls /\ c.tab # t
    BY OthersAbandoned DEF IInv
  <2>3. engine[t] \in Engine /\ t \in open /\ UNCHANGED <<drafts, open, restore>>
    BY <1>0, <1>14 DEF LoseConnection, page, IInv, Awaits
  <2>4. /\ Offline(engine[t]) \in Engine /\ Offline(engine[t]).base = engine[t].base
        /\ Offline(engine[t]).version = engine[t].version
        /\ Offline(engine[t]).status = "offline"
    BY <2>3 DEF Offline, Engine
  <2>5. restore[t] # "restored" =>
          FromServer(Offline(engine[t]).base, Offline(engine[t]).version)
    BY <1>3, <2>3, <2>4
  <2> QED BY <1>12, <2>1, <2>2, <2>3, <2>4, <2>5
<1>15. ASSUME NEW t \in Tabs, NEW chosen \in Patch, Resolve(t, chosen) PROVE Truths'
  <2> DEFINE side == [engine[t] EXCEPT !.server = NoConflict, !.version = engine[t].server.version,
                        !.base = engine[t].server.document, !.inFlight = NoEdits,
                        !.document = Apply(engine[t].server.document, chosen),
                        !.pending = chosen]
             e == IF chosen = NoEdits THEN [side EXCEPT !.status = "clean"]
                  ELSE [side EXCEPT !.status = "pending", !.debounce = TRUE]
  <2>1. engine[t].status = "conflict" /\ UNCHANGED <<drafts, calls, open, restore>> /\ t \in open
    BY <1>15 DEF Resolve, page
  <2>2. engine[t] \in Engine
    BY <1>0
  <2>3. e.base = engine[t].server.document /\ e.version = engine[t].server.version
        /\ e.status # "conflict"
    BY <2>2 DEF Engine
  <2>4. engine' = [engine EXCEPT ![t] = e]
    BY <1>15 DEF Resolve
  <2> HIDE DEF e
  <2>5. engine'[t] = e /\ \A u \in Tabs : u # t => engine'[u] = engine[u]
    BY <1>0, <2>4
  <2>6. FromServer(engine[t].base, engine[t].version)'
    BY <1>4, <2>1, <2>3, <2>5 DEF FromServer, Version
  <2>7. \A c \in calls : c.live => c.tab # t
    BY <1>4, <1>5, <2>1
  <2> QED BY <1>0, <2>1, <2>3, <2>5, <2>6, <2>7, TabTruths
<1>16. ASSUME NEW t \in Tabs, KeepMine(t) \/ TakeTheirs(t) PROVE Truths'
  <2>1. Queue(engine[t]) \in Patch
    BY <1>0, QueueTyped
  <2> QED BY <1>15, <1>16, <2>1, Blanks DEF KeepMine, TakeTheirs
<1> QED BY <1>1, <1>2, <1>6, <1>7, <1>8, <1>9, <1>10, <1>11, <1>13, <1>14, <1>16
        DEF Next, Answered, DebounceFires, RetryFires, FlushNow

\* What a tab measures a conflict against is a document the server had, not older than the
\* version the tab goes by: an answer read in two reads, a race lost or a rebase included.
THEOREM BasesAreTheServers == Spec => []BaseIsAServerDocument
<1>1. Init => Truths
  BY DEF Init, DraftInit, Truths, Bases, Choices, Loaded
<1>2. IInv /\ Truths /\ [Next]_vars => Truths'
  BY TruthsStep
<1>3. IInv /\ Truths => BaseIsAServerDocument
  <2> SUFFICES ASSUME IInv, Truths, NEW t \in open, restore[t] # "restored"
               PROVE  \E n \in engine[t].version..Version : engine[t].base = drafts[n]
    BY DEF BaseIsAServerDocument
  <2>1. engine[t].version \in Nat /\ Version \in Nat
    BY Known DEF Engine
  <2>2. PICK n \in 1..Version : engine[t].version <= n /\ engine[t].base = drafts[n]
    BY DEF Truths, Bases, FromServer
  <2>3. n \in engine[t].version..Version
    BY <2>1, <2>2
  <2> QED BY <2>2, <2>3
<1> QED BY <1>1, <1>2, <1>3, Inductive, PTL DEF Spec
=============================================================================
