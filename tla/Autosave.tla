------------------------------ MODULE Autosave ------------------------------
(***************************************************************************)
(* The builder's autosave in each tab: AutosaveEngine                      *)
(* (web/src/builder/autosave-engine.ts), bound to the page by useBuilder   *)
(* and to IndexedDB by decideRestore (local-draft-store.ts), over          *)
(* DraftStore.                                                             *)
(*                                                                         *)
(* JavaScript runs one task at a time: an action is one task and the       *)
(* promise continuations it sets off, so the flushes that wait for a save  *)
(* resume in the task that handles its answer.  A timer is armed or not;   *)
(* delays are left out.  A write to IndexedDB lands with the edit that     *)
(* makes it, and each tab has a store of its own.                          *)
(***************************************************************************)
EXTENDS DraftStore

CONSTANTS
  NoDraft,
  MaxEdits,    \* bound on the edits made in all tabs
  MaxFaults,   \* bound on connections lost and tabs closed or evicted
  MaxFlushes   \* bound on the flushes a user's action calls for

ASSUME AutosaveAssumption ==
  /\ {MaxEdits, MaxFaults, MaxFlushes} \subseteq Nat

VARIABLES
  open,      \* the tabs in which the builder is open
  engine,    \* engine[t]: the AutosaveEngine of tab t
  local,     \* local[t]: its LocalDraft in IndexedDB, or NoDraft
  found,     \* found[t]: the local draft it read at startup and has yet to settle
  restore,   \* restore[t]: what decideRestore said, or what became of it
  used       \* how much of each bound is used

page == <<open, found, restore>>
vars == <<drafts, calls, open, engine, local, found, restore, used>>

(* -------------------------------- the state ---------------------------- *)

LocalDraft == [document : Document, version : Nat, pending : Patch]

ASSUME NoDraftAssumption == NoDraft \notin LocalDraft

Engine == [document : Document, version : Nat, pending : Patch, inFlight : Patch,
           status : {"clean", "pending", "saving", "offline", "failed", "conflict"},
           base : Document, debounce : BOOLEAN, retry : BOOLEAN, saving : BOOLEAN,
           waiting : Seq(SUBSET Paths),  \* flushes awaiting savingPromise: what was queued
           server : [version : Nat, document : Document]]  \* conflictDetail

NoConflict == [version |-> 0, document |-> Blank]

Loaded(d, v) ==
  [document |-> d, version |-> v, pending |-> NoEdits, inFlight |-> NoEdits,
   status |-> "clean", base |-> d, debounce |-> FALSE, retry |-> FALSE, saving |-> FALSE,
   waiting |-> <<>>, server |-> NoConflict]

\* [...inFlight, ...pending]
Queue(e) == Apply(e.inFlight, e.pending)

\* Seeded fault: what is in flight is taken for saved.
Persisted_PendingOnly(e) ==
  [document |-> e.document, version |-> e.version, pending |-> e.pending]

Persisted(e) == [document |-> e.document, version |-> e.version, pending |-> Queue(e)]

TypeOK ==
  /\ drafts \in Seq(Document)
  /\ calls \subseteq Call
  /\ open \subseteq Tabs
  /\ engine \in [Tabs -> Engine]
  /\ local \in [Tabs -> LocalDraft \cup {NoDraft}]
  /\ found \in [Tabs -> LocalDraft \cup {NoDraft}]
  /\ restore \in [Tabs -> {"none", "use-local", "ask", "restored", "declined"}]
  /\ used \in [edits : 0..MaxEdits, faults : 0..MaxFaults, flushes : 0..MaxFlushes]

Init ==
  /\ DraftInit
  /\ open = {}
  /\ engine = [t \in Tabs |-> Loaded(Blank, 1)]
  /\ local = [t \in Tabs |-> NoDraft]
  /\ found = [t \in Tabs |-> NoDraft]
  /\ restore = [t \in Tabs |-> "none"]
  /\ used = [edits |-> 0, faults |-> 0, flushes |-> 0]

(* ------------------------------- starting up --------------------------- *)

\* We never silently discard unsent work: it is restored, or the user is asked.
DecideRestore(d, v) ==
  IF d = NoDraft \/ (d # NoDraft /\ d.pending = NoEdits) THEN "none"
  ELSE IF d.version < v THEN "ask" ELSE "use-local"

Load(t) ==
  /\ t \notin open
  /\ open' = open \cup {t}
  /\ engine' = [engine EXCEPT ![t] = Loaded(Current, Version)]
  /\ restore' = [restore EXCEPT ![t] = DecideRestore(local[t], Version)]
  /\ found' = [found EXCEPT ![t] = IF restore'[t] = "none" THEN NoDraft ELSE local[t]]
  /\ UNCHANGED <<drafts, calls, local, used>>

\* The base is the restored document itself, its unsent edits included.
Restored(e, d) ==
  [e EXCEPT !.document = d.document, !.base = d.document, !.version = d.version,
            !.pending = d.pending, !.status = "pending", !.debounce = TRUE]

Restore(t) ==
  /\ t \in open
  /\ restore[t] \in {"use-local", "ask"}
  /\ engine' = [engine EXCEPT ![t] = Restored(@, found[t])]
  /\ restore' = [restore EXCEPT ![t] = "restored"]
  /\ found' = [found EXCEPT ![t] = NoDraft]
  /\ UNCHANGED <<drafts, calls, open, local, used>>

DeclineRestore(t) ==
  /\ t \in open
  /\ restore[t] = "ask"
  /\ restore' = [restore EXCEPT ![t] = "declined"]
  /\ found' = [found EXCEPT ![t] = NoDraft]
  /\ local' = [local EXCEPT ![t] = NoDraft]
  /\ UNCHANGED <<drafts, calls, open, engine, used>>

(* --------------------------- editing and flushing ---------------------- *)

Edit(t, p, v) ==
  /\ t \in open
  /\ used.edits < MaxEdits
  /\ v # engine[t].document[p]
  /\ engine' = [engine EXCEPT ![t].document[p] = v, ![t].pending[p] = v,
                              ![t].status = "pending", ![t].debounce = TRUE]
  /\ local' = [local EXCEPT ![t] = Persisted(engine'[t])]
  /\ used' = [used EXCEPT !.edits = @ + 1]
  /\ UNCHANGED <<drafts, calls, page>>

\* send(): the queue moves into flight.
Sending(e) ==
  [e EXCEPT !.inFlight = Queue(e), !.pending = NoEdits, !.status = "saving", !.saving = TRUE]

Send(t, e, others) ==
  /\ engine' = [engine EXCEPT ![t] = Sending(e)]
  /\ calls' = others \cup {NewCall(t, Queue(e), e.version)}

\* Seeded fault: `if (this.saving) return;`
Awaiting_Returns(e) == e

\* flush() as it finds a save running: it waits for it.
Awaiting(e) == [e EXCEPT !.waiting = Append(@, Touched(Queue(e)))]

Flush(t) ==
  LET e == [engine[t] EXCEPT !.debounce = FALSE, !.retry = FALSE] IN
  /\ t \in open
  /\ \/ /\ e.saving
        /\ engine' = [engine EXCEPT ![t] = Awaiting(e)]
        /\ UNCHANGED calls
     \/ /\ ~e.saving
        /\ Queue(e) = NoEdits
        /\ engine' = [engine EXCEPT ![t] = e]
        /\ UNCHANGED calls
     \/ /\ ~e.saving
        /\ Queue(e) # NoEdits
        /\ Send(t, e, calls)
  /\ UNCHANGED <<drafts, local, page>>

DebounceFires(t) == engine[t].debounce /\ Flush(t) /\ UNCHANGED used
RetryFires(t)    == engine[t].retry /\ Flush(t) /\ UNCHANGED used

\* A step change, the tab hidden, or the publish panel.
FlushNow(t) ==
  /\ Queue(engine[t]) # NoEdits
  /\ used.flushes < MaxFlushes
  /\ Flush(t)
  /\ used' = [used EXCEPT !.flushes = @ + 1]

(* ------------------------------ the answers ---------------------------- *)

\* Seeded fault: a save that has ended leaves `saving` set.
Resume_NoFinally(t, e, others) ==
  engine' = [engine EXCEPT ![t] = [e EXCEPT !.waiting = <<>>]] /\ calls' = others

\* The first flush that waited sends what is left; the others see it saving and return.
Resume(t, e, others) ==
  LET rest == [e EXCEPT !.saving = FALSE, !.waiting = <<>>] IN
  IF e.waiting # <<>> /\ Queue(e) # NoEdits
  THEN Send(t, rest, others)
  ELSE engine' = [engine EXCEPT ![t] = rest] /\ calls' = others

Awaited(t, kind) == {c \in calls : c.tab = t /\ c.live /\ c.answer.kind = kind}

\* Seeded fault: the base stays where it was.
Acknowledged_OldBase(e, c) ==
  [e EXCEPT !.inFlight = NoEdits, !.version = c.answer.version,
            !.status = IF e.pending = NoEdits THEN "clean" ELSE "pending",
            !.debounce = @ \/ e.pending # NoEdits]

Acknowledged(e, c) ==
  [e EXCEPT !.inFlight = NoEdits, !.version = c.answer.version, !.base = Apply(@, c.patch),
            !.status = IF e.pending = NoEdits THEN "clean" ELSE "pending",
            !.debounce = @ \/ e.pending # NoEdits]

TakeSaved(t) ==
  \E c \in Awaited(t, "saved") :
    LET e == Acknowledged(engine[t], c) IN
    /\ Resume(t, e, calls \ {c})
    /\ local' = [local EXCEPT ![t] = Persisted(e)]
    /\ UNCHANGED <<drafts, page, used>>

\* Paths of the batch where the server's value is not the one we last saw.
Contended(e, c) == {p \in Touched(c.patch) : e.base[p] # c.answer.document[p]}

Rebased(e, c) ==
  [e EXCEPT !.document = Apply(c.answer.document, c.patch), !.base = c.answer.document,
            !.version = c.answer.version, !.inFlight = NoEdits,
            !.pending = Apply(c.patch, @), !.status = "pending", !.debounce = TRUE]

TakeDisjoint(t) ==
  \E c \in Awaited(t, "conflict") :
    LET e == Rebased(engine[t], c) IN
    /\ Contended(engine[t], c) = {}
    /\ Resume(t, e, calls \ {c})
    /\ local' = [local EXCEPT ![t] = Persisted(e)]
    /\ UNCHANGED <<drafts, page, used>>

Asking(e, c) ==
  [e EXCEPT !.status = "conflict",
            !.server = [version |-> c.answer.version, document |-> c.answer.document]]

TakeContended(t) ==
  \E c \in Awaited(t, "conflict") :
    /\ Contended(engine[t], c) # {}
    /\ Resume(t, Asking(engine[t], c), calls \ {c})
    /\ UNCHANGED <<drafts, local, page, used>>

Dropped(e) == [e EXCEPT !.inFlight = NoEdits, !.status = "failed"]

TakeRejected(t) ==
  \E c \in Awaited(t, "rejected") :
    /\ Resume(t, Dropped(engine[t]), calls \ {c})
    /\ UNCHANGED <<drafts, local, page, used>>

\* A request or its answer is lost, or the server failed: it was served, or not.
GivenUp(t) ==
  {[c EXCEPT !.live = FALSE] :
     c \in {d \in calls : d.tab = t /\ d.live /\ d.at # "answered"}}

NotOf(t) == {c \in calls : ~(c.tab = t /\ c.live)}

Offline(e) == [e EXCEPT !.status = "offline", !.retry = TRUE]

LoseConnection(t) ==
  /\ engine[t].saving
  /\ used.faults < MaxFaults
  /\ \E served \in {{}, GivenUp(t)} : Resume(t, Offline(engine[t]), NotOf(t) \cup served)
  /\ used' = [used EXCEPT !.faults = @ + 1]
  /\ UNCHANGED <<drafts, local, page>>

(* ---------------------------- the user's choice ------------------------ *)

Resolve(t, chosen) ==
  LET e    == engine[t]
      side == [e EXCEPT !.server = NoConflict, !.version = e.server.version,
                        !.base = e.server.document, !.inFlight = NoEdits,
                        !.document = Apply(e.server.document, chosen), !.pending = chosen]
  IN
  /\ t \in open
  /\ e.status = "conflict"
  /\ engine' = [engine EXCEPT ![t] =
       IF chosen = NoEdits THEN [side EXCEPT !.status = "clean"]
       ELSE [side EXCEPT !.status = "pending", !.debounce = TRUE]]
  /\ local' = [local EXCEPT ![t] = Persisted(engine'[t])]
  /\ UNCHANGED <<drafts, calls, page, used>>

KeepMine(t)   == Resolve(t, Queue(engine[t]))
TakeTheirs(t) == Resolve(t, NoEdits)

\* The tab is closed, or evicted from memory.
Close(t) ==
  /\ t \in open
  /\ used.faults < MaxFaults
  /\ open' = open \ {t}
  /\ engine' = [engine EXCEPT ![t] = Loaded(Blank, 1)]
  /\ restore' = [restore EXCEPT ![t] = "none"]
  /\ found' = [found EXCEPT ![t] = NoDraft]
  /\ \E served \in {{}, GivenUp(t)} : calls' = NotOf(t) \cup served
  /\ used' = [used EXCEPT !.faults = @ + 1]
  /\ UNCHANGED <<drafts, local>>

(* ------------------------------- behaviours ---------------------------- *)

Answered(t) == TakeSaved(t) \/ TakeDisjoint(t) \/ TakeContended(t) \/ TakeRejected(t)

ServeOne == \E c \in calls : Serve(c) /\ UNCHANGED <<engine, local, page, used>>

Next ==
  \/ ServeOne
  \/ \E t \in Tabs :
       \/ Load(t) \/ Restore(t) \/ DeclineRestore(t)
       \/ \E p \in Paths, v \in Values : Edit(t, p, v)
       \/ DebounceFires(t) \/ RetryFires(t) \/ FlushNow(t)
       \/ TakeSaved(t) \/ TakeDisjoint(t) \/ TakeContended(t) \/ TakeRejected(t)
       \/ LoseConnection(t) \/ KeepMine(t) \/ TakeTheirs(t) \/ Close(t)

Spec == Init /\ [][Next]_vars

\* Timers fire and requests are answered; nobody has to edit, choose or come back.
Fairness ==
  /\ WF_vars(ServeOne)
  /\ \A t \in Tabs : WF_vars(DebounceFires(t)) /\ WF_vars(RetryFires(t)) /\ WF_vars(Answered(t))

FairSpec == Spec /\ Fairness

(* ------------------------------- properties ---------------------------- *)

\* Whatever is queued in an open tab has something that will send it: a timer, a save in
\* flight whose answer will, or the user's answer to a conflict.  The flushes that cancel
\* both timers and wait (autosave-engine.ts:216-239) are why this is not obvious.
WorkHasAClock ==
  \A t \in open :
    LET e == engine[t] IN
    Queue(e) # NoEdits => e.debounce \/ e.retry \/ e.saving \/ e.status = "conflict"

\* What a tab has queued is in its local draft, so closing it loses nothing - but for a tab
\* that found an older draft at startup, which edits, restoring and declining overwrite.
DurableQueue ==
  \A t \in open :
    restore[t] = "none" /\ Queue(engine[t]) # NoEdits =>
      local[t] # NoDraft /\ Apply(local[t].pending, Queue(engine[t])) = local[t].pending

\* The document a tab measures conflicts against is one the server really had, and no older
\* than the version it will send; a restored tab's base holds its own unsent edits.
BaseIsAServerDocument ==
  \A t \in open :
    restore[t] # "restored" => \E n \in engine[t].version..Version : engine[t].base = drafts[n]

\* A landed save changes the fields it names and no other: it never puts back the value of
\* a field that another tab saved between its reads and its write.
NoSaveUndoesAnother ==
  [][\A p \in Paths : Current'[p] # Current[p] =>
       \E c \in calls : c.at = "writing" /\ c.patch[p] = Current'[p]]_vars

\* Whatever is queued in an open tab is in the end saved, given up by choice or refused,
\* or waits for the user's answer to a conflict.
EveryEditSettles ==
  \A t \in Tabs :
    (t \in open /\ Queue(engine[t]) # NoEdits)
      ~> (t \notin open \/ Queue(engine[t]) = NoEdits \/ engine[t].status = "conflict")

=============================================================================
