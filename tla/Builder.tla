------------------------------- MODULE Builder -------------------------------
(***************************************************************************)
(* The page on which an invitation is built (web/src/builder): what its    *)
(* controls edit (Steps.tsx, Panels.tsx, edits.ts), how an edit is undone  *)
(* (history.ts), queued as operations and rebased (autosave-engine.ts),    *)
(* how the preview frame is kept up to date (Builder.tsx,                  *)
(* preview-bridge.ts, PreviewFrame.tsx), and how it publishes              *)
(* (PublishPanel.tsx).                                                     *)
(*                                                                         *)
(* Autosave has the timers, the local drafts and the steps of a save; here *)
(* a save is served and answered in one step, and what matters is what its *)
(* operations say.  The other device always has the current document.      *)
(***************************************************************************)
EXTENDS DraftDocument

CONSTANTS
  Drafts,       \* the documents an invitation may start from
  Sittings,     \* what the user, the network and the other device may do: see Bounds
  MaxHistory    \* MAX_HISTORY_ENTRIES

ASSUME HistoryAssumption == MaxHistory \in Nat \ {0}

VARIABLES
  server,    \* the draft, its version, and the snapshot published last
  tab,       \* the AutosaveEngine, the EditHistory and the document on the screen
  preview,   \* the iframe, and the builder's end of the channel to it
  publish,   \* PublishState: where a publication is
  ids,       \* how many ids were handed out to events and photos
  left       \* how much of each bound is left

vars == <<server, tab, preview, publish, ids, left>>

(* -------------------------------- the state ---------------------------- *)

Bounds == [controls : SUBSET (DOMAIN Typed \cup {"events", "gallery", "sections"}),
           edits : Nat,     \* edits made here
           undos : Nat,     \* undos and redos
           others : Nat,    \* edits made on the other device
           losses : Nat,    \* answers that do not arrive
           loads : Nat,     \* reloads of the frame or of the page
           frame : BOOLEAN, \* whether the preview is followed, or left out
           presses : Nat]   \* presses of the publish button

ASSUME SittingsAssumption == Drafts \subseteq Document /\ Sittings \subseteq Bounds

\* onDocumentChange: a document that does not parse is not shown.
Shown(document, shown) == IF ParseDraftDocument(document) THEN document ELSE shown

NoPrompt == [document |-> Null, version |-> 0]

Opened(document, version) ==
  [document |-> document, base |-> document, version |-> version,
   pending |-> <<>>, inFlight |-> <<>>, saving |-> FALSE,
   prompt |-> NoPrompt,              \* conflictDetail, while its dialog is on the screen
   shown |-> Shown(document, Null),  \* Null: "load.failed"
   undo |-> <<>>, redo |-> <<>>,     \* each entry with the documents it leads between
   moved |-> FALSE,                  \* a conflict has replaced the document
   astray |-> FALSE]                 \* ... and not by what is queued, see QueueRebuildsDocument

\* The frame loads while the page does, from the same draft.
Loading(document) ==
  [hydrated |-> FALSE,               \* the builder's own script runs
   listening |-> FALSE, shows |-> Shown(document, Null),
   wire |-> <<>>,                    \* posted to the frame, and not received yet
   announced |-> FALSE,              \* `preview:ready` was posted, and not received yet
   load |-> TRUE,                    \* the iframe's load event is still to come
   ready |-> FALSE, queue |-> <<>>,  \* PreviewChannel
   heard |-> FALSE]                  \* one of the two signals reached the builder

\* The preview where it is left out: nothing in it changes.
Hidden ==
  [hydrated |-> TRUE, listening |-> FALSE, shows |-> Null, wire |-> <<>>, announced |-> FALSE,
   load |-> FALSE, ready |-> FALSE, queue |-> <<>>, heard |-> FALSE]

NotPublishing == [at |-> "idle", calm |-> FALSE]

Init ==
  /\ \E document \in Drafts :
       /\ server = [document |-> document, version |-> 1, published |-> Null]
       /\ tab = Opened(document, 1)
       /\ left \in Sittings
       /\ preview = IF left.frame THEN Loading(document) ELSE Hidden
  /\ publish = NotPublishing
  /\ ids = 10

Spend(bound) == left[bound] > 0 /\ left' = [left EXCEPT ![bound] = @ - 1]

(* ------------------------------- the controls -------------------------- *)

\* What a control stores: names as they are, the rest trimmed, and null when empty.
Entered(field, text) == IF field \in Names \/ ~Blank(text) THEN text ELSE Null

Replacing(field, text) == ReplaceOp(<<"content", field>>, Entered(field, text))

Texts(document, field) ==
  {text \in Typed[field] : field \in left.controls /\ Entered(field, text) # document.content[field]}

\* What the user may do with the controls of some fields: each action is a sequence of edits,
\* each edit a sequence of operations.
FieldEdits(document, fields) ==
  UNION {{<< <<Replacing(field, text)>> >> : text \in Texts(document, field)} : field \in fields}

CoupleStep(document) == FieldEdits(document, Names \cup {"message"})

\* A zone is kept in two places.
DateStep(document) ==
  FieldEdits(document, {"weddingDate"})
    \cup {<< <<Replacing("timezone", zone), ReplaceOp(<<"content", "weddingTimezone">>, zone)>> >> :
            zone \in Texts(document, "timezone")}

\* A map link also sets the coordinates that can be read in it, in an edit of its own.
LocationStep(document) ==
  LET coordinates == <<ReplaceOp(<<"content", "latitude">>, "inside")>>
  IN FieldEdits(document, {"latitude"})
       \cup {<< <<Replacing("mapsUrl", url)>> >> \o IF url = "link" THEN <<coordinates>> ELSE <<>> :
               url \in Texts(document, "mapsUrl")}

AddEvent(document, id) ==
  LET day == document.content.weddingDate
  IN AddOp(<<"events", End>>, NewEvent(id, IF day = Null THEN "day" ELSE day, Len(document.events)))

EventsStep(document, id) ==
  {<< <<AddEvent(document, id)>> >>}
    \cup UNION {{<< <<RemoveOp(<<"events", i>>)>> >>}
                  \cup {<< <<ReplaceOp(<<"events", i, "title">>, title)>> >> :
                          title \in {"", "title"} \ {document.events[i].title}}
                  \cup {<< <<ReplaceOp(<<"events", i, "date">>, date)>> >> :
                          date \in {"", "day"} \ {document.events[i].date}} :
                i \in DOMAIN document.events}

\* uploadImage has ended: the photo is appended, wherever the list ends by then.
Gallery(document, id) ==
  {<< <<AddOp(<<"gallery", End>>, id)>> >>}
    \cup {<< <<RemoveOp(<<"gallery", i>>)>> >> : i \in DOMAIN document.gallery}

PhotosStep(document, id) ==
  FieldEdits(document, {"cover"})
    \cup IF "gallery" \in left.controls THEN Gallery(document, id) ELSE {}

MusicStep(document) == FieldEdits(document, {"music"})

\* A palette sets several colours at once; every other choice of the theme is a field alone.
DesignPanel(document) ==
  FieldEdits(document, {"primary", "accent"})
    \cup {<< <<Replacing("primary", color), Replacing("accent", color)>> >> :
            color \in Texts(document, "primary")}

\* An arrow swaps a section's order with its neighbour's in the list, sorted by order alone.
SectionsPanel(document) ==
  LET sections == document.sections
      before(i, j) == \/ sections[i].order < sections[j].order
                      \/ sections[i].order = sections[j].order /\ i < j
      neighbours == {pair \in (DOMAIN sections) \X (DOMAIN sections) :
                       /\ before(pair[1], pair[2])
                       /\ \A k \in DOMAIN sections : ~(before(pair[1], k) /\ before(k, pair[2]))}
      toggle(i) == ReplaceOp(<<"sections", i, "enabled">>, ~sections[i].enabled)
      order(i, j) == ReplaceOp(<<"sections", i, "order">>, sections[j].order)
  IN {<< <<toggle(i)>> >> : i \in {j \in DOMAIN sections : ~sections[j].locked}}
       \cup {<< <<order(pair[1], pair[2]), order(pair[2], pair[1])>> >> : pair \in neighbours}

Offered(document, id) ==
  UNION {CoupleStep(document), DateStep(document), LocationStep(document),
         IF "events" \in left.controls THEN EventsStep(document, id) ELSE {},
         PhotosStep(document, id), MusicStep(document), DesignPanel(document),
         IF "sections" \in left.controls THEN SectionsPanel(document) ELSE {}}

(* ------------------------------- the history --------------------------- *)

\* Seeded fault: the place of the last element for that of the new one.
InverseOp_LastElement(document, op) ==
  CASE op.op = "replace" -> ReplaceOp(op.path, ReadPointer(document, op.path))
    [] op.op = "remove"  -> AddOp(op.path, ReadPointer(document, op.path))
    [] op.op = "add"     -> RemoveOp(Append(Front(op.path), Len(ReadPointer(document, Front(op.path)))))

\* The inverse of an operation that fits: what is removed comes back at its place, and what
\* is appended is removed from the place it takes.  A user's edit adds nothing elsewhere.
InverseOp(document, op) ==
  CASE op.op = "replace" -> ReplaceOp(op.path, ReadPointer(document, op.path))
    [] op.op = "remove"  -> AddOp(op.path, ReadPointer(document, op.path))
    [] op.op = "add"     ->
         RemoveOp(Append(Front(op.path), Len(ReadPointer(document, Front(op.path))) + 1))

\* invert(): each operation against the document the ones before it leave, the last first.
Invert(operations, document) ==
  Reverse([i \in DOMAIN operations |->
             InverseOp(ApplyPatch(document, SubSeq(operations, 1, i - 1)), operations[i])])

\* EditHistory.record: a new edit forks the timeline.
Recorded(before, operations, after) ==
  LET entry == [forward |-> operations, backward |-> Invert(operations, before.document),
                before |-> before.document, after |-> after.document]
      undo  == Append(before.undo, entry)
  IN [after EXCEPT !.undo = IF Len(undo) > MaxHistory THEN Tail(undo) ELSE undo, !.redo = <<>>]

(* -------------------------------- the queue ---------------------------- *)

\* Seeded fault: lastReplaceAt.clear() is forgotten.
Coalesced_AcrossLists(queue, op) ==
  LET same == {i \in DOMAIN queue : queue[i].op = "replace" /\ queue[i].path = op.path}
  IN IF op.op = "replace" /\ same # {}
     THEN [queue EXCEPT ![CHOOSE i \in same : TRUE] = op]
     ELSE Append(queue, op)

\* A later replacement of a path takes the place of an earlier one, unless a list changed between.
Coalesced(queue, op) ==
  LET same == {i \in DOMAIN queue :
                 /\ queue[i].op = "replace" /\ queue[i].path = op.path
                 /\ \A j \in (i + 1)..Len(queue) : queue[j].op = "replace"}
  IN IF op.op = "replace" /\ same # {}
     THEN [queue EXCEPT ![CHOOSE i \in same : TRUE] = op]
     ELSE Append(queue, op)

Coalesce(operations) ==
  LET queue[n \in 0..Len(operations)] ==
        IF n = 0 THEN <<>> ELSE Coalesced(queue[n - 1], operations[n])
  IN queue[Len(operations)]

\* AutosaveEngine.edit: an edit that does not fit the engine's document is dropped.
Edited(t, operations) ==
  LET document == ApplyPatch(t.document, operations) IN
  IF document = Refused THEN t
  ELSE [t EXCEPT !.document = document, !.pending = Coalesce(@ \o operations),
                 !.shown = Shown(document, @), !.prompt = NoPrompt]

\* useBuilder's edit: recorded when the engine took it.
EditedByUser(t, operations) ==
  IF ApplyPatch(t.document, operations) = Refused THEN t
  ELSE Recorded(t, operations, Edited(t, operations))

\* The edits of one action, one after the other.
Performed(t, edits) ==
  LET after[n \in 0..Len(edits)] == IF n = 0 THEN t ELSE EditedByUser(after[n - 1], edits[n])
  IN after[Len(edits)]

Queued(t) == t.inFlight \o t.pending

Sending(t) ==
  [t EXCEPT !.inFlight = Queued(t), !.pending = <<>>, !.saving = TRUE, !.prompt = NoPrompt]

\* 'saved'
Acknowledged(t) ==
  LET base == ApplyPatch(t.base, t.inFlight)
  IN [t EXCEPT !.inFlight = <<>>, !.version = @ + 1, !.saving = FALSE,
               !.base = IF base = Refused THEN @ ELSE base]

\* Paths of the batch whose value is not the one last seen; nothing is read at the end of a list.
Contended(t) ==
  {i \in DOMAIN t.inFlight : ReadPointer(t.base, t.inFlight[i].path)
                               # ReadPointer(server.document, t.inFlight[i].path)}

\* 'conflict', different fields: the batch alone is replayed on the server's document, and
\* queued again before what was typed meanwhile, which the screen no longer shows.
Rebased(t) ==
  LET document == ApplyPatch(server.document, t.inFlight)
  IN [t EXCEPT !.document = document, !.base = server.document, !.version = server.version,
               !.inFlight = <<>>, !.pending = Coalesce(t.inFlight \o @), !.saving = FALSE,
               !.shown = Shown(document, @), !.moved = TRUE, !.astray = t.pending # <<>>]

\* 'conflict', the same field: the user is asked.
Asking(t) ==
  [t EXCEPT !.saving = FALSE,
            !.prompt = [document |-> server.document, version |-> server.version]]

\* 'rejected': the batch is dropped, the document keeps it.
Dropped(t) == [t EXCEPT !.inFlight = <<>>, !.saving = FALSE, !.astray = TRUE]

\* resolveConflict('mine'): a replay that does not fit leaves the document as it was.
KeptMine(t) ==
  LET document == ApplyPatch(t.prompt.document, Queued(t))
      kept     == IF document = Refused THEN t.document ELSE document
  IN [t EXCEPT !.document = kept, !.base = t.prompt.document, !.version = t.prompt.version,
               !.inFlight = <<>>, !.pending = Coalesce(Queued(t)), !.prompt = NoPrompt,
               !.shown = Shown(kept, @), !.moved = TRUE, !.astray = (document = Refused)]

\* resolveConflict('theirs')
TookTheirs(t) ==
  [t EXCEPT !.document = t.prompt.document, !.base = t.prompt.document,
            !.version = t.prompt.version, !.inFlight = <<>>, !.pending = <<>>,
            !.prompt = NoPrompt, !.shown = Shown(t.prompt.document, @),
            !.moved = TRUE, !.astray = FALSE]

(* ------------------------------- the preview --------------------------- *)

\* PreviewChannel.send
Sent(view, document) ==
  IF view.ready THEN [view EXCEPT !.wire = Append(@, document)]
                ELSE [view EXCEPT !.queue = Append(@, document)]

\* Seeded fault: the load event revokes readiness.
OnLoad_NotReady(view) == [view EXCEPT !.ready = FALSE]

\* attachToFrame: markReady, which posts what was queued, and the document once more.
AttachToFrame(view) ==
  LET ready == [view EXCEPT !.ready = TRUE, !.heard = TRUE, !.wire = @ \o view.queue, !.queue = <<>>]
  IN IF tab.shown = Null THEN ready ELSE Sent(ready, tab.shown)

OnLoad(view) == AttachToFrame(view)

\* The builder's state becomes t: what it shows is sent to the frame when it changes.
Render(t) ==
  /\ tab' = t
  /\ preview' = IF left.frame /\ t.shown # tab.shown THEN Sent(preview, t.shown) ELSE preview

\* The first render in the browser: its effects listen for the frame and send the document.
Hydrate ==
  /\ ~preview.hydrated
  /\ preview' = LET view == [preview EXCEPT !.hydrated = TRUE]
                IN IF tab.shown = Null THEN view ELSE Sent(view, tab.shown)
  /\ UNCHANGED <<server, tab, publish, ids, left>>

\* The frame's effect: it listens, then announces it, once.
FrameListens ==
  /\ left.frame /\ ~preview.listening
  /\ preview' = [preview EXCEPT !.listening = TRUE, !.announced = TRUE]
  /\ UNCHANGED <<server, tab, publish, ids, left>>

\* An announcement that comes before the builder listens is gone.
ReceiveAnnouncement ==
  /\ preview.announced
  /\ preview' = LET view == [preview EXCEPT !.announced = FALSE]
                IN IF preview.hydrated THEN AttachToFrame(view) ELSE view
  /\ UNCHANGED <<server, tab, publish, ids, left>>

\* ... and so is a load event.
FrameLoaded ==
  /\ preview.load
  /\ preview' = LET view == [preview EXCEPT !.load = FALSE]
                IN IF preview.hydrated THEN OnLoad(view) ELSE view
  /\ UNCHANGED <<server, tab, publish, ids, left>>

\* A message that reaches the frame before it listens is lost; one that does shows its document.
FrameReceives ==
  /\ preview.wire # <<>>
  /\ preview' = [preview EXCEPT !.wire = Tail(@),
                                !.shows = IF preview.listening
                                          THEN Shown(Head(preview.wire), @) ELSE @]
  /\ UNCHANGED <<server, tab, publish, ids, left>>

FrameReloads ==
  /\ left.frame /\ preview.hydrated
  /\ Spend("loads")
  /\ preview' = [preview EXCEPT !.listening = FALSE, !.shows = Shown(server.document, Null),
                                !.load = TRUE]
  /\ UNCHANGED <<server, tab, publish, ids>>

(* -------------------------- editing and publishing --------------------- *)

Editing == tab.shown # Null /\ preview.hydrated

Disturbed == publish' = [publish EXCEPT !.calm = FALSE]

Edit ==
  /\ Editing
  /\ Spend("edits")
  /\ \E batches \in Offered(tab.shown, ids) : Render(Performed(tab, batches))
  /\ ids' = ids + 1
  /\ Disturbed
  /\ UNCHANGED server

\* An undo is an edit like another; its entry changes stacks even if the edit does not fit.
Undo ==
  /\ Editing
  /\ tab.undo # <<>>
  /\ Spend("undos")
  /\ LET entry == Last(tab.undo)
     IN Render([Edited(tab, entry.backward) EXCEPT !.undo = Front(@), !.redo = Append(@, entry)])
  /\ Disturbed
  /\ UNCHANGED <<server, ids>>

Redo ==
  /\ Editing
  /\ tab.redo # <<>>
  /\ Spend("undos")
  /\ LET entry == Last(tab.redo)
     IN Render([Edited(tab, entry.forward) EXCEPT !.redo = Front(@), !.undo = Append(@, entry)])
  /\ Disturbed
  /\ UNCHANGED <<server, ids>>

\* flush(), by a timer or a step change, when nothing is being saved.
Send ==
  /\ preview.hydrated
  /\ ~tab.saving
  /\ Queued(tab) # <<>>
  /\ tab' = Sending(tab)
  /\ UNCHANGED <<server, preview, publish, ids, left>>

\* Seeded fault: `if (this.saving) return;`
Awaiting_Returns == "posting"

\* Where the flush that a publication awaits stands as it finds a save running.
Awaiting == "waiting"

\* The save a publication waited for has ended: it sends what is left, exactly once.
Resume(t, calm) ==
  IF publish.at = "waiting" /\ Queued(t) # <<>>
  THEN Render(Sending(t)) /\ publish' = [at |-> "sending", calm |-> publish.calm /\ calm]
  ELSE /\ Render(t)
       /\ publish' = [at |-> IF publish.at \in {"waiting", "sending"} THEN "posting" ELSE publish.at,
                      calm |-> publish.calm /\ calm]

\* updateDraftDocument accepts the batch; the document it makes is not parsed.
Saved ==
  LET document == IF ValidatePatch(tab.inFlight) THEN ApplyPatch(server.document, tab.inFlight)
                  ELSE Refused
  IN IF server.version = tab.version THEN document ELSE Refused

Accepted == server' = [server EXCEPT !.document = Saved, !.version = @ + 1]

AnswerSaved ==
  /\ tab.saving
  /\ Saved # Refused
  /\ Accepted
  /\ Resume(Acknowledged(tab), TRUE)
  /\ UNCHANGED <<ids, left>>

Rebases == Contended(tab) = {} /\ ApplyPatch(server.document, tab.inFlight) # Refused

AnswerConflict ==
  /\ tab.saving
  /\ ValidatePatch(tab.inFlight)
  /\ server.version # tab.version
  /\ Resume(IF Rebases THEN Rebased(tab) ELSE Asking(tab), FALSE)
  /\ UNCHANGED <<server, ids, left>>

\* The patch is too long, or does not fit the document it was made for.
AnswerRejected ==
  /\ tab.saving
  /\ ValidatePatch(tab.inFlight) => server.version = tab.version /\ Saved = Refused
  /\ Resume(Dropped(tab), FALSE)
  /\ UNCHANGED <<server, ids, left>>

\* The request is lost, or it is served and its answer is: the batch stays in flight.
LoseAnswer ==
  /\ tab.saving
  /\ Spend("losses")
  /\ \/ UNCHANGED server
     \/ Saved # Refused /\ Accepted
  /\ Resume([tab EXCEPT !.saving = FALSE], FALSE)
  /\ UNCHANGED ids

Resolve ==
  /\ tab.prompt # NoPrompt
  /\ Render(KeptMine(tab)) \/ Render(TookTheirs(tab))
  /\ Disturbed
  /\ UNCHANGED <<server, ids, left>>

\* The other device, where the same document is open, edits and saves.
OtherSaves ==
  /\ ParseDraftDocument(server.document)
  /\ Spend("others")
  /\ \E batches \in Offered(server.document, ids) :
       server' = [server EXCEPT !.document = Performed(Opened(@, 1), batches).document,
                                !.version = @ + 1]
  /\ ids' = ids + 1
  /\ Disturbed
  /\ UNCHANGED <<tab, preview>>

\* The page is opened again, with nothing queued (with something queued: Autosave's restore).
Reload ==
  /\ publish.at = "idle"
  /\ Queued(tab) = <<>>
  /\ Spend("loads")
  /\ tab' = Opened(server.document, server.version)
  /\ preview' = IF left.frame THEN Loading(server.document) ELSE Hidden
  /\ UNCHANGED <<server, publish, ids>>

\* What is shown and queued here is all there is: the case PublishTakesTheScreen is about.
UpToDate == server.version = tab.version /\ ~tab.astray

\* The button is there when nothing required is missing on the screen.
Press ==
  /\ Editing /\ CanPublish(tab.shown)
  /\ publish.at = "idle"
  /\ Spend("presses")
  /\ IF ~tab.saving /\ Queued(tab) # <<>>
     THEN tab' = Sending(tab) /\ publish' = [at |-> "sending", calm |-> UpToDate]
     ELSE /\ publish' = [at |-> IF tab.saving THEN Awaiting ELSE "posting", calm |-> UpToDate]
          /\ UNCHANGED tab
  /\ UNCHANGED <<server, preview, ids>>

\* publishInvitation takes the draft as the server has it.
Post ==
  /\ publish.at = "posting"
  /\ publish' = NotPublishing
  /\ server' = IF ParseDraftDocument(server.document) /\ ResolveDocument(server.document) # Refused
               THEN [server EXCEPT !.published = ResolveDocument(server.document)] ELSE server
  /\ UNCHANGED <<tab, preview, ids, left>>

Next ==
  \/ Hydrate \/ FrameListens \/ ReceiveAnnouncement \/ FrameLoaded
  \/ FrameReceives \/ FrameReloads
  \/ Edit \/ Undo \/ Redo \/ Send
  \/ AnswerSaved \/ AnswerConflict \/ AnswerRejected \/ LoseAnswer
  \/ Resolve \/ OtherSaves \/ Reload \/ Press \/ Post

Spec == Init /\ [][Next]_vars

(* ------------------------------- properties ---------------------------- *)

\* An undo gives back exactly the document its edit was made on, and a redo the one it made,
\* through any run of edits, undos and redos and however they were coalesced and saved -
\* until a conflict puts another document in place (history.ts:98-149).
UndoIsTimeTravel ==
  [][~tab.moved =>
       /\ Undo => tab'.document = Last(tab.undo).before
       /\ Redo => tab'.document = Last(tab.redo).after]_vars

\* What is queued turns the document last acknowledged into the one edited here, so a save
\* stores what was made: coalescing may not lose or move an operation (autosave-engine.ts:460).
\* Not so after a rebase in mid-typing, a replay that did not fit, or a rejection.
QueueRebuildsDocument ==
  ~tab.astray => ApplyPatch(tab.base, Queued(tab)) = tab.document

\* Once either signal of the frame has reached the builder, and no message is on its way, a
\* listening frame shows the document on the screen, in whatever order the frame's
\* announcement, its load event, its reloads and the edits came (Builder.tsx:122-160).
FrameCatchesUp ==
  /\ preview.heard /\ preview.listening
  /\ preview.wire = <<>> /\ ~preview.announced
  /\ tab.shown # Null
  => preview.shows = tab.shown

\* When the screen says an invitation is ready its publication is not refused, and a guest
\* is drawn what the preview draws, but for the events that still lack a title
\* (resolve-document.ts:44-108 against draft-document.ts:321-370).
ReadyMeansPublishable ==
  tab.shown # Null /\ CanPublish(tab.shown) =>
    LET published == ResolveDocument(tab.shown)
        previewed == ToPreviewSnapshot([tab.shown EXCEPT !.events = Titled(@)])
    IN published # Refused /\ Drawn(published) = Drawn(previewed)

\* A publication whose flush met no failure or conflict, and nothing typed meanwhile, takes
\* what the screen showed when its button was pressed, whatever was being saved then
\* (autosave-engine.ts:190-239, PublishPanel.tsx:155-160).
PublishTakesTheScreen ==
  [][publish.calm /\ server'.published # server.published =>
       server'.published = ResolveDocument(tab.shown)]_vars

=============================================================================
