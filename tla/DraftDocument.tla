---------------------------- MODULE DraftDocument ----------------------------
(***************************************************************************)
(* The document the builder edits: its patches                             *)
(* (core/src/invitation/domain/document-patch.ts), the schema a draft must *)
(* fit to be opened (draft-document.ts), what it lacks to be published,    *)
(* and what the preview and a publication make of it (toPreviewSnapshot,   *)
(* resolve-document.ts, published-snapshot.ts and the renderer's           *)
(* resolve-sections.ts).                                                   *)
(*                                                                         *)
(* A field holds one of a few values that these functions tell apart;      *)
(* fields they treat alike are represented by one.  A JSON pointer is a    *)
(* sequence of keys and positions, which start at 1; End is the pointer's  *)
(* "-", the place after the last element.                                  *)
(***************************************************************************)
EXTENDS Integers, FiniteSets, SequencesExt

CONSTANTS
  Null,           \* JSON null
  Missing,        \* what a pointer to nothing reads
  Refused,        \* the result of a patch that does not fit, or of a refused document
  MaxEvents,      \* limits of the schema
  MaxGallery,
  MaxOperations   \* MAX_PATCH_OPERATIONS

ASSUME LimitsAssumption == {MaxEvents, MaxGallery, MaxOperations} \subseteq Nat

(* ------------------------------- documents ----------------------------- *)

Names == {"groomName", "brideName"}

Blank(text) == text \in {"", "spaces"}

\* What may be typed or picked in the control of each field.
Typed == [groomName   |-> {"", "spaces", "name"},
          brideName   |-> {"", "spaces", "name"},
          message     |-> {"", "text"},   \* as the short name, the venue, its address
          weddingDate |-> {"", "day"},              \* as its times
          mapsUrl     |-> {"", "half", "link"},     \* "half" is not a URL yet
          latitude    |-> {"", "inside", "outside"},
          timezone    |-> {"here", "there"},
          primary     |-> {"gold", "sage"},         \* as every choice of the theme
          accent      |-> {"gold", "sage"},
          cover       |-> {"", "photo"},
          music       |-> {""}]                     \* a track can only be taken away here

Fields == DOMAIN Typed \cup {"weddingTimezone"}

\* An event's date is a string, never null; sortOrder and id are what they are in the code.
NewEvent(id, date, sortOrder) == [id |-> id, title |-> "", date |-> date, sortOrder |-> sortOrder]

\* All that is told apart of the values of fields.
Text == {"track", "title"} \cup UNION {Typed[f] : f \in DOMAIN Typed}

\* What a field may hold: names as they were typed, the rest something or nothing.
Values(field) == IF field \in Names THEN Text ELSE { text \in Text : ~Blank(text) } \cup {Null}

DraftContent == { content \in [Fields -> Text \cup {Null}] :
                    \A field \in Fields : content[field] \in Values(field) }
DraftEvent   == [id : Nat, title : Text, date : Text, sortOrder : Nat]
DraftSection == [id : Nat, enabled : BOOLEAN, order : Nat, locked : BOOLEAN]

Document == [content : DraftContent, events : Seq(DraftEvent), gallery : Seq(Nat),
             sections : Seq(DraftSection)]

\* null, and what stands for nothing or for a refusal, are none of a document's values.
ASSUME NullAssumption ==
  \A none \in {Null, Missing, Refused} :
    /\ none \notin Text /\ none \notin Document
    /\ none \notin DraftContent /\ none \notin DraftEvent /\ none \notin DraftSection
    /\ none \notin Seq(DraftEvent) /\ none \notin Seq(DraftSection) /\ none \notin Seq(Nat)

\* createDraftDocument: everything empty, over the sections of the template.
CreateDraftDocument(sections) ==
  [content  |-> [f \in Fields |-> CASE f \in Names -> ""
                                    [] f \in {"timezone", "weddingTimezone"} -> "here"
                                    [] f \in {"primary", "accent"} -> "gold"
                                    [] OTHER -> Null],
   events   |-> <<>>,
   gallery  |-> <<>>,
   sections |-> sections]

(* --------------------------- pointers and patches ---------------------- *)

End == 0

Lists == {<<"events">>, <<"gallery">>, <<"sections">>}

ReplaceOp(path, value) == [op |-> "replace", path |-> path, value |-> value]
AddOp(path, value)     == [op |-> "add", path |-> path, value |-> value]
RemoveOp(path)         == [op |-> "remove", path |-> path, value |-> Null]

\* One key or position further; and a pointer, which is read key by key.
Member(at, key) == IF at # Missing /\ key \in DOMAIN at THEN at[key] ELSE Missing

ReadPointer(document, path) ==
  LET at[n \in 0..Len(path)] == IF n = 0 THEN document ELSE Member(at[n - 1], path[n])
  IN at[Len(path)]

\* The document with this at a path of at most two keys that leads somewhere.
Put(document, path, value) ==
  IF Len(path) = 1 THEN [document EXCEPT ![path[1]] = value]
                   ELSE [document EXCEPT ![path[1]][path[2]] = value]

\* A position of a list: `add` may come after the last element, the others may not.
OnList(op, list, position) ==
  CASE op.op = "add" /\ position \in 1..Len(list) + 1 -> InsertAt(list, position, op.value)
    [] op.op = "remove" /\ position \in 1..Len(list)  -> RemoveAt(list, position)
    [] op.op = "replace" /\ position \in 1..Len(list) -> [list EXCEPT ![position] = op.value]
    [] OTHER -> Refused

\* A key of an object: `add` overwrites, the others need the key.  The builder only replaces.
OnRecord(op, record, key) ==
  IF op.op = "replace" /\ key \in DOMAIN record THEN [record EXCEPT ![key] = op.value] ELSE Refused

ApplyOne(document, op) ==
  LET parent == Front(op.path)
      key    == Last(op.path)
      at     == ReadPointer(document, parent)
      result == IF at = Missing THEN Refused
                ELSE IF parent \in Lists THEN OnList(op, at, IF key = End THEN Len(at) + 1 ELSE key)
                ELSE OnRecord(op, at, key)
  IN IF result = Refused THEN Refused ELSE Put(document, parent, result)

\* applyPatch: all of the operations or none.
ApplyPatch(document, operations) ==
  LET after[n \in 0..Len(operations)] ==
        IF n = 0 THEN document
        ELSE IF after[n - 1] = Refused THEN Refused ELSE ApplyOne(after[n - 1], operations[n])
  IN after[Len(operations)]

\* validatePatch, of a patch the builder made: its paths are allowed, its values small.
ValidatePatch(operations) == Len(operations) \in 1..MaxOperations

(* --------------------------- schema and readiness ---------------------- *)

\* parseDraftDocument: a draft may be empty, but not malformed.
ParseDraftDocument(document) ==
  /\ document.content.mapsUrl # "half"
  /\ document.content.latitude # "outside"
  /\ Len(document.events) <= MaxEvents
  /\ \A i \in DOMAIN document.events : document.events[i].date # ""
  /\ Len(document.gallery) <= MaxGallery

\* What publishReadiness calls required.
CanPublish(document) ==
  /\ \A name \in Names : ~Blank(document.content[name])
  /\ document.content.weddingDate # Null

(* -------------------------- filters and sorts -------------------------- *)

\* The elements of a list at some of its positions, in some order of these.
Arranged(list, positions, order) ==
  [k \in 1..Cardinality(positions) |->
     list[CHOOSE i \in positions : Cardinality({ j \in positions : <<j, i>> \in order }) = k - 1]]

Pairs(list) == (DOMAIN list) \X (DOMAIN list)

\* Array.filter
Filtered(list, Test(_)) ==
  Arranged(list, { i \in DOMAIN list : Test(list[i]) }, { p \in Pairs(list) : p[1] < p[2] })

\* Array.sort, which leaves in their order what the comparison does not tell apart.
Sorted(list, Less(_, _)) ==
  Arranged(list, DOMAIN list,
           { p \in Pairs(list) : \/ Less(list[p[1]], list[p[2]])
                                 \/ p[1] < p[2] /\ ~Less(list[p[2]], list[p[1]]) })

(* ------------------------------- snapshots ----------------------------- *)

\* createSnapshot: the schema of a publication is that of a draft, with no gap.
CreateSnapshot(snapshot) ==
  IF /\ ParseDraftDocument(snapshot)
     /\ \A name \in Names : ~Blank(snapshot.content[name])
     /\ snapshot.content.weddingDate # Null
     /\ \A i \in DOMAIN snapshot.events : ~Blank(snapshot.events[i].title)
  THEN snapshot ELSE Refused

\* Trimmed: the blank becomes empty, and then the placeholder.
Filled(value, placeholder) == IF value = Null \/ Blank(value) THEN placeholder ELSE value

Named(event) == [event EXCEPT !.title = Filled(event.title, "placeholder")]

ToPreviewSnapshot(document) ==
  CreateSnapshot(
    [document EXCEPT
       !.content = [f \in Fields |->
                      IF f \in Names \cup {"weddingDate"} THEN Filled(@[f], "placeholder") ELSE @[f]],
       !.events = [i \in DOMAIN @ |-> Named(@[i])]])

Enabled(sections) == Filtered(sections, LAMBDA section : section.enabled)

BySortOrder(events) == Sorted(events, LAMBDA a, b : a.sortOrder < b.sortOrder)

\* An untitled event is an unfinished one.
Titled(events) == Filtered(events, LAMBDA event : ~Blank(event.title))

\* Seeded fault: an unfinished event is published as it is.
ResolveDocument_BlankRows(document) ==
  IF ~CanPublish(document) THEN Refused
  ELSE CreateSnapshot(
         [document EXCEPT !.sections = Enabled(@), !.events = BySortOrder(@)])

\* resolveDocument: readiness first, then what the owner left on, in its order.
ResolveDocument(document) ==
  IF ~CanPublish(document) THEN Refused
  ELSE CreateSnapshot(
         [document EXCEPT !.sections = Enabled(@), !.events = Titled(BySortOrder(@))])

\* What the renderer sorts by.
SectionsInOrder(sections) ==
  Sorted(sections, LAMBDA a, b : a.order < b.order \/ (a.order = b.order /\ a.id < b.id))

EventsInOrder(events) ==
  Sorted(events, LAMBDA a, b : \/ a.sortOrder < b.sortOrder
                               \/ a.sortOrder = b.sortOrder /\ a.id < b.id)

\* enabledSections, and the events in their order: what the renderer draws.
Drawn(snapshot) ==
  [snapshot EXCEPT !.sections = SectionsInOrder(Enabled(@)), !.events = EventsInOrder(@)]

=============================================================================
