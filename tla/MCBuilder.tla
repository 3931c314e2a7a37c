------------------------------ MODULE MCBuilder ------------------------------
(* Small instances of Builder for TLC. *)
EXTENDS Builder

Section(id, locked) == [id |-> id, enabled |-> TRUE, order |-> id, locked |-> locked]

New == CreateDraftDocument(<<Section(1, TRUE), Section(2, FALSE), Section(3, FALSE)>>)

\* A draft on which much was done.
Advanced ==
  [New EXCEPT !.content = [@ EXCEPT !.groomName = "name", !.brideName = "name", !.weddingDate = "day",
                                      !.music = "track"],
              !.events = << [NewEvent(1, "day", 0) EXCEPT !.title = "title"], NewEvent(2, "day", 1) >>,
              !.gallery = <<3>>]

MCDrafts == {New, Advanced}

Nothing == [controls |-> {}, edits |-> 0, undos |-> 0, others |-> 0, losses |-> 0, loads |-> 0,
            presses |-> 0, frame |-> FALSE]

\* Lists are edited, undone and redone, and saved at every point of it.
OnLists == [Nothing EXCEPT !.controls = {"events", "gallery"}, !.edits = 3, !.undos = 1]

\* Every other control, with undos.
OnFields == [Nothing EXCEPT !.controls = DOMAIN Typed \cup {"sections"}, !.edits = 2, !.undos = 2]

\* Another device edits the same draft, and answers are lost.
Apart == [Nothing EXCEPT !.controls = {"groomName", "mapsUrl", "events", "gallery"}, !.edits = 2,
                         !.others = 1, !.losses = 1]

\* The invitation is published in the middle of it.
Publishing == [Nothing EXCEPT !.controls = {"groomName", "gallery"}, !.edits = 2, !.undos = 1,
                              !.others = 1, !.losses = 1, !.presses = 1]

\* The preview follows, through reloads.
Following == [Nothing EXCEPT !.controls = {"groomName", "latitude"}, !.edits = 2,
                             !.loads = 1, !.frame = TRUE]

MCSittings == {OnLists, OnFields, Apart, Publishing, Following}

=============================================================================
