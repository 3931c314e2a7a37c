----------------------------- MODULE GuestProofs -----------------------------
(***************************************************************************)
(* What a guest's visit leaves behind.                                     *)
(*                                                                         *)
(* Proofs about Rsvp, for any number of guests and requests, and about the *)
(* pages that call it (GuestPage): that with the route they are a way to   *)
(* Rsvp and nothing else, and what a guest is told.  Then about Analytics, *)
(* for any number of views, visitors, invitations and flush runs, and any  *)
(* sizes of batch and buffer.                                              *)
(***************************************************************************)
EXTENDS GuestPage, Analytics, FiniteSetTheorems, TLAPS

(* ---------------------------- counting answers ------------------------- *)

\* The instance's cardinality is the library's.
LEMMA SameCardinality == \A S : Book!Cardinality(S) = Cardinality(S)
  BY DEF Book!Cardinality, Cardinality

\* What the answer a adds to each total.
Part(a) == [yes |-> IF a.given /\ a.attending THEN 1 ELSE 0,
            no |-> IF a.given /\ ~a.attending THEN 1 ELSE 0,
            guests |-> IF a.given /\ a.attending THEN a.party ELSE 0]

\* The people of guest g's party, and everybody else.
Party(b, g) == {g} \X (1..Part(b[g]).guests)

Others(b, g) == { s \in Book!Seats(b) : s[1] # g }

\* One guest's seats are as many as the party.
LEMMA RowOfSeats ==
  ASSUME NEW x, NEW n \in Nat
  PROVE  IsFiniteSet({x} \X (1..n)) /\ Cardinality({x} \X (1..n)) = n
<1>1. IsFiniteSet({x}) /\ Cardinality({x}) = 1
  BY FS_Singleton
<1>2. IsFiniteSet(1..n) /\ Cardinality(1..n) = n
  BY FS_Interval
<1>3. /\ IsFiniteSet({x} \X (1..n))
      /\ Cardinality({x} \X (1..n)) = Cardinality({x}) * Cardinality(1..n)
  BY <1>1, <1>2, FS_Product, Zenon
<1> QED BY <1>1, <1>2, <1>3

\* The seats of a book are finitely many, and those of one guest are the party's size.
LEMMA SeatsSplit ==
  ASSUME NEW b \in [Guests -> Book!Answer], NEW g \in Guests
  PROVE  /\ IsFiniteSet(Others(b, g))
         /\ Cardinality(Book!Seats(b)) = Cardinality(Others(b, g)) + Part(b[g]).guests
<1> DEFINE n == Part(b[g]).guests
<1>1. b[g] \in Book!Answer
  OBVIOUS
<1>2. n \in 0..PartyLimit
  BY <1>1, RsvpAssumption DEF Part, Book!Answer
<1>3. IsFiniteSet(Guests \X (1..PartyLimit))
  <2>1. IsFiniteSet(1..PartyLimit)
    BY FS_Interval, RsvpAssumption
  <2> QED BY <2>1, FS_Product, RsvpAssumption
<1>4. IsFiniteSet(Others(b, g))
  <2>1. Others(b, g) \in SUBSET (Guests \X (1..PartyLimit))
    BY DEF Others, Book!Seats
  <2> QED BY <1>3, <2>1, FS_Subset
<1>5. IsFiniteSet(Party(b, g)) /\ Cardinality(Party(b, g)) = n
  <2>1. Party(b, g) = {g} \X (1..n)
    BY DEF Party
  <2>2. n \in Nat
    BY <1>2, RsvpAssumption
  <2>3. /\ IsFiniteSet({g} \X (1..n))
        /\ Cardinality({g} \X (1..n)) = n
    BY <2>2, RowOfSeats, Zenon
  <2> QED BY <2>1, <2>3
<1>6. Book!Seats(b) = Others(b, g) \cup Party(b, g)
  <2>1. ASSUME NEW s \in Party(b, g) PROVE s \in Book!Seats(b)
    <3>1. s[1] = g /\ s[2] \in 1..n /\ s = <<s[1], s[2]>>
      BY <2>1 DEF Party
    <3>2. n # 0
      BY <3>1, <1>2, RsvpAssumption
    <3>3. b[g].given /\ b[g].attending /\ n = b[g].party
      BY <3>2 DEF Part
    <3> QED BY <3>1, <3>3, <1>2, RsvpAssumption DEF Book!Seats, Book!Coming
  <2>2. ASSUME NEW s \in Book!Seats(b), s \notin Others(b, g) PROVE s \in Party(b, g)
    <3>1. s \in Guests \X (1..PartyLimit) /\ s[1] = g
      BY <2>2 DEF Others, Book!Seats
    <3>2. b[g].given /\ b[g].attending /\ s[2] <= b[g].party
      BY <2>2, <3>1 DEF Book!Seats, Book!Coming
    <3>3. s[2] \in 1..n
      BY <3>1, <3>2, <1>1, RsvpAssumption DEF Part, Book!Answer
    <3> QED BY <3>1, <3>3 DEF Party
  <2> QED BY <2>1, <2>2 DEF Others
<1>7. Others(b, g) \cap Party(b, g) = {}
  BY DEF Others, Party
<1>8. Cardinality(Others(b, g)) \in Nat
  BY <1>4, FS_CardinalityType
<1>9. Cardinality(Book!Seats(b)) = Cardinality(Others(b, g)) + Cardinality(Party(b, g)) - Cardinality({})
  BY <1>4, <1>5, <1>6, <1>7, FS_Union
<1> QED BY <1>2, <1>4, <1>5, <1>8, <1>9, FS_EmptySet, RsvpAssumption

\* Changing one answer moves each total by the difference of the two answers.
LEMMA RecountMoves ==
  ASSUME NEW b \in [Guests -> Book!Answer], NEW g \in Guests, NEW a \in Book!Answer
  PROVE  LET old == Book!Recount(b)
             new == Book!Recount([b EXCEPT ![g] = a])
         IN  /\ old.yes \in Nat /\ old.no \in Nat /\ old.guests \in Nat
             /\ new = [yes |-> old.yes + Part(a).yes - Part(b[g]).yes,
                       no |-> old.no + Part(a).no - Part(b[g]).no,
                       guests |-> old.guests + Part(a).guests - Part(b[g]).guests]
<1> DEFINE c == [b EXCEPT ![g] = a]
<1>1. c \in [Guests -> Book!Answer] /\ c[g] = a /\ \A h \in Guests : h # g => c[h] = b[h]
  OBVIOUS
<1>2. b[g] \in Book!Answer
  OBVIOUS
<1>3. IsFiniteSet(Book!Coming(b)) /\ IsFiniteSet(Book!Declining(b))
  BY FS_Subset, RsvpAssumption, Book!Coming(b) \in SUBSET Guests,
     Book!Declining(b) \in SUBSET Guests DEF Book!Coming, Book!Declining
<1>4. Cardinality(Book!Coming(b)) \in Nat /\ Cardinality(Book!Declining(b)) \in Nat
  BY <1>3, FS_CardinalityType
<1> HIDE DEF c
<1>5. Cardinality(Book!Coming(c)) = Cardinality(Book!Coming(b)) + Part(a).yes - Part(b[g]).yes
  <2>1. CASE a.given /\ a.attending
    <3>1. Book!Coming(c) = Book!Coming(b) \cup {g}
      BY <1>1, <2>1 DEF Book!Coming
    <3>2. g \in Book!Coming(b) <=> Part(b[g]).yes = 1
      BY <1>2 DEF Book!Coming, Part
    <3>3. Part(a).yes = 1 /\ Part(b[g]).yes \in {0, 1}
      BY <2>1 DEF Part
    <3>4. Cardinality(Book!Coming(b) \cup {g})
            = IF g \in Book!Coming(b) THEN Cardinality(Book!Coming(b))
              ELSE Cardinality(Book!Coming(b)) + 1
      BY <1>3, FS_AddElement
    <3> QED BY <1>4, <3>1, <3>2, <3>3, <3>4
  <2>2. CASE ~(a.given /\ a.attending)
    <3>1. Book!Coming(c) = Book!Coming(b) \ {g}
      BY <1>1, <2>2 DEF Book!Coming
    <3>2. g \in Book!Coming(b) <=> Part(b[g]).yes = 1
      BY <1>2 DEF Book!Coming, Part
    <3>3. Part(a).yes = 0 /\ Part(b[g]).yes \in {0, 1}
      BY <2>2 DEF Part
    <3>4. Cardinality(Book!Coming(b) \ {g})
            = IF g \in Book!Coming(b) THEN Cardinality(Book!Coming(b)) - 1
              ELSE Cardinality(Book!Coming(b))
      BY <1>3, FS_RemoveElement
    <3> QED BY <1>4, <3>1, <3>2, <3>3, <3>4
  <2> QED BY <2>1, <2>2
<1>6. Cardinality(Book!Declining(c)) = Cardinality(Book!Declining(b)) + Part(a).no - Part(b[g]).no
  <2>1. CASE a.given /\ ~a.attending
    <3>1. Book!Declining(c) = Book!Declining(b) \cup {g}
      BY <1>1, <2>1 DEF Book!Declining
    <3>2. g \in Book!Declining(b) <=> Part(b[g]).no = 1
      BY <1>2 DEF Book!Declining, Part
    <3>3. Part(a).no = 1 /\ Part(b[g]).no \in {0, 1}
      BY <2>1 DEF Part
    <3>4. Cardinality(Book!Declining(b) \cup {g})
            = IF g \in Book!Declining(b) THEN Cardinality(Book!Declining(b))
              ELSE Cardinality(Book!Declining(b)) + 1
      BY <1>3, FS_AddElement
    <3> QED BY <1>4, <3>1, <3>2, <3>3, <3>4
  <2>2. CASE ~(a.given /\ ~a.attending)
    <3>1. Book!Declining(c) = Book!Declining(b) \ {g}
      BY <1>1, <2>2 DEF Book!Declining
    <3>2. g \in Book!Declining(b) <=> Part(b[g]).no = 1
      BY <1>2 DEF Book!Declining, Part
    <3>3. Part(a).no = 0 /\ Part(b[g]).no \in {0, 1}
      BY <2>2 DEF Part
    <3>4. Cardinality(Book!Declining(b) \ {g})
            = IF g \in Book!Declining(b) THEN Cardinality(Book!Declining(b)) - 1
              ELSE Cardinality(Book!Declining(b))
      BY <1>3, FS_RemoveElement
    <3> QED BY <1>4, <3>1, <3>2, <3>3, <3>4
  <2> QED BY <2>1, <2>2
<1>7. Others(c, g) = Others(b, g)
  BY <1>1 DEF Others, Book!Seats, Book!Coming
<1>8. /\ IsFiniteSet(Others(b, g))
      /\ Cardinality(Book!Seats(b)) = Cardinality(Others(b, g)) + Part(b[g]).guests
      /\ Cardinality(Book!Seats(c)) = Cardinality(Others(c, g)) + Part(c[g]).guests
  BY <1>1, SeatsSplit
<1>9. Part(a).guests \in Nat /\ Part(b[g]).guests \in Nat
  BY <1>2, RsvpAssumption DEF Part, Book!Answer
<1>10. Cardinality(Others(b, g)) \in Nat
  BY <1>8, FS_CardinalityType
<1>11. /\ Cardinality(Book!Seats(b)) \in Nat
       /\ Cardinality(Book!Seats(c))
            = Cardinality(Book!Seats(b)) + Part(a).guests - Part(b[g]).guests
  BY <1>1, <1>7, <1>8, <1>9, <1>10
<1> QED BY <1>4, <1>5, <1>6, <1>11, SameCardinality DEF Book!Recount, c

\* Nobody has answered: nothing is counted.
LEMMA RecountOfNothing ==
  Book!Recount([g \in Guests |-> Book!Blank]) = [yes |-> 0, no |-> 0, guests |-> 0]
<1> DEFINE b == [g \in Guests |-> Book!Blank]
<1>1. Book!Coming(b) = {} /\ Book!Declining(b) = {}
  BY DEF Book!Coming, Book!Declining, Book!Blank
<1>2. Book!Seats(b) = {}
  BY <1>1 DEF Book!Seats
<1> QED BY <1>1, <1>2, FS_EmptySet, SameCardinality DEF Book!Recount

(* ------------------------ the inductive invariant ---------------------- *)

\* What request q relies on between its steps, when its record is r, the lock is held by l
\* and the rows are kept: under the lock, what was read is still there.
Ready(q, r, l, kept) ==
  /\ r.pc \in {"read", "write"} => l = q
  /\ r.pc \in {"lock", "read", "write"} => r.kind \in AllKinds
  /\ r.pc \in {"lock", "read", "write"} /\ r.kind = "submit" => r.guest \in Guests
  /\ r.pc \in {"lock", "read", "write"} /\ r.kind = "edit" => r.token \in Requests
  /\ r.pc = "write" => r.guest \in Guests /\ r.prev = kept[r.guest]
  /\ r.pc = "write" /\ r.kind = "edit" => r.prev.token = r.token
  /\ r.pc = "write" /\ r.kind = "delete" => r.prev.id = r.id

RequestsReady == \A q \in Requests : Ready(q, req[q], lock, reply)

\* A row has an id and a token, or there is no row.
Whole(r) == r.id = None \/ r.token = None => r = NoReply

RowsWhole == \A g \in Guests : Whole(reply[g])

Shape == TypeOK /\ RequestsReady /\ RowsWhole

Answers == [g \in Guests |-> AnswerOf(reply[g])]

CountersRight == counters = Book!Recount(Answers)

Inv == Shape /\ CountersRight

\* One request takes a step; the lock and the rows change only by its own right.
LEMMA OneRequestSteps ==
  ASSUME TypeOK, RequestsReady, NEW q \in Requests, NEW r \in Request,
         req' = [req EXCEPT ![q] = r],
         lock' = lock \/ lock \in {None, q},
         reply' = reply \/ lock = q,
         Ready(q, r, lock', reply')
  PROVE  req' \in [Requests -> Request] /\ RequestsReady'
<1>1. req' \in [Requests -> Request]
  BY DEF TypeOK
<1>2. ASSUME NEW p \in Requests PROVE Ready(p, req'[p], lock', reply')
  <2>1. CASE p = q
    BY <2>1 DEF TypeOK
  <2>2. CASE p # q
    <3>1. req'[p] = req[p] /\ Ready(p, req[p], lock, reply)
      BY <2>2 DEF TypeOK, RequestsReady
    <3>2. CASE req[p].pc \in {"read", "write"}
      <4>1. lock = p /\ lock # q /\ lock # None
        BY <2>2, <3>1, <3>2, RsvpAssumption DEF Ready
      <4> QED BY <3>1, <4>1
    <3>3. CASE req[p].pc \notin {"read", "write"}
      BY <3>1, <3>3 DEF Ready
    <3> QED BY <3>2, <3>3
  <2> QED BY <2>1, <2>2
<1> QED BY <1>1, <1>2 DEF RequestsReady

\* A commit measured from the row it replaces keeps the counters what a recount gives.
LEMMA CommitRecounts ==
  ASSUME TypeOK, RowsWhole, CountersRight, NEW g \in Guests, NEW r \in Reply, Whole(r),
         reply' = [reply EXCEPT ![g] = r],
         Move(reply[g], r)
  PROVE  /\ reply' \in [Guests -> Reply] /\ counters' \in Counters /\ RowsWhole'
         /\ AnswerOf(r) \in Book!Answer
         /\ Book!Enter(g, AnswerOf(r))
         /\ CountersRight'
<1>1. reply' \in [Guests -> Reply] /\ RowsWhole'
  BY DEF TypeOK, RowsWhole
<1>2. Answers \in [Guests -> Book!Answer] /\ AnswerOf(r) \in Book!Answer
  BY DEF TypeOK, Answers, AnswerOf, Reply, Book!Answer
<1>3. Answers' = [Answers EXCEPT ![g] = AnswerOf(r)]
  BY DEF TypeOK, Answers
<1>4. Answers[g] = AnswerOf(reply[g])
  BY DEF Answers
<1>5. \A x \in Reply : Whole(x) => Share(x) = Part(AnswerOf(x))
  <2> SUFFICES ASSUME NEW x \in Reply, Whole(x) PROVE Share(x) = Part(AnswerOf(x))
    OBVIOUS
  <2>1. CASE x = NoReply
    <3>1. x.id = None /\ x.attending = FALSE
      BY <2>1 DEF NoReply
    <3> QED BY <3>1 DEF Share, Part, AnswerOf
  <2>2. CASE x.id # None
    <3>1. CASE x.attending = TRUE
      BY <2>2, <3>1 DEF Share, Part, AnswerOf
    <3>2. CASE x.attending = FALSE
      BY <2>2, <3>2 DEF Share, Part, AnswerOf
    <3> QED BY <3>1, <3>2 DEF Reply
  <2> QED BY <2>1, <2>2 DEF Whole
<1>6. reply[g] \in Reply /\ Whole(reply[g])
  BY DEF TypeOK, RowsWhole
<1>7. Share(reply[g]) = Part(Answers[g]) /\ Share(r) = Part(AnswerOf(r))
  BY <1>4, <1>5, <1>6
<1>8. /\ counters.yes \in Nat /\ counters.no \in Nat /\ counters.guests \in Nat
      /\ Book!Recount(Answers') =
           [yes |-> counters.yes + Part(AnswerOf(r)).yes - Part(Answers[g]).yes,
            no |-> counters.no + Part(AnswerOf(r)).no - Part(Answers[g]).no,
            guests |-> counters.guests + Part(AnswerOf(r)).guests - Part(Answers[g]).guests]
  BY <1>2, <1>3, RecountMoves DEF CountersRight
<1>9. counters' = Book!Recount(Answers')
  BY <1>7, <1>8 DEF Move
<1>10. counters' \in Counters
  <2>1. Answers' \in [Guests -> Book!Answer] /\ Answers'[g] \in Book!Answer
    BY <1>2, <1>3
  <2>2. /\ Book!Recount(Answers').yes \in Nat /\ Book!Recount(Answers').no \in Nat
        /\ Book!Recount(Answers').guests \in Nat
    BY <2>1, RecountMoves
  <2> QED BY <1>9, <2>2 DEF Counters, Book!Recount
<1> QED BY <1>1, <1>2, <1>3, <1>9, <1>10 DEF Book!Enter, CountersRight, TypeOK, Answers

(* -------------------------------- the steps ---------------------------- *)

LEMMA FreshTyped == NoReply \in Reply /\ Fresh \in Request
  BY RsvpAssumption DEF NoReply, Reply, Fresh, Request, AllKinds

\* A step that touches neither rows nor counters leaves the book as it is.
LEMMA QuietStep ==
  ASSUME Inv, UNCHANGED <<reply, counters>>, policy' \in Policies, clock' \in Nat,
         lock' \in Requests \cup {None}, req' \in [Requests -> Request], RequestsReady'
  PROVE  Inv' /\ UNCHANGED <<Answers, counters>>
<1>1. TypeOK' /\ RowsWhole' /\ Answers' = Answers
  BY DEF Inv, Shape, TypeOK, RowsWhole, Answers
<1> QED BY <1>1 DEF Inv, Shape, CountersRight

\* A step of one request that does not commit.
LEMMA WaitingStep ==
  ASSUME Inv, NEW q \in Requests, NEW r \in Request, req' = [req EXCEPT ![q] = r],
         UNCHANGED <<reply, counters, policy, clock>>,
         lock' = lock \/ (lock \in {None, q} /\ lock' \in {None, q}),
         Ready(q, r, lock', reply)
  PROVE  Inv' /\ UNCHANGED <<Answers, counters>>
<1>1. req' \in [Requests -> Request] /\ RequestsReady'
  <2>1. TypeOK /\ RequestsReady /\ reply' = reply
    BY DEF Inv, Shape
  <2>2. lock' = lock \/ lock \in {None, q}
    OBVIOUS
  <2>3. Ready(q, r, lock', reply')
    BY <2>1
  <2> QED BY <2>1, <2>2, <2>3, OneRequestSteps
<1>2. policy' \in Policies /\ clock' \in Nat /\ lock' \in Requests \cup {None}
  BY DEF Inv, Shape, TypeOK
<1> QED BY <1>1, <1>2, QuietStep

\* A step of one request that ends it without a commit.
LEMMA EndingStep ==
  ASSUME Inv, NEW q \in Requests, NEW o \in {"bad_token", "window_closed", "not_found", "aborted"},
         Finish(q, o), UNCHANGED <<reply, counters, policy, clock>>,
         lock' = lock \/ (lock = q /\ lock' = None)
  PROVE  Inv' /\ UNCHANGED <<Answers, counters>>
<1> DEFINE r == [Fresh EXCEPT !.kind = req[q].kind, !.pc = "done", !.id = req[q].id,
                              !.now = req[q].now, !.outcome = o]
<1>1. req[q] \in Request
  BY DEF Inv, Shape, TypeOK
<1>2. r \in Request /\ r.pc = "done"
  BY <1>1, FreshTyped DEF Fresh, Request
<1>3. req' = [req EXCEPT ![q] = r]
  BY DEF Finish
<1>4. Ready(q, r, lock', reply)
  BY <1>2 DEF Ready
<1> HIDE DEF r
<1> QED BY <1>2, <1>3, <1>4, WaitingStep

\* A commit: the row read under the lock is replaced, measured from itself.
LEMMA CommitStep ==
  ASSUME Inv, NEW q \in Requests, NEW g \in Guests, NEW r \in Request, NEW row \in Reply,
         lock = q, lock' = None, r.pc = "done", Whole(row),
         req' = [req EXCEPT ![q] = r], reply' = [reply EXCEPT ![g] = row],
         Move(reply[g], row), UNCHANGED <<policy, clock>>
  PROVE  Inv' /\ Book!Next
<1>1. req' \in [Requests -> Request] /\ RequestsReady'
  <2>1. Ready(q, r, lock', reply')
    BY DEF Ready
  <2> QED BY <2>1, OneRequestSteps DEF Inv, Shape
<1>2. /\ reply' \in [Guests -> Reply] /\ counters' \in Counters /\ RowsWhole'
      /\ AnswerOf(row) \in Book!Answer
      /\ Book!Enter(g, AnswerOf(row))
      /\ CountersRight'
  BY CommitRecounts DEF Inv, Shape
<1>3. policy' \in Policies /\ clock' \in Nat /\ lock' \in Requests \cup {None}
  BY DEF Inv, Shape, TypeOK
<1> QED BY <1>1, <1>2, <1>3 DEF Inv, Shape, TypeOK, Book!Next

LEMMA InvInit == Init => Inv
<1> SUFFICES ASSUME Init PROVE Inv
  OBVIOUS
<1>1. TypeOK
  BY FreshTyped, RsvpAssumption DEF Init, TypeOK, Counters
<1>2. RowsWhole
  BY DEF Init, RowsWhole, Whole
<1>3. RequestsReady
  BY DEF Init, RequestsReady, Ready, Fresh
<1>4. CountersRight
  <2>1. Answers = [g \in Guests |-> Book!Blank]
    BY DEF Init, Answers, AnswerOf, NoReply, Book!Blank
  <2> QED BY <2>1, RecountOfNothing DEF Init, CountersRight
<1> QED BY <1>1, <1>2, <1>3, <1>4 DEF Inv, Shape

LEMMA StartStep ==
  ASSUME Inv, NEW q \in Requests, Start(q)
  PROVE  Inv' /\ UNCHANGED <<Answers, counters>>
<1>0. /\ clock \in Nat /\ req[q] = Fresh
      /\ reply \in [Guests -> Reply] /\ req \in [Requests -> Request]
  BY DEF Inv, Shape, TypeOK, Start, SubmitStart, EditStart, DeleteStart
<1>1. ASSUME NEW g \in Guests, NEW a \in BOOLEAN, NEW p \in 0..PartyLimit, SubmitStart(q, g, a, p)
      PROVE  Inv' /\ UNCHANGED <<Answers, counters>>
  <2> DEFINE r == [Fresh EXCEPT !.kind = "submit", !.pc = "lock", !.guest = g, !.attending = a,
                                !.party = IF a THEN p ELSE 0, !.now = clock]
  <2>1. r \in Request /\ r.pc = "lock" /\ r.kind = "submit" /\ r.guest = g
    BY <1>0, FreshTyped, RsvpAssumption DEF Fresh, Request, AllKinds
  <2>2. req' = [req EXCEPT ![q] = r] /\ UNCHANGED <<reply, counters, policy, lock, clock>>
    BY <1>1 DEF SubmitStart
  <2> HIDE DEF r
  <2>3. Ready(q, r, lock', reply)
    BY <2>1 DEF Ready, AllKinds
  <2> QED BY <2>1, <2>2, <2>3, WaitingStep
<1>2. ASSUME NEW s \in Requests, NEW a \in BOOLEAN, NEW p \in 0..PartyLimit, EditStart(q, s, a, p)
      PROVE  Inv' /\ UNCHANGED <<Answers, counters>>
  <2> DEFINE r == [Fresh EXCEPT !.kind = "edit", !.pc = "lock", !.id = req[s].id, !.token = s,
                                !.attending = a, !.party = IF a THEN p ELSE 0, !.now = clock]
  <2>0. req[s].id \in Requests \cup {None}
    BY <1>0 DEF Request
  <2>1. r \in Request /\ r.pc = "lock" /\ r.kind = "edit" /\ r.token = s
    BY <1>0, <2>0, FreshTyped, RsvpAssumption DEF Fresh, Request, AllKinds
  <2>2. req' = [req EXCEPT ![q] = r] /\ UNCHANGED <<reply, counters, policy, lock, clock>>
    BY <1>2 DEF EditStart
  <2> HIDE DEF r
  <2>3. Ready(q, r, lock', reply)
    BY <2>1 DEF Ready, AllKinds
  <2> QED BY <2>1, <2>2, <2>3, WaitingStep
<1>3. ASSUME NEW g \in Guests, DeleteStart(q, g)
      PROVE  Inv' /\ UNCHANGED <<Answers, counters>>
  <2> DEFINE r == [Fresh EXCEPT !.kind = "delete", !.pc = "lock", !.id = reply[g].id, !.now = clock]
  <2>0. reply[g].id \in Requests \cup {None}
    BY <1>0 DEF Reply
  <2>1. r \in Request /\ r.pc = "lock" /\ r.kind = "delete"
    BY <1>0, <2>0, FreshTyped, RsvpAssumption DEF Fresh, Request, AllKinds
  <2>2. req' = [req EXCEPT ![q] = r] /\ UNCHANGED <<reply, counters, policy, lock, clock>>
    BY <1>3 DEF DeleteStart
  <2> HIDE DEF r
  <2>3. Ready(q, r, lock', reply)
    BY <2>1 DEF Ready, AllKinds
  <2> QED BY <2>1, <2>2, <2>3, WaitingStep
<1> QED BY <1>1, <1>2, <1>3 DEF Start

\* The row is found under the lock: what is read is what is there.
LEMMA FoundStep ==
  ASSUME Inv, NEW q \in Requests, NEW g \in Guests, req[q].pc = "read", Found(q, g),
         UNCHANGED <<reply, counters, policy, lock, clock>>,
         req[q].kind = "edit" => reply[g].token = req[q].token,
         req[q].kind = "delete" => reply[g].id = req[q].id
  PROVE  Inv' /\ UNCHANGED <<Answers, counters>>
<1> DEFINE r == [req[q] EXCEPT !.pc = "write", !.guest = g, !.prev = reply[g]]
<1>1. /\ req \in [Requests -> Request] /\ req[q] \in Request /\ reply[g] \in Reply
      /\ Ready(q, req[q], lock, reply)
  BY DEF Inv, Shape, TypeOK, RequestsReady
<1>2. /\ r \in Request /\ r.pc = "write" /\ r.guest = g /\ r.prev = reply[g]
      /\ r.kind = req[q].kind /\ r.token = req[q].token /\ r.id = req[q].id
  BY <1>1 DEF Request
<1>3. req' = [req EXCEPT ![q] = r]
  BY <1>1 DEF Found
<1> HIDE DEF r
<1>4. Ready(q, r, lock', reply)
  BY <1>1, <1>2 DEF Ready
<1> QED BY <1>2, <1>3, <1>4, WaitingStep

LEMMA ReadingStep ==
  ASSUME Inv, NEW q \in Requests, Lock(q) \/ SubmitRead(q) \/ EditRead(q) \/ DeleteRead(q)
  PROVE  Inv' /\ UNCHANGED <<Answers, counters>>
<1>1. /\ req \in [Requests -> Request] /\ req[q] \in Request
      /\ Ready(q, req[q], lock, reply)
  BY DEF Inv, Shape, TypeOK, RequestsReady
<1>2. CASE Lock(q)
  <2> DEFINE r == [req[q] EXCEPT !.pc = "read"]
  <2>1. /\ r \in Request /\ r.pc = "read" /\ r.kind = req[q].kind
        /\ r.guest = req[q].guest /\ r.token = req[q].token
    BY <1>1 DEF Request
  <2>2. req' = [req EXCEPT ![q] = r]
    BY <1>1, <1>2 DEF Lock
  <2> HIDE DEF r
  <2>3. /\ req[q].pc = "lock" /\ lock = None /\ lock' = q
        /\ UNCHANGED <<reply, counters, policy, clock>>
    BY <1>2 DEF Lock
  <2>4. Ready(q, r, lock', reply)
    BY <1>1, <2>1, <2>3 DEF Ready
  <2> QED BY <2>1, <2>2, <2>3, <2>4, WaitingStep
<1>3. CASE SubmitRead(q)
  <2>1. /\ req[q].kind = "submit" /\ req[q].pc = "read" /\ Found(q, req[q].guest)
        /\ UNCHANGED <<reply, counters, policy, lock, clock>>
    BY <1>3 DEF SubmitRead
  <2>2. req[q].guest \in Guests
    BY <1>1, <2>1 DEF Ready
  <2> QED BY <2>1, <2>2, FoundStep
<1>4. CASE EditRead(q)
  <2>1. /\ req[q].kind = "edit" /\ req[q].pc = "read" /\ lock = q
        /\ UNCHANGED <<reply, counters, policy, clock>>
    BY <1>1, <1>4 DEF EditRead, Ready
  <2>2. CASE \E g \in Guests : Presents(q, g) /\ Found(q, g) /\ UNCHANGED lock
    <3>1. PICK g \in Guests : Presents(q, g) /\ Found(q, g) /\ UNCHANGED lock
      BY <2>2
    <3>2. reply[g].token = req[q].token
      BY <3>1 DEF Presents
    <3> QED BY <2>1, <3>1, <3>2, FoundStep
  <2>3. CASE \E o \in {"window_closed", "bad_token"} : Refuse(q, o)
    <3>1. PICK o \in {"window_closed", "bad_token"} : Refuse(q, o)
      BY <2>3
    <3>2. Finish(q, o) /\ lock' = None
      BY <3>1 DEF Refuse
    <3> QED BY <2>1, <3>1, <3>2, EndingStep
  <2> QED BY <1>4, <2>2, <2>3 DEF EditRead
<1>5. CASE DeleteRead(q)
  <2>1. /\ req[q].kind = "delete" /\ req[q].pc = "read" /\ lock = q
        /\ UNCHANGED <<reply, counters, policy, clock>>
    BY <1>1, <1>5 DEF DeleteRead, Ready
  <2>2. CASE \E g \in Guests : reply[g].id = req[q].id /\ Found(q, g) /\ UNCHANGED lock
    <3>1. PICK g \in Guests : reply[g].id = req[q].id /\ Found(q, g) /\ UNCHANGED lock
      BY <2>2
    <3> QED BY <2>1, <3>1, FoundStep
  <2>3. CASE Refuse(q, "not_found")
    <3>1. Finish(q, "not_found") /\ lock' = None
      BY <2>3 DEF Refuse
    <3> QED BY <2>1, <3>1, EndingStep
  <2> QED BY <1>5, <2>2, <2>3 DEF DeleteRead
<1> QED BY <1>2, <1>3, <1>4, <1>5

\* A request about to write holds the lock, and the row it read is still the row.
LEMMA AboutToWrite ==
  ASSUME Inv, NEW q \in Requests, req[q].pc = "write"
  PROVE  /\ req \in [Requests -> Request] /\ req[q] \in Request
         /\ lock = q /\ req[q].guest \in Guests
         /\ reply \in [Guests -> Reply]
         /\ reply[req[q].guest] \in Reply /\ Whole(reply[req[q].guest])
         /\ req[q].prev = reply[req[q].guest]
         /\ req[q].kind = "edit" =>
              req[q].token \in Requests /\ reply[req[q].guest].token = req[q].token
         /\ req[q].kind = "delete" => reply[req[q].guest].id = req[q].id
  BY DEF Inv, Shape, TypeOK, RequestsReady, RowsWhole, Ready

LEMMA WritingStep ==
  ASSUME Inv, NEW q \in Requests, SubmitCommit(q) \/ EditCommit(q) \/ DeleteCommit(q)
  PROVE  Inv' /\ Book!Next
<1> DEFINE g == req[q].guest
<1>1. req[q].pc = "write"
  BY DEF SubmitCommit, EditCommit, DeleteCommit
<1>2. /\ req \in [Requests -> Request] /\ req[q] \in Request /\ lock = q
      /\ g \in Guests /\ reply[g] \in Reply /\ Whole(reply[g]) /\ req[q].prev = reply[g]
      /\ req[q].kind = "edit" => req[q].token \in Requests /\ reply[g].token = req[q].token
  BY <1>1, AboutToWrite
<1>3. CASE SubmitCommit(q)
  <2> DEFINE row == Upserted(q, g)
             r == [Fresh EXCEPT !.kind = "submit", !.pc = "done", !.id = row.id,
                                !.now = req[q].now, !.outcome = "ok"]
  <2>1. row \in Reply /\ row.id # None /\ row.token # None
    <3>1. reply[g] # NoReply => reply[g].id # None
      BY <1>2 DEF Whole
    <3> QED BY <1>2, <3>1, RsvpAssumption DEF Upserted, Reply, Request
  <2>2. Whole(row)
    BY <2>1 DEF Whole
  <2>3. r \in Request /\ r.pc = "done"
    <3> HIDE DEF row
    <3>1. row.id \in Requests \cup {None}
      BY <2>1 DEF Reply
    <3> QED BY <1>2, <3>1, FreshTyped DEF Fresh, Request, AllKinds
  <2>4. /\ req' = [req EXCEPT ![q] = r] /\ reply' = [reply EXCEPT ![g] = row]
        /\ Move(reply[g], row) /\ lock' = None /\ UNCHANGED <<policy, clock>>
    BY <1>2, <1>3 DEF SubmitCommit
  <2> HIDE DEF row, r, g
  <2> QED BY <1>2, <2>1, <2>2, <2>3, <2>4, CommitStep
<1>4. CASE EditCommit(q)
  <2> DEFINE row == Edited(q, g)
             r == [Fresh EXCEPT !.kind = req[q].kind, !.pc = "done", !.id = req[q].id,
                                !.now = req[q].now, !.outcome = "ok"]
  <2>1. row \in Reply
    BY <1>2 DEF Edited, Reply, Request
  <2>2. Whole(row)
    <3>1. reply[g].token # None
      BY <1>2, <1>4, RsvpAssumption DEF EditCommit
    <3>2. reply[g] # NoReply
      BY <3>1 DEF NoReply
    <3>3. reply[g].id # None
      BY <1>2, <3>2 DEF Whole
    <3> QED BY <1>2, <3>1, <3>3 DEF Whole, Edited, Reply
  <2>3. r \in Request /\ r.pc = "done"
    BY <1>2, FreshTyped DEF Fresh, Request
  <2>4. /\ req' = [req EXCEPT ![q] = r] /\ reply' = [reply EXCEPT ![g] = row]
        /\ Move(reply[g], row) /\ lock' = None /\ UNCHANGED <<policy, clock>>
    BY <1>2, <1>4 DEF EditCommit, Finish
  <2> HIDE DEF row, r, g
  <2> QED BY <1>2, <2>1, <2>2, <2>3, <2>4, CommitStep
<1>5. CASE DeleteCommit(q)
  <2> DEFINE r == [Fresh EXCEPT !.kind = req[q].kind, !.pc = "done", !.id = req[q].id,
                                !.now = req[q].now, !.outcome = "ok"]
  <2>1. NoReply \in Reply /\ Whole(NoReply)
    BY FreshTyped DEF Whole
  <2>2. r \in Request /\ r.pc = "done"
    BY <1>2, FreshTyped DEF Fresh, Request
  <2>3. /\ req' = [req EXCEPT ![q] = r] /\ reply' = [reply EXCEPT ![g] = NoReply]
        /\ Move(reply[g], NoReply) /\ lock' = None /\ UNCHANGED <<policy, clock>>
    BY <1>2, <1>5 DEF DeleteCommit, Finish
  <2> HIDE DEF r, g
  <2> QED BY <1>2, <2>1, <2>2, <2>3, CommitStep
<1> QED BY <1>3, <1>4, <1>5

\* Every step keeps the invariant, and is a step of the guest book or leaves it alone.
LEMMA EveryStep ==
  ASSUME Inv, [Next]_vars
  PROVE  Inv' /\ (Book!Next \/ UNCHANGED <<Answers, counters>>)
<1>1. CASE UNCHANGED vars
  <2>1. /\ UNCHANGED <<reply, counters>> /\ policy' \in Policies /\ clock' \in Nat
        /\ lock' \in Requests \cup {None} /\ req' \in [Requests -> Request]
    BY <1>1 DEF Inv, Shape, TypeOK, vars
  <2>2. RequestsReady'
    BY <1>1 DEF Inv, Shape, RequestsReady, vars
  <2> QED BY <2>1, <2>2, QuietStep
<1>2. CASE ChangePolicy \/ Tick
  <2>1. /\ UNCHANGED <<reply, counters>> /\ policy' \in Policies /\ clock' \in Nat
        /\ lock' \in Requests \cup {None} /\ req' \in [Requests -> Request]
    BY <1>2 DEF Inv, Shape, TypeOK, ChangePolicy, Tick
  <2>2. RequestsReady'
    BY <1>2 DEF Inv, Shape, RequestsReady, ChangePolicy, Tick
  <2> QED BY <2>1, <2>2, QuietStep
<1>3. ASSUME NEW q \in Requests, Start(q) PROVE Inv' /\ UNCHANGED <<Answers, counters>>
  BY <1>3, StartStep
<1>4. ASSUME NEW q \in Requests, Advance(q)
      PROVE  Inv' /\ (Book!Next \/ UNCHANGED <<Answers, counters>>)
  BY <1>4, ReadingStep, WritingStep DEF Advance
<1>5. ASSUME NEW q \in Requests, Abort(q) PROVE Inv' /\ UNCHANGED <<Answers, counters>>
  <2>1. /\ Finish(q, "aborted") /\ UNCHANGED <<reply, counters, policy, clock>>
        /\ lock' = lock \/ (lock = q /\ lock' = None)
    BY <1>5 DEF Abort
  <2> QED BY <2>1, EndingStep
<1> QED BY <1>1, <1>2, <1>3, <1>4, <1>5 DEF Next

(* ------------------------------ the theorems --------------------------- *)

LEMMA Invariant == Spec => []Inv
<1>1. Inv /\ [Next]_vars => Inv'
  BY EveryStep
<1> QED BY <1>1, InvInit, PTL DEF Spec

\* The rows, the counters and the requests always have the shape the code gives them.
THEOREM RepliesTyped == Spec => []TypeOK
<1>1. Inv => TypeOK
  BY DEF Inv, Shape
<1> QED BY <1>1, Invariant, PTL

\* The deltas of rsvp.repository.ts keep the counters what a recount of the replies would
\* give, for any number of guests and overlapping requests, and whichever of them die.
THEOREM CountersNeverDrift == Spec => KeepsGuestBook
<1>1. Init => Book!Init
  <2> SUFFICES ASSUME Init PROVE Book!Init
    OBVIOUS
  <2>1. AnswerOf(NoReply) = Book!Blank
    BY DEF AnswerOf, NoReply, Book!Blank
  <2>2. [g \in Guests |-> AnswerOf(reply[g])] = [g \in Guests |-> Book!Blank]
    BY <2>1 DEF Init
  <2> QED BY <2>2 DEF Init, Book!Init
<1>2. Inv /\ [Next]_vars => [Book!Next]_<<Answers, counters>>
  BY EveryStep
<1>3. Inv /\ [Next]_vars => [Book!Next]_<<[g \in Guests |-> AnswerOf(reply[g])], counters>>
  BY <1>2 DEF Answers
<1> QED BY <1>1, <1>3, Invariant, PTL DEF Spec, KeepsGuestBook, Book!Spec

\* What a step does to the row of one guest, and by what right.
ByRight(g) ==
  \E q \in Requests :
    \/ SubmitCommit(q) /\ req[q].guest = g /\ reply'[g].token = q
    \/ /\ EditCommit(q)
       /\ req[q].token = reply[g].token
       /\ reply'[g].token = reply[g].token /\ reply'[g].id = reply[g].id
    \/ DeleteCommit(q) /\ req[q].id = reply[g].id /\ reply'[g] = NoReply

LEMMA RowChangesByRight ==
  ASSUME Inv, [Next]_vars, NEW g \in Guests, reply'[g] # reply[g]
  PROVE  ByRight(g)
<1>1. PICK q \in Requests : SubmitCommit(q) \/ EditCommit(q) \/ DeleteCommit(q)
  <2>1. ASSUME NEW p \in Requests, Start(p) \/ Abort(p) PROVE reply' = reply
    BY <2>1 DEF Start, SubmitStart, EditStart, DeleteStart, Abort
  <2>2. ASSUME NEW p \in Requests, Lock(p) \/ SubmitRead(p) \/ EditRead(p) \/ DeleteRead(p)
        PROVE  reply' = reply
    BY <2>2 DEF Lock, SubmitRead, EditRead, DeleteRead
  <2>3. ASSUME ChangePolicy \/ Tick \/ UNCHANGED vars PROVE reply' = reply
    BY <2>3 DEF ChangePolicy, Tick, vars
  <2> QED BY <2>1, <2>2, <2>3 DEF Next, Advance
<1>2. req[q].pc = "write"
  BY <1>1 DEF SubmitCommit, EditCommit, DeleteCommit
<1>3. /\ reply \in [Guests -> Reply] /\ reply[req[q].guest] \in Reply
      /\ req[q].kind = "edit" => reply[req[q].guest].token = req[q].token
      /\ req[q].kind = "delete" => reply[req[q].guest].id = req[q].id
  BY <1>2, AboutToWrite
<1>4. CASE SubmitCommit(q)
  <2>1. reply' = [reply EXCEPT ![req[q].guest] = Upserted(q, req[q].guest)]
    BY <1>4 DEF SubmitCommit
  <2>2. req[q].guest = g /\ reply'[g] = Upserted(q, g)
    BY <1>3, <2>1
  <2>3. reply'[g].token = q
    BY <2>2 DEF Upserted
  <2> QED BY <1>4, <2>2, <2>3 DEF ByRight
<1>5. CASE EditCommit(q)
  <2>1. /\ reply' = [reply EXCEPT ![req[q].guest] = Edited(q, req[q].guest)]
        /\ req[q].kind = "edit"
    BY <1>5 DEF EditCommit
  <2>2. req[q].guest = g /\ reply'[g] = Edited(q, g)
    BY <1>3, <2>1
  <2>3. reply'[g].token = reply[g].token /\ reply'[g].id = reply[g].id
    BY <1>3, <2>2 DEF Edited, Reply
  <2> QED BY <1>3, <1>5, <2>1, <2>2, <2>3 DEF ByRight
<1>6. CASE DeleteCommit(q)
  <2>1. reply' = [reply EXCEPT ![req[q].guest] = NoReply] /\ req[q].kind = "delete"
    BY <1>6 DEF DeleteCommit
  <2>2. req[q].guest = g /\ reply'[g] = NoReply
    BY <1>3, <2>1
  <2> QED BY <1>3, <1>6, <2>1, <2>2 DEF ByRight
<1> QED BY <1>1, <1>4, <1>5, <1>6

\* A row is changed by the newest submission of its guest, the holder of the newest token or
\* a removal aimed at that very row, however they overlap in the repository's transactions.
THEOREM RepliesAreTheirOwners == Spec => RepliesChangeByRight
<1>1. Inv /\ [Next]_vars => [\A g \in Guests : reply'[g] # reply[g] => ByRight(g)]_vars
  BY RowChangesByRight
<1> QED BY <1>1, Invariant, PTL DEF Spec, RepliesChangeByRight, ByRight

(* ---------------------------- the guest's page ------------------------- *)

(* ------------------------------ the invariant -------------------------- *)

Refusals == {"rate", "closed", "check", "invalid"}

\* Telling the guest of post p the verdict v is right when the request stands at r.
So(p, r, v) ==
  /\ v = "ok" => p.trapped \/ (r.pc = "done" /\ r.outcome = "ok")
  /\ v \in Refusals => r = Fresh \/ (r.pc = "done" /\ r.outcome = "aborted")

\* A request has an outcome only at its end, and a submission ends in one of two.
Sound(r) ==
  /\ r.outcome # None => r.pc = "done"
  /\ r.kind = "submit" /\ r.pc = "done" => r.outcome \in {"ok", "aborted"}

\* A post that is being read has not reached the transactions; what is answered, and what
\* has been told, is so.
Journey(p, r) ==
  /\ p.pc \in Reading => p.name \in Names /\ r = Fresh
  /\ p.pc = "begun" => r.kind = "submit"
  /\ p.pc = "answered" => So(p, r, p.answer)
  /\ p.pc \in Reading \cup {"begun", "answered"} => p.told \in {None, "left", "offline"}
  /\ So(p, r, p.told)
  /\ Sound(r)

Journeys == \A q \in Requests : Journey(post[q], req[q])

IInv == Inv /\ PagesTypeOK /\ Journeys

(* -------------------------------- the steps ---------------------------- *)

LEMMA FreshSound ==
  /\ Sound(Fresh) /\ Fresh.kind = None /\ Fresh.pc = "idle" /\ Fresh.outcome = None
  BY DEF Sound, Fresh

LEMMA NewPost ==
  /\ NoPost \in Post /\ NoPost.pc = "new" /\ NoPost.told = None
  /\ FreshPage \in Page
  BY RsvpAssumption, GuestPageAssumption DEF NoPost, Post, FreshPage, Page, Reading, Verdicts

\* A request that moves in the transactions is no fresh one, and its outcome comes at its end.
LEMMA Moves ==
  ASSUME Inv, NEW q \in Requests, Sound(req[q]), Advance(q) \/ Abort(q)
  PROVE  /\ req[q].pc \in {"lock", "read", "write"}
         /\ \E r : req' = [req EXCEPT ![q] = r] /\ Sound(r) /\ r.kind = req[q].kind
<1> DEFINE ended(o) == [Fresh EXCEPT !.kind = req[q].kind, !.pc = "done", !.id = req[q].id,
                                     !.now = req[q].now, !.outcome = o]
<1>1. req \in [Requests -> Request] /\ req[q] \in Request
  BY DEF Inv, Shape, TypeOK
<1>2. /\ \A o \in {"ok", "aborted"} : Sound(ended(o)) /\ ended(o).kind = req[q].kind
      /\ req[q].kind # "submit" => \A o : Sound(ended(o)) /\ ended(o).kind = req[q].kind
  BY DEF Sound, Fresh
<1>3. \A o : Finish(q, o) => req' = [req EXCEPT ![q] = ended(o)]
  BY DEF Finish
<1>4. CASE Lock(q)
  <2> DEFINE r == [req[q] EXCEPT !.pc = "read"]
  <2>1. req' = [req EXCEPT ![q] = r] /\ req[q].pc = "lock"
    BY <1>1, <1>4 DEF Lock
  <2>2. Sound(r) /\ r.kind = req[q].kind
    BY <1>1, <2>1 DEF Sound, Request
  <2> QED BY <2>1, <2>2
<1>5. ASSUME NEW g, Found(q, g), req[q].pc = "read"
      PROVE  \E r : req' = [req EXCEPT ![q] = r] /\ Sound(r) /\ r.kind = req[q].kind
  <2> DEFINE r == [req[q] EXCEPT !.pc = "write", !.guest = g, !.prev = reply[g]]
  <2>1. req' = [req EXCEPT ![q] = r]
    BY <1>1, <1>5 DEF Found
  <2>2. Sound(r) /\ r.kind = req[q].kind
    BY <1>1, <1>5 DEF Sound, Request
  <2> QED BY <2>1, <2>2
<1>6. CASE SubmitRead(q)
  BY <1>5, <1>6 DEF SubmitRead
<1>7. CASE EditRead(q) \/ DeleteRead(q)
  <2>1. req[q].pc = "read" /\ req[q].kind # "submit"
    BY <1>7 DEF EditRead, DeleteRead
  <2>2. \/ \E g \in Guests : Found(q, g)
        \/ \E o \in {"window_closed", "bad_token", "not_found"} : Finish(q, o)
    BY <1>7 DEF EditRead, DeleteRead, Refuse
  <2> QED BY <1>2, <1>3, <1>5, <2>1, <2>2
<1>8. CASE SubmitCommit(q)
  <2> DEFINE r == [Fresh EXCEPT !.kind = "submit", !.pc = "done", !.id = Upserted(q, req[q].guest).id,
                                !.now = req[q].now, !.outcome = "ok"]
  <2>1. req' = [req EXCEPT ![q] = r] /\ req[q].pc = "write" /\ req[q].kind = "submit"
    BY <1>8 DEF SubmitCommit
  <2>2. Sound(r) /\ r.kind = "submit"
    BY DEF Sound, Fresh
  <2> QED BY <2>1, <2>2
<1>9. CASE EditCommit(q) \/ DeleteCommit(q)
  <2>1. req[q].pc = "write" /\ Finish(q, "ok")
    BY <1>9 DEF EditCommit, DeleteCommit
  <2> QED BY <1>2, <1>3, <2>1
<1>10. CASE Abort(q)
  <2>1. req[q].pc \in {"lock", "read", "write"} /\ Finish(q, "aborted")
    BY <1>10 DEF Abort
  <2> QED BY <1>2, <1>3, <2>1
<1> QED BY <1>4, <1>6, <1>7, <1>8, <1>9, <1>10 DEF Advance

\* Every step of the pages and the route is a step of Rsvp or leaves it alone.
LEMMA PagesStepIsRsvpStep ==
  ASSUME IInv, [PagesNext]_pageVars
  PROVE  [Next]_vars
<1>1. ASSUME NEW q \in Requests, Begin(q) PROVE [Next]_vars
  <2> DEFINE p == post[q]
  <2>1. p \in Post /\ p.name \in Names
    BY <1>1 DEF IInv, PagesTypeOK, Journeys, Journey, Begin, Reading
  <2>2. p.attending \in BOOLEAN /\ p.party \in 0..PartyLimit /\ GuestOf[p.name] \in Guests
    BY <2>1, GuestPageAssumption DEF Post
  <2>3. SubmitStart(q, GuestOf[p.name], p.attending, p.party) => Start(q)
    BY <2>2, GuestPageAssumption DEF Start
  <2>4. UNCHANGED vars \/ SubmitStart(q, GuestOf[p.name], p.attending, p.party)
    BY <1>1 DEF Begin, Identity
  <2> QED BY <2>3, <2>4 DEF Next
<1>2. ASSUME NEW q \in Requests, Serve(q) PROVE [Next]_vars
  BY <1>1, <1>2 DEF Serve, Handle, Admit, Challenge, Respond, Next
<1>3. ASSUME NEW q \in Requests, Disconnect(q) \/ Fails(q) \/ Replies(q) PROVE [Next]_vars
  BY <1>3 DEF Disconnect, Fails, Replies, Next
<1>4. ASSUME NEW b \in Pages, NEW q \in Requests, Send(b, q) PROVE [Next]_vars
  BY <1>4 DEF Send
<1>5. ASSUME NEW b \in Pages, GiveUp(b) \/ Reload(b) \/ Hear(b) PROVE [Next]_vars
  BY <1>5 DEF GiveUp, Reload, Hear
<1>6. Around => [Next]_vars
  BY DEF Around, Next
<1>7. UNCHANGED pageVars => UNCHANGED vars
  BY DEF pageVars
<1> QED BY <1>2, <1>3, <1>4, <1>5, <1>6, <1>7 DEF PagesNext

\* One post moves on; the requests of the others stand where they stood.
LEMMA OnePost ==
  ASSUME PagesTypeOK, Journeys, NEW q \in Requests, NEW p \in Post,
         post' = [post EXCEPT ![q] = p], page' \in [Pages -> Page],
         \A r \in Requests \ {q} : req'[r] = req[r],
         Journey(p, req'[q])
  PROVE  PagesTypeOK' /\ Journeys'
<1>1. post' \in [Requests -> Post]
  BY DEF PagesTypeOK
<1>2. ASSUME NEW r \in Requests PROVE Journey(post'[r], req'[r])
  <2>1. r = q => post'[r] = p
    BY DEF PagesTypeOK
  <2>2. r # q => post'[r] = post[r] /\ req'[r] = req[r] /\ Journey(post[r], req[r])
    BY DEF PagesTypeOK, Journeys
  <2> QED BY <2>1, <2>2
<1> QED BY <1>1, <1>2 DEF PagesTypeOK, Journeys

\* What Kept and Answered keep.
LEMMA Keeping ==
  ASSUME PagesTypeOK, NEW q \in Requests
  PROVE  /\ Kept(q) \in Post
         /\ Kept(q).told = post[q].told /\ Kept(q).trapped = post[q].trapped
         /\ \A v \in Verdicts :
              /\ Answered(q, v) \in Post
              /\ Answered(q, v).pc = "answered" /\ Answered(q, v).answer = v
              /\ Answered(q, v).told = post[q].told
              /\ Answered(q, v).trapped = post[q].trapped
<1>1. post[q] \in Post
  BY DEF PagesTypeOK
<1>2. Kept(q) \in Post /\ Kept(q).told = post[q].told /\ Kept(q).trapped = post[q].trapped
  <2> DEFINE k1 == [NoPost EXCEPT !.from = post[q].from, !.trapped = post[q].trapped]
             k2 == [k1 EXCEPT !.charged = post[q].charged, !.at = post[q].at]
             k3 == [k2 EXCEPT !.lost = post[q].lost, !.told = post[q].told]
  <2> NoPost \in Post
    BY NewPost
  <2>1. k1 \in Post
    BY <1>1 DEF Post
  <2>2. k2 \in Post
    <3> HIDE DEF k1
    <3> QED BY <1>1, <2>1 DEF Post
  <2>3. k3 \in Post
    <3> HIDE DEF k2
    <3> QED BY <1>1, <2>2 DEF Post
  <2>4. Kept(q).told = post[q].told /\ Kept(q).trapped = post[q].trapped
    BY DEF Kept, NoPost
  <2> QED BY <2>3, <2>4 DEF Kept
<1> HIDE DEF Kept
<1> QED BY <1>2 DEF Answered, Post

\* An answer that is so keeps the journey in order, whatever budgets it was counted in.
LEMMA AnswerGiven ==
  ASSUME PagesTypeOK, NEW q \in Requests, Journey(post[q], req[q]),
         post[q].pc \in Reading \cup {"begun"}, NEW v \in Verdicts, So(post[q], req[q], v),
         NEW p \in Post, p.pc = "answered", p.answer = v, p.told = post[q].told,
         p.trapped = post[q].trapped
  PROVE  Journey(p, req[q])
  BY DEF Journey, So, Reading

LEMMA AdmitStep ==
  ASSUME IInv, NEW q \in Requests, Admit(q) \/ Challenge(q)
  PROVE  PagesTypeOK' /\ Journeys'
<1>1. /\ PagesTypeOK /\ Journeys /\ clock \in Nat /\ post[q] \in Post
      /\ Journey(post[q], req[q]) /\ UNCHANGED <<req, page>>
      /\ page \in [Pages -> Page] /\ post[q].pc \in Reading
  BY DEF IInv, Inv, Shape, TypeOK, PagesTypeOK, Journeys, Admit, Challenge, vars, Reading
<1>2. \A v \in {"rate", "check"} : v \in Verdicts /\ So(post[q], req[q], v)
  BY <1>1 DEF Verdicts, So, Journey
<1>3. /\ DOMAIN Budgets = {"visitor", "invitation", "pressure"}
  BY GuestPageAssumption
<1>4. ASSUME NEW p \in Post, Becomes(q, p), Journey(p, req[q])
      PROVE  PagesTypeOK' /\ Journeys'
  BY <1>1, <1>4, OnePost DEF Becomes
<1>5. ASSUME NEW v \in {"rate", "check"}, Becomes(q, Answered(q, v))
      PROVE  PagesTypeOK' /\ Journeys'
  BY <1>1, <1>2, <1>4, <1>5, Keeping, AnswerGiven
<1>6. ASSUME Becomes(q, [Answered(q, "rate") EXCEPT !.charged = {"visitor"}, !.at = clock])
      PROVE  PagesTypeOK' /\ Journeys'
  <2> DEFINE a == Answered(q, "rate")
             p == [a EXCEPT !.charged = {"visitor"}, !.at = clock]
  <2>1. a \in Post /\ a.pc = "answered" /\ a.answer = "rate" /\ a.told = post[q].told
        /\ a.trapped = post[q].trapped
    BY <1>1, <1>2, Keeping
  <2> HIDE DEF a
  <2>2. p \in Post /\ p.pc = a.pc /\ p.answer = a.answer /\ p.told = a.told /\ p.trapped = a.trapped
    BY <1>1, <1>3, <2>1 DEF Post
  <2>3. Becomes(q, p)
    BY <1>6 DEF a
  <2> HIDE DEF p
  <2>4. Journey(p, req[q])
    BY <1>1, <1>2, <2>1, <2>2, AnswerGiven
  <2> QED BY <1>4, <2>2, <2>3, <2>4
<1>7. ASSUME NEW counted \in SUBSET DOMAIN Budgets, NEW pc \in {"admitted", "checked"},
             Becomes(q, [post[q] EXCEPT !.charged = counted, !.at = clock, !.pc = pc])
      PROVE  PagesTypeOK' /\ Journeys'
  <2> DEFINE p == [post[q] EXCEPT !.charged = counted, !.at = clock, !.pc = pc]
  <2>1. p \in Post /\ p.pc \in Reading /\ p.name = post[q].name /\ p.told = post[q].told
        /\ p.trapped = post[q].trapped
    BY <1>1 DEF Post, Reading
  <2>2. Journey(p, req[q])
    <3> HIDE DEF p
    <3> QED BY <1>1, <2>1 DEF Journey, So, Reading
  <2> QED BY <1>4, <1>7, <2>1, <2>2
<1>8. CASE Admit(q)
  <2> DEFINE counted == {"visitor", "invitation"}
                          \cup (IF HasBudget(q, "pressure") THEN {"pressure"} ELSE {})
             pc == IF HasBudget(q, "pressure") \/ post[q].trapped THEN "checked" ELSE "admitted"
  <2>1. counted \in SUBSET DOMAIN Budgets /\ pc \in {"admitted", "checked"}
    BY <1>3
  <2>2. \/ Becomes(q, Answered(q, "rate"))
        \/ Becomes(q, [Answered(q, "rate") EXCEPT !.charged = {"visitor"}, !.at = clock])
        \/ Becomes(q, [post[q] EXCEPT !.charged = counted, !.at = clock, !.pc = pc])
    BY <1>8 DEF Admit
  <2> HIDE DEF counted, pc
  <2> QED BY <1>5, <1>6, <1>7, <2>1, <2>2
<1>9. CASE Challenge(q)
  <2>1. \/ Becomes(q, Answered(q, "check"))
        \/ Becomes(q, [post[q] EXCEPT !.pc = "checked"])
    BY <1>9 DEF Challenge
  <2>2. CASE Becomes(q, [post[q] EXCEPT !.pc = "checked"])
    <3> DEFINE p == [post[q] EXCEPT !.pc = "checked"]
    <3>1. p \in Post /\ p.pc \in Reading /\ p.name = post[q].name /\ p.told = post[q].told
          /\ p.trapped = post[q].trapped
      BY <1>1 DEF Post, Reading
    <3>2. Journey(p, req[q])
      <4> HIDE DEF p
      <4> QED BY <1>1, <3>1 DEF Journey, So, Reading
    <3> QED BY <1>4, <2>2, <3>1, <3>2
  <2> QED BY <1>5, <2>1, <2>2
<1> QED BY <1>8, <1>9

LEMMA BeginStep ==
  ASSUME IInv, NEW q \in Requests, Begin(q)
  PROVE  PagesTypeOK' /\ Journeys'
<1> DEFINE p == [Kept(q) EXCEPT !.pc = "begun"]
<1>1. /\ PagesTypeOK /\ Journeys /\ req \in [Requests -> Request] /\ post[q] \in Post
      /\ Journey(post[q], req[q]) /\ page' = page
      /\ page \in [Pages -> Page] /\ post[q].pc = "checked"
  BY DEF IInv, Inv, Shape, TypeOK, PagesTypeOK, Journeys, Begin
<1>2. ASSUME NEW v \in {"ok", "invalid", "closed"}, Becomes(q, Answered(q, v)), UNCHANGED vars,
             v = "ok" => post[q].trapped
      PROVE  PagesTypeOK' /\ Journeys'
  <2>1. v \in Verdicts /\ So(post[q], req[q], v)
    BY <1>1, <1>2 DEF Verdicts, So, Journey, Reading, Refusals
  <2>2. Answered(q, v) \in Post /\ Journey(Answered(q, v), req[q])
    BY <1>1, <2>1, Keeping, AnswerGiven DEF Reading
  <2>3. req' = req
    BY <1>2 DEF vars
  <2> QED BY <1>1, <1>2, <2>2, <2>3, OnePost DEF Becomes
<1>3. ASSUME SubmitStart(q, Identity(post[q]), post[q].attending, post[q].party), Becomes(q, p)
      PROVE  PagesTypeOK' /\ Journeys'
  <2>1. Kept(q) \in Post /\ Kept(q).told = post[q].told /\ Kept(q).trapped = post[q].trapped
    BY <1>1, Keeping
  <2>2. p \in Post /\ p.pc = "begun" /\ p.told = post[q].told
    BY <2>1 DEF Post
  <2>3. /\ \A r \in Requests \ {q} : req'[r] = req[r]
        /\ req'[q].kind = "submit" /\ req'[q].pc = "lock" /\ req'[q].outcome = None
    BY <1>1, <1>3 DEF SubmitStart, Fresh
  <2>4. post[q].told \in {None, "left", "offline"}
    BY <1>1 DEF Journey, Reading
  <2> HIDE DEF p
  <2>5. Journey(p, req'[q])
    BY <2>2, <2>3, <2>4, GuestPageAssumption DEF Journey, So, Sound, Refusals, Reading, Verdicts
  <2> QED BY <1>1, <1>3, <2>2, <2>3, <2>5, OnePost DEF Becomes
<1> QED BY <1>2, <1>3 DEF Begin

LEMMA RespondStep ==
  ASSUME IInv, NEW q \in Requests, Respond(q)
  PROVE  PagesTypeOK' /\ Journeys'
<1> DEFINE v == IF req[q].outcome = "ok" THEN "ok"
                ELSE IF post[q].from \in Scripted THEN "invalid" ELSE "offline"
<1>1. /\ PagesTypeOK /\ Journeys /\ post[q] \in Post
      /\ Journey(post[q], req[q]) /\ page' = page /\ req' = req
      /\ page \in [Pages -> Page] /\ post[q].pc = "begun" /\ req[q].pc = "done"
      /\ Becomes(q, Answered(q, v))
  BY DEF IInv, PagesTypeOK, Journeys, Respond, vars
<1>2. req[q].outcome \in {"ok", "aborted"}
  BY <1>1 DEF Journey, Sound
<1>3. v \in Verdicts /\ So(post[q], req[q], v)
  BY <1>1, <1>2 DEF Verdicts, So, Refusals
<1> HIDE DEF v
<1>4. Answered(q, v) \in Post /\ Journey(Answered(q, v), req[q])
  BY <1>1, <1>3, Keeping, AnswerGiven
<1> QED BY <1>1, <1>4, OnePost DEF Becomes

LEMMA DisconnectStep ==
  ASSUME IInv, NEW q \in Requests, Disconnect(q)
  PROVE  PagesTypeOK' /\ Journeys'
<1>1. /\ PagesTypeOK /\ Journeys /\ post[q] \in Post
      /\ Journey(post[q], req[q]) /\ page' = page /\ req' = req
      /\ page \in [Pages -> Page]
  BY DEF IInv, PagesTypeOK, Journeys, Disconnect, vars
<1>2. CASE Becomes(q, [post[q] EXCEPT !.lost = TRUE])
  <2> DEFINE p == [post[q] EXCEPT !.lost = TRUE]
  <2>1. p \in Post /\ p.pc = post[q].pc /\ p.name = post[q].name /\ p.answer = post[q].answer
        /\ p.trapped = post[q].trapped /\ p.told = post[q].told
    BY <1>1 DEF Post
  <2>2. Journey(p, req[q])
    <3> HIDE DEF p
    <3> QED BY <1>1, <2>1 DEF Journey, So
  <2> QED BY <1>1, <1>2, <2>1, <2>2, OnePost DEF Becomes
<1>3. CASE post[q].pc \in Reading /\ Becomes(q, [Kept(q) EXCEPT !.lost = TRUE, !.pc = "over"])
  <2> DEFINE p == [Kept(q) EXCEPT !.lost = TRUE, !.pc = "over"]
  <2>1. Kept(q) \in Post /\ Kept(q).told = post[q].told /\ Kept(q).trapped = post[q].trapped
    BY <1>1, Keeping
  <2>2. p \in Post /\ p.pc = "over" /\ p.trapped = post[q].trapped /\ p.told = post[q].told
    BY <2>1 DEF Post
  <2>3. Journey(p, req[q])
    <3> HIDE DEF p
    <3> QED BY <1>1, <2>2 DEF Journey, So, Reading
  <2>4. Becomes(q, p)
    BY <1>3
  <2> HIDE DEF p
  <2> QED BY <1>1, <2>2, <2>3, <2>4, OnePost DEF Becomes
<1> QED BY <1>2, <1>3 DEF Disconnect

\* Nobody is told anything by leaving.
LEMMA DeafPosts ==
  ASSUME PagesTypeOK, Journeys, NEW b \in Pages
  PROVE  /\ Deaf(b) \in [Requests -> Post]
         /\ \A q \in Requests : Journey(Deaf(b)[q], req[q])
<1>1. ASSUME NEW q \in Requests
      PROVE  Deaf(b)[q] \in Post /\ Journey(Deaf(b)[q], req[q])
  <2> DEFINE p == [post[q] EXCEPT !.told = "left"]
  <2>1. post[q] \in Post /\ Journey(post[q], req[q])
    BY DEF PagesTypeOK, Journeys
  <2>2. p \in Post /\ p.pc = post[q].pc /\ p.name = post[q].name /\ p.answer = post[q].answer
        /\ p.trapped = post[q].trapped /\ p.told = "left"
    BY <2>1 DEF Post
  <2>3. Journey(p, req[q])
    <3> HIDE DEF p
    <3> QED BY <2>1, <2>2 DEF Journey, So, Refusals
  <2>4. Deaf(b)[q] = post[q] \/ Deaf(b)[q] = p
    BY DEF Deaf
  <2> HIDE DEF p
  <2> QED BY <2>1, <2>2, <2>3, <2>4
<1> QED BY <1>1 DEF Deaf

\* The steps of a page: the requests stand still.
LEMMA PageStep ==
  ASSUME IInv, NEW b \in Pages,
         (\E q \in Requests : Send(b, q)) \/ GiveUp(b) \/ Reload(b) \/ Hear(b)
  PROVE  PagesTypeOK' /\ Journeys'
<1> USE DEF IInv
<1>1. /\ PagesTypeOK /\ Journeys /\ req \in [Requests -> Request]
      /\ post \in [Requests -> Post] /\ page \in [Pages -> Page]
      /\ None \notin Requests
      /\ \A q \in Requests : Journey(post[q], req[q])
  BY RsvpAssumption DEF Inv, Shape, TypeOK, PagesTypeOK, Journeys
<1>2. req' = req
  BY DEF Send, GiveUp, Reload, Hear, vars
<1>3. ASSUME NEW w \in Requests \cup {None}, NEW v \in Verdicts \cup {None}
      PROVE  [page EXCEPT ![b].waits = w, ![b].says = v] \in [Pages -> Page]
  BY <1>1 DEF Page
<1>4. CASE \E q \in Requests : Send(b, q)
  <2> PICK q \in Requests : Send(b, q)
    BY <1>4
  <2> PICK n \in Names, attending \in BOOLEAN, p \in 1..PartyLimit, fields \in Fields :
        post' = [Deaf(b) EXCEPT ![q] = [NoPost EXCEPT !.pc = "sent", !.from = b, !.name = n,
                                          !.attending = attending, !.party = p,
                                          !.shaped = Shaped(fields), !.trapped = fields = "trap"]]
    BY DEF Send
  <2> DEFINE k1 == [NoPost EXCEPT !.pc = "sent", !.from = b, !.name = n]
             k2 == [k1 EXCEPT !.attending = attending, !.party = p]
             k3 == [k2 EXCEPT !.shaped = Shaped(fields), !.trapped = fields = "trap"]
  <2>1. k1 \in Post /\ k1.pc = "sent" /\ k1.name = n /\ k1.told = None
    BY NewPost DEF Post, Reading
  <2>2. k2 \in Post /\ k2.pc = "sent" /\ k2.name = n /\ k2.told = None
    <3>1. p \in 0..PartyLimit
      BY RsvpAssumption
    <3> HIDE DEF k1
    <3> QED BY <2>1, <3>1 DEF Post
  <2>3. k3 \in Post /\ k3.pc = "sent" /\ k3.name = n /\ k3.told = None
    <3>1. Shaped(fields) \in BOOLEAN /\ (fields = "trap") \in BOOLEAN
      BY DEF Shaped
    <3> HIDE DEF k2
    <3> QED BY <2>2, <3>1 DEF Post
  <2>4. post' = [Deaf(b) EXCEPT ![q] = k3]
    OBVIOUS
  <2> HIDE DEF k3
  <2>5. req[q] = Fresh
    BY DEF Send
  <2>6. Journey(k3, req[q])
    BY <2>3, <2>5, FreshSound, GuestPageAssumption DEF Journey, So, Reading, Refusals, Verdicts
  <2>7. page' \in [Pages -> Page]
    BY <1>3 DEF Send
  <2>8. Deaf(b) \in [Requests -> Post] /\ \A r \in Requests : Journey(Deaf(b)[r], req[r])
    BY <1>1, DeafPosts
  <2>9. post' \in [Requests -> Post] /\ \A r \in Requests : Journey(post'[r], req[r])
    BY <2>3, <2>4, <2>6, <2>8
  <2> QED BY <1>2, <2>7, <2>9 DEF PagesTypeOK, Journeys
<1>5. CASE GiveUp(b)
  <2> DEFINE q == page[b].waits
             p == [post[q] EXCEPT !.told = "offline"]
  <2>1. q \in Requests
    BY <1>1, <1>5 DEF GiveUp, Page
  <2>2. post' = [post EXCEPT ![q] = p]
    BY <1>1, <1>5, <2>1 DEF GiveUp
  <2>3. page' \in [Pages -> Page]
    BY <1>3, <1>5 DEF GiveUp, Verdicts
  <2>4. p \in Post /\ p.pc = post[q].pc /\ p.name = post[q].name /\ p.answer = post[q].answer
        /\ p.trapped = post[q].trapped /\ p.told = "offline"
    BY <1>1, <2>1 DEF Post, Verdicts
  <2> HIDE DEF p
  <2>5. Journey(p, req[q])
    BY <1>1, <2>1, <2>4 DEF Journey, So, Refusals
  <2> HIDE DEF q
  <2> QED BY <1>1, <1>2, <2>1, <2>2, <2>3, <2>4, <2>5, OnePost
<1>6. CASE Reload(b)
  <2>1. page' \in [Pages -> Page] /\ post' = Deaf(b)
    BY <1>3, <1>6 DEF Reload
  <2>2. Deaf(b) \in [Requests -> Post] /\ \A r \in Requests : Journey(Deaf(b)[r], req[r])
    BY <1>1, DeafPosts
  <2> QED BY <1>2, <2>1, <2>2 DEF PagesTypeOK, Journeys
<1>7. CASE Hear(b)
  <2> DEFINE q == page[b].waits
             v == Shown(b, post[q].answer)
             p == [Kept(q) EXCEPT !.pc = "over", !.told = v]
  <2>1. q \in Requests
    BY <1>1, <1>7 DEF Hear, Page
  <2>2. post' = [post EXCEPT ![q] = p] /\ post[q].pc = "answered"
    BY <1>7 DEF Hear
  <2>3. So(post[q], req[q], post[q].answer) /\ post[q].answer \in Verdicts \cup {None}
        /\ Sound(req[q])
    BY <1>1, <2>1, <2>2 DEF Journey, Post
  <2>4. So(post[q], req[q], v) /\ v \in Verdicts \cup {None}
    BY <2>3 DEF Shown, So, Refusals, Verdicts
  <2>5. Kept(q) \in Post /\ Kept(q).trapped = post[q].trapped
    BY <1>1, <2>1, Keeping
  <2>6. page' \in [Pages -> Page]
    <3> DEFINE t == IF b \in Scripted /\ req[q].outcome = "ok" THEN q ELSE page[b].token
    <3>1. t \in Requests \cup {None}
      BY <1>1, <2>1 DEF Page
    <3>2. page' = [page EXCEPT ![b].waits = None, ![b].says = v, ![b].token = t]
      BY <1>1, <1>7 DEF Hear
    <3> HIDE DEF t, v
    <3> QED BY <1>1, <2>4, <3>1, <3>2 DEF Page
  <2> HIDE DEF v
  <2>7. p \in Post /\ p.pc = "over" /\ p.told = v /\ p.trapped = post[q].trapped
    BY <2>4, <2>5 DEF Post
  <2> HIDE DEF p
  <2>8. Journey(p, req[q])
    BY <2>3, <2>4, <2>7 DEF Journey, So, Reading
  <2> HIDE DEF q
  <2> QED BY <1>1, <1>2, <2>1, <2>2, <2>6, <2>7, <2>8, OnePost
<1> QED BY <1>4, <1>5, <1>6, <1>7

\* A request moves in the transactions while its post waits for it, or has no post.
LEMMA TransactionStep ==
  ASSUME IInv, NEW q \in Requests, Advance(q) \/ Abort(q), UNCHANGED <<page, post>>
  PROVE  PagesTypeOK' /\ Journeys'
<1>1. /\ PagesTypeOK /\ req \in [Requests -> Request]
      /\ \A p \in Requests : Journey(post[p], req[p])
  BY DEF IInv, Inv, Shape, TypeOK, Journeys
<1>2. /\ req[q].pc \in {"lock", "read", "write"}
      /\ \E r : req' = [req EXCEPT ![q] = r] /\ Sound(r) /\ r.kind = req[q].kind
  <2>1. Inv /\ Sound(req[q])
    BY <1>1 DEF IInv, Journey
  <2> QED BY <2>1, Moves
<1>3. PICK r : req' = [req EXCEPT ![q] = r] /\ Sound(r) /\ r.kind = req[q].kind
  BY <1>2
<1>4. req[q] # Fresh /\ req[q].pc # "done"
  BY <1>2, FreshSound
<1>5. Journey(post[q], r)
  BY <1>1, <1>3, <1>4 DEF Journey, So
<1>6. \A p \in Requests : Journey(post'[p], req'[p])
  BY <1>1, <1>3, <1>5
<1> QED BY <1>1, <1>6 DEF PagesTypeOK, Journeys

\* A client of the JSON form starts a request that no page made.
LEMMA ClientStep ==
  ASSUME IInv, NEW q \in Requests, Replies(q)
  PROVE  PagesTypeOK' /\ Journeys'
<1>1. /\ PagesTypeOK /\ req \in [Requests -> Request] /\ post[q] = NoPost
      /\ \A p \in Requests : Journey(post[p], req[p])
      /\ UNCHANGED <<page, post>>
  BY DEF IInv, Inv, Shape, TypeOK, Journeys, Replies
<1>2. \E r : req' = [req EXCEPT ![q] = r] /\ r.pc = "lock" /\ r.outcome = None
  <2>1. ASSUME NEW g, NEW a, NEW n, SubmitStart(q, g, a, n)
        PROVE  \E r : req' = [req EXCEPT ![q] = r] /\ r.pc = "lock" /\ r.outcome = None
    <3> DEFINE r == [Fresh EXCEPT !.kind = "submit", !.pc = "lock", !.guest = g, !.attending = a,
                                  !.party = IF a THEN n ELSE 0, !.now = clock]
    <3>1. req' = [req EXCEPT ![q] = r]
      BY <2>1 DEF SubmitStart
    <3>2. r.pc = "lock" /\ r.outcome = None
      BY DEF Fresh
    <3> QED BY <3>1, <3>2
  <2>2. ASSUME NEW g, NEW a, NEW n, EditStart(q, g, a, n)
        PROVE  \E r : req' = [req EXCEPT ![q] = r] /\ r.pc = "lock" /\ r.outcome = None
    <3> DEFINE r == [Fresh EXCEPT !.kind = "edit", !.pc = "lock", !.id = req[g].id, !.token = g,
                                  !.attending = a, !.party = IF a THEN n ELSE 0, !.now = clock]
    <3>1. req' = [req EXCEPT ![q] = r]
      BY <2>2 DEF EditStart
    <3>2. r.pc = "lock" /\ r.outcome = None
      BY DEF Fresh
    <3> QED BY <3>1, <3>2
  <2>3. ASSUME NEW g, DeleteStart(q, g)
        PROVE  \E r : req' = [req EXCEPT ![q] = r] /\ r.pc = "lock" /\ r.outcome = None
    <3> DEFINE r == [Fresh EXCEPT !.kind = "delete", !.pc = "lock", !.id = reply[g].id, !.now = clock]
    <3>1. req' = [req EXCEPT ![q] = r]
      BY <2>3 DEF DeleteStart
    <3>2. r.pc = "lock" /\ r.outcome = None
      BY DEF Fresh
    <3> QED BY <3>1, <3>2
  <2>4. Start(q)
    BY DEF Replies
  <2>5. \/ \E g \in Guests, a \in BOOLEAN, n \in 0..PartyLimit : SubmitStart(q, g, a, n)
        \/ \E g \in Requests, a \in BOOLEAN, n \in 0..PartyLimit : EditStart(q, g, a, n)
        \/ \E g \in Guests : DeleteStart(q, g)
    BY <2>4 DEF Start
  <2> QED BY <2>1, <2>2, <2>3, <2>5
<1>3. Journey(NoPost, req'[q])
  BY <1>1, <1>2, NewPost, GuestPageAssumption DEF Journey, So, Sound, Reading, Verdicts, Refusals
<1>4. \A p \in Requests : Journey(post'[p], req'[p])
  BY <1>1, <1>2, <1>3
<1> QED BY <1>1, <1>4 DEF PagesTypeOK, Journeys

\* The invariant holds at the start.
LEMMA PagesStart ==
  ASSUME Init, PagesInit
  PROVE  IInv
<1>1. PagesTypeOK
  BY NewPost DEF PagesInit, PagesTypeOK
<1>2. Journey(NoPost, Fresh)
  BY NewPost, FreshSound, GuestPageAssumption DEF Journey, So, Reading, Verdicts, Refusals
<1>3. Journeys
  BY <1>2 DEF PagesInit, Init, Journeys
<1> QED BY <1>1, <1>3, InvInit DEF IInv

\* Every step keeps it.
LEMMA PagesStepKeeps ==
  ASSUME IInv, [PagesNext]_pageVars
  PROVE  IInv'
<1>1. Inv'
  BY PagesStepIsRsvpStep, EveryStep DEF IInv
<1>2. ASSUME UNCHANGED <<page, post, req>> PROVE PagesTypeOK' /\ Journeys'
  BY <1>2 DEF IInv, PagesTypeOK, Journeys
<1>3. ASSUME NEW q \in Requests, Disconnect(q) PROVE PagesTypeOK' /\ Journeys'
  BY <1>3, DisconnectStep
<1>4. ASSUME NEW q \in Requests, Serve(q) \/ Fails(q) PROVE PagesTypeOK' /\ Journeys'
  BY <1>4, AdmitStep, BeginStep, RespondStep, TransactionStep DEF Serve, Handle, Fails
<1>5. ASSUME NEW q \in Requests, Replies(q) PROVE PagesTypeOK' /\ Journeys'
  BY <1>5, ClientStep
<1>6. Around => UNCHANGED <<page, post, req>>
  BY DEF Around, ChangePolicy, Tick
<1>7. UNCHANGED pageVars => UNCHANGED <<page, post, req>>
  BY DEF pageVars, vars
<1>8. PagesTypeOK' /\ Journeys'
  BY <1>2, <1>3, <1>4, <1>5, <1>6, <1>7, PageStep DEF PagesNext
<1> QED BY <1>1, <1>8 DEF IInv

LEMMA PagesInvariant == PagesSpec => []IInv
<1>1. Init /\ PagesInit => IInv
  BY PagesStart
<1>2. IInv /\ [PagesNext]_pageVars => IInv'
  BY PagesStepKeeps
<1> QED BY <1>1, <1>2, PTL DEF PagesSpec

(* ------------------------------ the theorems --------------------------- *)

\* The pages and the journeys of the posts always have the shape the code gives them.
THEOREM PagesTyped == PagesSpec => []PagesTypeOK
<1>1. IInv => PagesTypeOK
  BY DEF IInv
<1> QED BY <1>1, PagesInvariant, PTL

\* However forms are typed, tapped twice, admitted, challenged and cut off, what reaches the
\* repository is a behaviour of Rsvp, and all its theorems hold of the form too.
THEOREM PagesAreAWayToRsvp == PagesSpec => Spec
<1>1. IInv /\ [PagesNext]_pageVars => [Next]_vars
  BY PagesStepIsRsvpStep
<1> QED BY <1>1, PagesInvariant, PTL DEF PagesSpec, Spec

\* A guest is thanked for nothing but a reply that is recorded, or a trap that was filled in,
\* and refused only when nothing was recorded and nothing will be.
THEOREM GuestsAreToldTheTruth == PagesSpec => [](\A q \in Requests : Truthful(q))
<1>1. IInv => \A q \in Requests : Truthful(q)
  BY DEF IInv, Journeys, Journey, So, Refusals, Truthful
<1> QED BY <1>1, PagesInvariant, PTL

(* ------------------------------ the invariant -------------------------- *)

Buffered(v) == \E k \in DOMAIN buffer : buffer[k] = v

Held(v) == \E f \in Flushes : v \in flush[f].batch

\* A view is in the list once, in one run's batch or in the database, and only once pushed.
Placed ==
  /\ \A j, k \in DOMAIN buffer : buffer[j] = buffer[k] => j = k
  /\ \A f, g \in Flushes, v \in Views : v \in flush[f].batch /\ v \in flush[g].batch => f = g
  /\ \A v \in Views :
       /\ rows[v] \in {0, 1}
       /\ rows[v] = 1 => ~Buffered(v) /\ ~Held(v)
       /\ Held(v) => ~Buffered(v)
       /\ rows[v] = 1 \/ Buffered(v) \/ Held(v) => view[v].pc = "done"

\* A run holds no batch between batches; one refused by the foreign key holds a view of a
\* deleted invitation, and one that asked who survives knows all that do.
RunsKnow ==
  \A f \in Flushes :
    /\ flush[f].pc \in {"idle", "drain"} => flush[f].batch = {}
    /\ flush[f].pc = "alive" => \E u \in flush[f].batch : view[u].invitation \in gone
    /\ flush[f].pc = "retry" =>
         /\ Invitations \ gone \subseteq flush[f].alive
         /\ \E x \in gone : x \notin flush[f].alive

Untroubled == faults = 0 /\ ~overflowReported /\ Cardinality(gone) <= 1

\* With nothing to blame it on, no view that was pushed is missing.
NoneLost ==
  /\ faults = 0 => unreadable = {}
  /\ Untroubled =>
       \A v \in Views : view[v].pc = "done" /\ view[v].invitation \notin gone =>
         rows[v] = 1 \/ Buffered(v) \/ Held(v)

\* While Redis keeps them, a day has one salt and no two days have the same.
Salts ==
  ~restarted =>
    /\ \A d \in Days : salt[d] # Null => view[salt[d]].pc \notin {"new", "sent", "mint"}
    /\ \A d, e \in Days : salt[d] = salt[e] /\ salt[d] # Null => d = e
    /\ \A v \in Views :
         /\ view[v].pc = "read" => salt[view[v].at] # Null
         /\ view[v].pc \in {"push", "done"} =>
              salt[view[v].at] # Null /\ view[v].salt = salt[view[v].at]

\* All that is ever counted over is finite.
Finite ==
  /\ IsFiniteSet(gone) /\ IsFiniteSet({v \in Views : rows[v] > 0})
  /\ \A f \in Flushes : IsFiniteSet(flush[f].batch)

\* A view that was sent and not dropped names an invitation.
OnItsWay(v) == view[v].pc \notin {"new", "dropped"} => view[v].invitation \in Invitations

CountingInv == CountingTypeOK /\ Placed /\ RunsKnow /\ NoneLost /\ Salts /\ Finite /\ \A v \in Views : OnItsWay(v)

(* ------------------------------- the list ------------------------------ *)

\* What the assumption says of the names and the sizes.
LEMMA Sizes ==
  /\ Null \notin Views /\ BatchSize \in Nat \ {0} /\ MaxBatches \in Nat \ {0}
  /\ BufferMax \in Nat \ {0} /\ LastDay \in Nat /\ MaxFaults \in Nat
BY AnalyticsAssumption

\* LPUSH: the new entry is the first.
LEMMA Pushed ==
  ASSUME NEW s \in Seq(Views), NEW v \in Views
  PROVE  /\ <<v>> \o s \in Seq(Views) /\ Len(<<v>> \o s) = Len(s) + 1
         /\ (<<v>> \o s)[1] = v /\ \A k \in 1..Len(s) : (<<v>> \o s)[k + 1] = s[k]
OBVIOUS

\* LTRIM and RPOP leave the newest.
LEMMA Cut ==
  ASSUME NEW s \in Seq(Views), NEW n \in 0..Len(s)
  PROVE  /\ SubSeq(s, 1, n) \in Seq(Views) /\ Len(SubSeq(s, 1, n)) = n
         /\ \A k \in 1..n : SubSeq(s, 1, n)[k] = s[k]
OBVIOUS

\* Two different members make a set of more than one.
LEMMA MoreThanOne ==
  ASSUME NEW S, IsFiniteSet(S), NEW x \in S, NEW y \in S, x # y
  PROVE  ~(Cardinality(S) <= 1)
<1>1. IsFiniteSet({x}) /\ Cardinality({x}) = 1
  BY FS_Singleton
<1>2. Cardinality({x} \cup {y}) = 2
  BY <1>1, FS_AddElement
<1>3. Cardinality({x} \cup {y}) <= Cardinality(S)
  BY FS_Subset
<1>4. Cardinality(S) \in Nat
  BY FS_CardinalityType
<1> QED BY <1>2, <1>3, <1>4

\* A batch is finite: it is read from the list.
LEMMA BatchFinite ==
  ASSUME NEW s \in Seq(Views), NEW I \in SUBSET (1..Len(s))
  PROVE  IsFiniteSet({s[k] : k \in I})
<1>1. IsFiniteSet(I)
  <2>1. IsFiniteSet(1..Len(s))
    BY FS_Interval
  <2> QED BY <2>1, FS_Subset
<1> DEFINE g == [k \in I |-> s[k]]
<1>2. g \in Surjection(I, {s[k] : k \in I})
  BY DEF Surjection
<1> QED BY <1>1, <1>2, FS_Surjection

(* ------------------------------ one beacon ----------------------------- *)

\* A beacon that is not pushed yet moves on, and nothing else but the salts.
LEMMA BeaconKeeps ==
  ASSUME CountingInv, NEW v \in Views, view[v].pc # "done", view'[v].pc # "done",
         \A u \in Views : u # v => view'[u] = view[u],
         UNCHANGED <<gone, buffer, unreadable, flush, rows, overflowReported>>,
         faults' = 0 => faults = 0
  PROVE  Placed' /\ RunsKnow' /\ NoneLost' /\ Finite'
<1>1. Placed /\ RunsKnow /\ NoneLost /\ Finite
  BY DEF CountingInv
<1>2. \A u \in Views : (Buffered(u)' <=> Buffered(u)) /\ (Held(u)' <=> Held(u))
  BY DEF Buffered, Held
<1>3. Placed'
  BY <1>1, <1>2 DEF Placed
<1>4. RunsKnow'
  <2>1. \A f \in Flushes : flush[f].batch \subseteq Views
    BY DEF CountingInv, CountingTypeOK, Flush
  <2>2. \A f \in Flushes : \A u \in flush[f].batch : view'[u] = view[u]
    BY <1>1, <2>1 DEF Placed, Held
  <2> QED BY <1>1, <2>2 DEF RunsKnow
<1>5. NoneLost'
  BY <1>1, <1>2 DEF NoneLost, Untroubled
<1>6. Finite'
  BY <1>1 DEF Finite
<1> QED BY <1>3, <1>4, <1>5, <1>6

\* The steps of a beacon until it is pushed.
LEMMA BeaconInv ==
  ASSUME CountingInv, NEW v \in Views,
         \/ \E visitor \in Visitors, i \in Invitations : Report(v, visitor, i)
         \/ TurnAway(v) \/ Resolve(v) \/ Unavailable(v) \/ MintSalt(v) \/ ReadSalt(v)
         \/ \E u \in Views : PushAgain(u, v)
  PROVE  CountingInv'
<1>1. CountingTypeOK /\ Salts /\ OnItsWay(v) /\ view \in [Views -> View] /\ view[v] \in View
  BY DEF CountingInv, CountingTypeOK
<1>2. Null \notin Views /\ NewView \in View /\ [NewView EXCEPT !.pc = "dropped"] \in View
      /\ [NewView EXCEPT !.pc = "dropped"].pc = "dropped" /\ 0 \in Days
  BY Sizes DEF NewView, View, Days
<1>3. ASSUME NEW w \in View, view' = [view EXCEPT ![v] = w], w.pc # "done", view[v].pc # "done",
             w.pc \notin {"new", "dropped"} => w.invitation \in Invitations,
             salt' \in [Days -> Views \cup {Null}], faults' \in 0..MaxFaults,
             UNCHANGED <<gone, day, buffer, unreadable, flush, rows, overflowReported, restarted>>,
             faults' = 0 => faults = 0, Salts'
      PROVE  CountingInv'
  <2>1. view' \in [Views -> View] /\ view'[v] = w /\ \A u \in Views : u # v => view'[u] = view[u]
    BY <1>1, <1>3
  <2>2. CountingTypeOK'
    BY <1>1, <1>3, <2>1 DEF CountingTypeOK
  <2>3. \A u \in Views : OnItsWay(u)'
    BY <1>3, <2>1 DEF OnItsWay, CountingInv
  <2> QED BY <1>3, <2>1, <2>2, <2>3, BeaconKeeps DEF CountingInv
<1>4. ASSUME NEW w \in View, view' = [view EXCEPT ![v] = w], salt' = salt, restarted' = restarted,
             w.pc \in {"new", "sent", "mint"} => view[v].pc \in {"new", "sent", "mint"},
             w.pc \notin {"read", "done"}, 
             w.pc = "push" => (salt[w.at] # Null /\ w.salt = salt[w.at]) \/ restarted
      PROVE  Salts'
  <2>1. view'[v] = w /\ \A u \in Views : u # v => view'[u] = view[u]
    BY <1>1, <1>4
  <2>2. salt \in [Days -> Views \cup {Null}]
    BY <1>1 DEF CountingTypeOK
  <2> QED BY <1>1, <1>4, <2>1, <2>2 DEF Salts
<1>5. faults \in 0..MaxFaults /\ salt \in [Days -> Views \cup {Null}] /\ faults \in Int
  BY <1>1, Sizes DEF CountingTypeOK
<1>6. ASSUME NEW visitor \in Visitors, NEW i \in Invitations, Report(v, visitor, i) PROVE CountingInv'
  <2> DEFINE a == [view[v] EXCEPT !.pc = "sent"]
             b == [a EXCEPT !.invitation = i]
             w == [b EXCEPT !.visitor = visitor]
  <2>1. a \in View /\ a.pc = "sent"
    BY <1>1 DEF View
  <2>2. view' = [view EXCEPT ![v] = w] /\ view[v].pc = "new"
    BY <1>6 DEF Report, NextView
  <2> HIDE DEF a
  <2>3. b \in View /\ b.pc = "sent" /\ b.invitation = i
    BY <2>1 DEF View
  <2> HIDE DEF b
  <2>4. w \in View /\ w.pc = "sent" /\ w.invitation = i
    BY <2>3 DEF View
  <2> HIDE DEF w
  <2>5. Salts'
    BY <1>4, <1>6, <2>2, <2>4 DEF Report, NextView
  <2> QED BY <1>3, <1>5, <1>6, <2>2, <2>4, <2>5 DEF Report, NextView
<1>7. ASSUME Drop(v), view[v].pc # "done", UNCHANGED <<salt, restarted>> PROVE Salts'
  BY <1>2, <1>4, <1>7 DEF Drop
<1>8. ASSUME TurnAway(v) PROVE CountingInv'
  BY <1>2, <1>3, <1>5, <1>7, <1>8 DEF TurnAway, Drop
<1>9. ASSUME Unavailable(v) PROVE CountingInv'
  <2>1. faults' \in 0..MaxFaults /\ faults' # 0
    BY <1>5, <1>9, Sizes DEF Unavailable, Fail
  <2> QED BY <1>2, <1>3, <1>5, <1>7, <1>9, <2>1 DEF Unavailable, Drop
<1>10. ASSUME Resolve(v) PROVE CountingInv'
  <2> DEFINE a == [view[v] EXCEPT !.pc = "mint"]
             w == [a EXCEPT !.at = day]
  <2>1. a \in View /\ a.pc = "mint" /\ a.invitation = view[v].invitation
    BY <1>1 DEF View
  <2>2. view' = [view EXCEPT ![v] = w] /\ view[v].pc = "sent" /\ day \in Days
    BY <1>1, <1>10 DEF Resolve, CountingTypeOK
  <2> HIDE DEF a
  <2>3. w \in View /\ w.pc = "mint" /\ w.invitation = view[v].invitation
    BY <2>1, <2>2 DEF View
  <2> HIDE DEF w
  <2>4. Salts'
    BY <1>4, <1>10, <2>2, <2>3 DEF Resolve
  <2>5. w.invitation \in Invitations
    BY <1>1, <2>2, <2>3 DEF OnItsWay
  <2> QED BY <1>3, <1>5, <1>10, <2>2, <2>3, <2>4, <2>5 DEF Resolve
<1>11. ASSUME MintSalt(v) PROVE CountingInv'
  <2> DEFINE w == [view[v] EXCEPT !.pc = "read"]
  <2>1. w \in View /\ w.pc = "read" /\ w.at = view[v].at /\ w.invitation = view[v].invitation
        /\ w.at \in Days
    BY <1>1 DEF View
  <2>2. view' = [view EXCEPT ![v] = w] /\ view[v].pc = "mint" /\ restarted' = restarted
    BY <1>11 DEF MintSalt
  <2> HIDE DEF w
  <2>3. /\ salt' \in [Days -> Views \cup {Null}]
        /\ \A d \in Days : d # w.at => salt'[d] = salt[d]
        /\ salt'[w.at] = IF salt[w.at] = Null THEN v ELSE salt[w.at]
    BY <1>5, <1>11, <2>1 DEF MintSalt
  <2>4. view'[v] = w /\ \A u \in Views : u # v => view'[u] = view[u]
    BY <1>1, <2>2
  <2>5. Salts'
    <3> SUFFICES ASSUME ~restarted PROVE Salts'
      BY <2>2 DEF Salts
    <3>1. \A d \in Days : salt[d] # v
      BY <1>1, <1>2, <2>2 DEF Salts
    <3>2. \A d \in Days : salt'[d] # Null => view'[salt'[d]].pc \notin {"new", "sent", "mint"}
      BY <1>1, <1>5, <2>1, <2>3, <2>4 DEF Salts
    <3>3. \A d, e \in Days : salt'[d] = salt'[e] /\ salt'[d] # Null => d = e
      BY <1>1, <1>5, <2>1, <2>3, <3>1 DEF Salts
    <3>4. ASSUME NEW u \in Views
          PROVE  /\ view'[u].pc = "read" => salt'[view'[u].at] # Null
                 /\ view'[u].pc \in {"push", "done"} =>
                      salt'[view'[u].at] # Null /\ view'[u].salt = salt'[view'[u].at]
      <4>1. CASE u = v
        BY <1>2, <2>1, <2>3, <2>4, <4>1
      <4>2. CASE u # v
        <5>1. view'[u] = view[u] /\ view[u].at \in Days
          BY <1>1, <2>4, <4>2 DEF View
        <5>2. salt[view[u].at] # Null => salt'[view[u].at] = salt[view[u].at]
          BY <2>3, <5>1
        <5> QED BY <1>1, <5>1, <5>2 DEF Salts
      <4> QED BY <4>1, <4>2
    <3> QED BY <3>2, <3>3, <3>4 DEF Salts
  <2>6. w.invitation \in Invitations
    BY <1>1, <2>1, <2>2 DEF OnItsWay
  <2> QED BY <1>3, <1>5, <1>11, <2>1, <2>2, <2>3, <2>5, <2>6 DEF MintSalt
<1>12. ASSUME ReadSalt(v) PROVE CountingInv'
  <2> DEFINE a == [view[v] EXCEPT !.pc = "push"]
             s == IF salt[view[v].at] = Null THEN v ELSE salt[view[v].at]
             w == [a EXCEPT !.salt = s]
  <2>1. a \in View /\ a.pc = "push" /\ a.invitation = view[v].invitation /\ a.at = view[v].at
        /\ a.at \in Days
    BY <1>1 DEF View
  <2>2. view' = [view EXCEPT ![v] = w] /\ view[v].pc = "read"
    BY <1>12 DEF ReadSalt
  <2>3. s \in Views \cup {Null}
    BY <1>5, <2>1
  <2> HIDE DEF a
  <2>4. w \in View /\ w.pc = "push" /\ w.invitation = view[v].invitation /\ w.at = view[v].at
        /\ w.salt = s
    BY <2>1, <2>3 DEF View
  <2> HIDE DEF w
  <2>5. ~restarted => salt[w.at] # Null /\ w.salt = salt[w.at]
    BY <1>1, <2>2, <2>4 DEF Salts
  <2>6. Salts'
    BY <1>4, <1>12, <2>2, <2>4, <2>5 DEF ReadSalt
  <2>7. w.invitation \in Invitations
    BY <1>1, <2>2, <2>4 DEF OnItsWay
  <2> QED BY <1>3, <1>5, <1>12, <2>2, <2>4, <2>6, <2>7 DEF ReadSalt
<1>13. ASSUME NEW u \in Views, PushAgain(u, v) PROVE CountingInv'
  <2> DEFINE w == view[u]
  <2>1. /\ w \in View /\ w.pc = "push" /\ view[v].pc = "new" /\ view' = [view EXCEPT ![v] = w]
        /\ UNCHANGED <<gone, day, salt, buffer, unreadable, flush, rows, overflowReported, restarted>>
        /\ faults' = faults + 1 /\ faults < MaxFaults
    BY <1>1, <1>13 DEF PushAgain, NextView, Fail
  <2>2. (salt[w.at] # Null /\ w.salt = salt[w.at]) \/ restarted
    BY <1>1, <2>1 DEF Salts
  <2>3. w.invitation \in Invitations
    BY <2>1 DEF CountingInv, OnItsWay
  <2>4. faults' \in 0..MaxFaults /\ faults' # 0
    BY <1>5, <2>1, Sizes
  <2> HIDE DEF w
  <2>5. Salts'
    BY <1>4, <2>1, <2>2
  <2> QED BY <1>3, <1>5, <2>1, <2>3, <2>4, <2>5
<1> QED BY <1>6, <1>8, <1>9, <1>10, <1>11, <1>12, <1>13

\* A view that is not yet pushed is nowhere.
LEMMA NotYet ==
  ASSUME CountingInv, NEW v \in Views, view[v].pc # "done"
  PROVE  rows[v] = 0 /\ ~Buffered(v) /\ ~Held(v)
BY DEF CountingInv, Placed

\* The list after a push: the new view first, then those that were there, the oldest cut
\* off at the cap, which is said.
LEMMA PushedList ==
  ASSUME CountingInv, NEW v \in Views, Push(v)
  PROVE  /\ buffer' \in Seq(Views) /\ Len(buffer') \in 1..BufferMax /\ buffer'[1] = v
         /\ \A k \in 2..Len(buffer') : k - 1 \in 1..Len(buffer) /\ buffer'[k] = buffer[k - 1]
         /\ overflowReported' \in BOOLEAN
         /\ ~overflowReported' => ~overflowReported /\ Len(buffer') = Len(buffer) + 1
<1>1. buffer \in Seq(Views) /\ overflowReported \in BOOLEAN /\ Len(buffer) \in Nat
  <2>1. buffer \in Seq(Views) /\ overflowReported \in BOOLEAN
    BY DEF CountingInv, CountingTypeOK
  <2> QED BY <2>1
<1> DEFINE p == <<v>> \o buffer
<1>2. p \in Seq(Views) /\ Len(p) = Len(buffer) + 1 /\ p[1] = v
      /\ \A k \in 1..Len(buffer) : p[k + 1] = buffer[k]
  BY <1>1, Pushed
<1>3. IF Len(p) > BufferMax
        THEN buffer' = SubSeq(p, 1, BufferMax) /\ overflowReported' = TRUE
        ELSE buffer' = p /\ UNCHANGED overflowReported
  BY DEF Push
<1>4. BufferMax \in Nat \ {0}
  BY Sizes
<1> HIDE DEF p
<1>5. \A k \in 2..Len(p) : k - 1 \in 1..Len(buffer) /\ p[k] = buffer[k - 1]
  <2> TAKE k \in 2..Len(p)
  <2>1. k - 1 \in 1..Len(buffer) /\ (k - 1) + 1 = k
    BY <1>1, <1>2
  <2> QED BY <1>2, <2>1
<1>6. CASE Len(p) > BufferMax
  <2>1. BufferMax \in 0..Len(p) /\ buffer' = SubSeq(p, 1, BufferMax) /\ overflowReported' = TRUE
    BY <1>1, <1>2, <1>3, <1>4, <1>6
  <2>2. /\ buffer' \in Seq(Views) /\ Len(buffer') = BufferMax
        /\ \A k \in 1..BufferMax : buffer'[k] = p[k]
    BY <1>2, <2>1, Cut
  <2> QED BY <1>1, <1>2, <1>4, <1>5, <1>6, <2>1, <2>2
<1>7. CASE ~(Len(p) > BufferMax)
  <2>1. buffer' = p /\ overflowReported' = overflowReported
    BY <1>3, <1>7
  <2> QED BY <1>1, <1>2, <1>4, <1>5, <1>7, <2>1
<1> QED BY <1>6, <1>7

\* A push puts the view where none of the others is.
LEMMA PushPlaces ==
  ASSUME CountingInv, NEW v \in Views, Push(v)
  PROVE  /\ view[v].pc = "push" /\ view' \in [Views -> View] /\ view'[v] = [view[v] EXCEPT !.pc = "done"]
         /\ view'[v].pc = "done" /\ view'[v].at = view[v].at /\ view'[v].salt = view[v].salt
         /\ view'[v].invitation = view[v].invitation
         /\ \A u \in Views : u # v => view'[u] = view[u]
         /\ Buffered(v)' /\ \A u \in Views : u # v /\ Buffered(u)' => Buffered(u)
         /\ ~overflowReported' => \A u \in Views : Buffered(u) => Buffered(u)'
         /\ \A j, k \in DOMAIN buffer' : buffer'[j] = buffer'[k] => j = k
<1>1. view \in [Views -> View] /\ view[v] \in View /\ Placed /\ buffer \in Seq(Views)
  BY DEF CountingInv, CountingTypeOK
<1>2. view[v].pc = "push" /\ view' = [view EXCEPT ![v].pc = "done"]
  BY DEF Push
<1> DEFINE w == [view[v] EXCEPT !.pc = "done"]
<1>3. w \in View /\ w.pc = "done" /\ w.at = view[v].at /\ w.salt = view[v].salt
      /\ w.invitation = view[v].invitation
  BY <1>1 DEF View
<1>4. view' = [view EXCEPT ![v] = w]
  BY <1>2
<1> HIDE DEF w
<1>5. view' \in [Views -> View] /\ view'[v] = w /\ \A u \in Views : u # v => view'[u] = view[u]
  BY <1>1, <1>3, <1>4
<1>a. /\ buffer' \in Seq(Views) /\ Len(buffer') \in 1..BufferMax
      /\ ~overflowReported' => Len(buffer') = Len(buffer) + 1
  BY PushedList
<1>6. /\ buffer'[1] = v
      /\ \A k \in 2..Len(buffer') : k - 1 \in 1..Len(buffer) /\ buffer'[k] = buffer[k - 1]
  BY PushedList
<1>7. DOMAIN buffer' = 1..Len(buffer') /\ DOMAIN buffer = 1..Len(buffer) /\ BufferMax \in Nat
      /\ Len(buffer) \in Nat /\ Len(buffer') \in Nat /\ 1 \in 1..Len(buffer')
  BY <1>1, <1>a, Sizes
<1>8. \A k \in 1..Len(buffer) : buffer[k] # v
  BY <1>2, <1>7, NotYet DEF Buffered
<1>9. Buffered(v)'
  BY <1>6, <1>7 DEF Buffered
<1>10. ASSUME NEW u \in Views, u # v, Buffered(u)' PROVE Buffered(u)
  <2>1. PICK k \in 1..Len(buffer') : buffer'[k] = u
    BY <1>7, <1>10 DEF Buffered
  <2>2. k \in 2..Len(buffer')
    BY <1>6, <1>7, <1>10, <2>1
  <2>3. k - 1 \in DOMAIN buffer /\ buffer[k - 1] = u
    BY <1>6, <1>7, <2>1, <2>2
  <2> QED BY <2>3 DEF Buffered
<1>11. ASSUME ~overflowReported', NEW u \in Views, Buffered(u) PROVE Buffered(u)'
  <2>1. PICK k \in 1..Len(buffer) : buffer[k] = u
    BY <1>7, <1>11 DEF Buffered
  <2>2. k + 1 \in 2..Len(buffer') /\ (k + 1) - 1 = k
    BY <1>a, <1>7, <1>11, <2>1
  <2>3. buffer'[k + 1] = u /\ k + 1 \in DOMAIN buffer'
    BY <1>6, <1>7, <2>1, <2>2
  <2> QED BY <2>3 DEF Buffered
<1>12. ASSUME NEW j \in DOMAIN buffer', NEW k \in DOMAIN buffer', buffer'[j] = buffer'[k]
       PROVE  j = k
  <2>1. j \in 1..Len(buffer') /\ k \in 1..Len(buffer')
    BY <1>7
  <2>2. CASE j = 1 \/ k = 1
    BY <1>6, <1>7, <1>8, <1>12, <2>1, <2>2
  <2>3. CASE j # 1 /\ k # 1
    <3>1. j \in 2..Len(buffer') /\ k \in 2..Len(buffer')
      BY <1>7, <2>1, <2>3
    <3>2. j - 1 \in DOMAIN buffer /\ k - 1 \in DOMAIN buffer /\ buffer[j - 1] = buffer[k - 1]
      BY <1>6, <1>7, <1>12, <3>1
    <3>3. j - 1 = k - 1
      BY <1>1, <3>2 DEF Placed
    <3> QED BY <3>1, <3>3
  <2> QED BY <2>2, <2>3
<1>13. view'[v] = [view[v] EXCEPT !.pc = "done"]
  BY <1>5 DEF w
<1>14. \A u \in Views : u # v /\ Buffered(u)' => Buffered(u)
  BY <1>10
<1>15. ~overflowReported' => \A u \in Views : Buffered(u) => Buffered(u)'
  BY <1>11
<1>16. \A j, k \in DOMAIN buffer' : buffer'[j] = buffer'[k] => j = k
  BY <1>12
<1> QED BY <1>2, <1>3, <1>5, <1>9, <1>13, <1>14, <1>15, <1>16

\* Push.
LEMMA PushInv ==
  ASSUME CountingInv, NEW v \in Views, Push(v)
  PROVE  CountingInv'
<1>1. CountingTypeOK /\ Placed /\ RunsKnow /\ NoneLost /\ Salts /\ Finite /\ \A u \in Views : OnItsWay(u)
  BY DEF CountingInv
<1>2. /\ view[v].pc = "push" /\ view' \in [Views -> View] /\ view'[v].pc = "done"
      /\ view'[v].at = view[v].at /\ view'[v].salt = view[v].salt
      /\ view'[v].invitation = view[v].invitation
      /\ \A u \in Views : u # v => view'[u] = view[u]
      /\ Buffered(v)' /\ \A u \in Views : u # v /\ Buffered(u)' => Buffered(u)
      /\ ~overflowReported' => \A u \in Views : Buffered(u) => Buffered(u)'
      /\ \A j, k \in DOMAIN buffer' : buffer'[j] = buffer'[k] => j = k
  BY PushPlaces
<1>3. buffer' \in Seq(Views) /\ Len(buffer') \in 1..BufferMax /\ overflowReported' \in BOOLEAN
      /\ (~overflowReported' => ~overflowReported)
  BY PushedList
<1>4. UNCHANGED <<gone, day, salt, flush, rows, restarted>>
  BY DEF Push
<1>5. /\ unreadable' \in SUBSET Views /\ faults' \in 0..MaxFaults
      /\ faults' = 0 => faults = 0 /\ unreadable' = unreadable
  <2>1. unreadable \subseteq Views /\ faults \in 0..MaxFaults /\ MaxFaults \in Nat
    BY <1>1, Sizes DEF CountingTypeOK
  <2>2. UNCHANGED <<unreadable, faults>> \/ (Fail /\ unreadable' = unreadable \cup {v})
    BY DEF Push
  <2> QED BY <2>1, <2>2 DEF Fail
<1>6. rows[v] = 0 /\ ~Buffered(v) /\ ~Held(v)
  BY <1>2, NotYet
<1>7. \A u \in Views : Held(u)' <=> Held(u)
  BY <1>4 DEF Held
<1>8. CountingTypeOK'
  BY <1>1, <1>2, <1>3, <1>4, <1>5, Sizes DEF CountingTypeOK
<1>9. Placed'
  <2>1. /\ \A f, g \in Flushes, u \in Views : u \in flush'[f].batch /\ u \in flush'[g].batch => f = g
    BY <1>1, <1>4 DEF Placed
  <2>2. ASSUME NEW u \in Views
        PROVE  /\ rows'[u] \in {0, 1}
               /\ rows'[u] = 1 => ~Buffered(u)' /\ ~Held(u)'
               /\ Held(u)' => ~Buffered(u)'
               /\ rows'[u] = 1 \/ Buffered(u)' \/ Held(u)' => view'[u].pc = "done"
    <3>1. rows'[u] = rows[u]
      BY <1>4
    <3>2. CASE u = v
      BY <1>2, <1>6, <1>7, <3>1, <3>2
    <3>3. CASE u # v
      BY <1>1, <1>2, <1>7, <3>1, <3>3 DEF Placed
    <3> QED BY <3>2, <3>3
  <2> QED BY <1>2, <2>1, <2>2 DEF Placed
<1>10. RunsKnow'
  <2>1. \A f \in Flushes : flush[f].batch \subseteq Views
    BY <1>1 DEF CountingTypeOK, Flush
  <2>2. \A f \in Flushes : \A u \in flush[f].batch : view'[u] = view[u]
    BY <1>2, <1>6, <2>1 DEF Held
  <2> QED BY <1>1, <1>4, <2>2 DEF RunsKnow
<1>11. NoneLost'
  <2>1. faults' = 0 => unreadable' = {}
    BY <1>1, <1>5 DEF NoneLost
  <2>2. ASSUME Untroubled', NEW u \in Views, view'[u].pc = "done", view'[u].invitation \notin gone'
        PROVE  rows'[u] = 1 \/ Buffered(u)' \/ Held(u)'
    <3>1. Untroubled /\ ~overflowReported'
      BY <1>3, <1>4, <1>5, <2>2 DEF Untroubled
    <3>2. CASE u = v
      BY <1>2, <3>2
    <3>3. CASE u # v
      BY <1>1, <1>2, <1>4, <1>7, <2>2, <3>1, <3>3 DEF NoneLost
    <3> QED BY <3>2, <3>3
  <2> QED BY <2>1, <2>2 DEF NoneLost
<1>12. Salts'
  <2> SUFFICES ASSUME ~restarted PROVE Salts'
    BY <1>4 DEF Salts
  <2>1. salt' = salt /\ salt \in [Days -> Views \cup {Null}]
    BY <1>1, <1>4 DEF CountingTypeOK
  <2>2. \A d \in Days : salt'[d] # Null => view'[salt'[d]].pc \notin {"new", "sent", "mint"}
    BY <1>1, <1>2, <2>1 DEF Salts
  <2>3. \A u \in Views :
          /\ view'[u].pc = "read" => salt'[view'[u].at] # Null
          /\ view'[u].pc \in {"push", "done"} =>
               salt'[view'[u].at] # Null /\ view'[u].salt = salt'[view'[u].at]
    BY <1>1, <1>2, <2>1 DEF Salts
  <2> QED BY <1>1, <2>1, <2>2, <2>3 DEF Salts
<1>13. Finite'
  BY <1>1, <1>4 DEF Finite
<1>14. \A u \in Views : OnItsWay(u)'
  BY <1>1, <1>2 DEF OnItsWay
<1> QED BY <1>8, <1>9, <1>10, <1>11, <1>12, <1>13, <1>14 DEF CountingInv

(* ------------------------------- the flush ----------------------------- *)

\* A step of one run: what it still holds was its own or in the list, what it wrote it
\* held, and with nothing to blame it on it let go of nothing.
LEMMA RunMoves ==
  ASSUME CountingInv, NEW f \in Flushes, NEW w \in Flush, flush' = [flush EXCEPT ![f] = w],
         UNCHANGED <<gone, day, salt, unreadable, view, overflowReported, restarted>>,
         buffer' \in Seq(Views), Len(buffer') <= BufferMax,
         \A j, k \in DOMAIN buffer' : buffer'[j] = buffer'[k] => j = k,
         \A u \in Views : Buffered(u)' => Buffered(u),
         rows' \in [Views -> {0, 1}], faults' \in 0..MaxFaults, faults' = 0 => faults = 0,
         IsFiniteSet(w.batch),
         \A u \in w.batch : (u \in flush[f].batch \/ Buffered(u)) /\ ~Buffered(u)' /\ rows'[u] = 0,
         \A u \in Views : rows'[u] = 1 =>
           rows[u] = 1 \/ (u \in flush[f].batch /\ u \notin w.batch),
         \A u \in Views : rows[u] = 1 => rows'[u] = 1,
         w.pc \in {"idle", "drain"} => w.batch = {},
         w.pc = "alive" => \E u \in w.batch : view[u].invitation \in gone,
         w.pc = "retry" =>
           Invitations \ gone \subseteq w.alive /\ \E x \in gone : x \notin w.alive,
         Untroubled' => \A u \in Views :
           view[u].invitation \notin gone /\ (Buffered(u) \/ u \in flush[f].batch) =>
             rows'[u] = 1 \/ Buffered(u)' \/ u \in w.batch
  PROVE  CountingInv'
<1>1. CountingTypeOK /\ Placed /\ RunsKnow /\ NoneLost /\ Salts /\ Finite /\ \A u \in Views : OnItsWay(u)
  BY DEF CountingInv
<1>2. flush \in [Flushes -> Flush] /\ rows \in [Views -> Nat]
  BY <1>1 DEF CountingTypeOK
<1>3. flush' \in [Flushes -> Flush] /\ flush'[f] = w /\ \A g \in Flushes : g # f => flush'[g] = flush[g]
  BY <1>2
<1>4. CountingTypeOK'
  BY <1>1, <1>3, Sizes DEF CountingTypeOK
<1>5. \A g \in Flushes : flush[g].batch \subseteq Views
  BY <1>2 DEF Flush
<1>6. w.batch \subseteq Views
  BY DEF Flush
<1>7. \A u \in w.batch : \A g \in Flushes : g # f => u \notin flush[g].batch
  <2> TAKE u \in w.batch
  <2> TAKE g \in Flushes
  <2>1. u \in Views /\ (u \in flush[f].batch \/ Buffered(u))
    BY <1>6
  <2>2. u \in flush[g].batch => Held(u)
    BY DEF Held
  <2>3. Held(u) => ~Buffered(u)
    BY <1>1, <2>1 DEF Placed
  <2> QED BY <1>1, <2>1, <2>2, <2>3 DEF Placed
<1>8. \A u \in Views : Held(u)' => u \in w.batch \/ \E g \in Flushes : g # f /\ u \in flush[g].batch
  BY <1>3 DEF Held
<1>9. Placed'
  <2>1. ASSUME NEW g \in Flushes, NEW h \in Flushes, NEW u \in Views,
               u \in flush'[g].batch, u \in flush'[h].batch
        PROVE  g = h
    <3>1. CASE g = f \/ h = f
      BY <1>3, <1>7, <2>1, <3>1
    <3>2. CASE g # f /\ h # f
      BY <1>1, <1>3, <2>1, <3>2 DEF Placed
    <3> QED BY <3>1, <3>2
  <2>2. ASSUME NEW u \in Views
        PROVE  /\ rows'[u] \in {0, 1}
               /\ rows'[u] = 1 => ~Buffered(u)' /\ ~Held(u)'
               /\ Held(u)' => ~Buffered(u)'
               /\ rows'[u] = 1 \/ Buffered(u)' \/ Held(u)' => view'[u].pc = "done"
    <3>1. /\ rows[u] \in {0, 1} /\ (rows[u] = 1 => ~Buffered(u) /\ ~Held(u))
          /\ (Held(u) => ~Buffered(u))
          /\ (rows[u] = 1 \/ Buffered(u) \/ Held(u) => view[u].pc = "done")
      BY <1>1 DEF Placed
    <3>2. u \in flush[f].batch => Held(u)
      BY DEF Held
    <3>3. CASE u \in w.batch
      <4>1. (u \in flush[f].batch \/ Buffered(u)) /\ ~Buffered(u)' /\ rows'[u] = 0
        BY <3>3
      <4>2. view'[u].pc = "done"
        BY <3>1, <3>2, <4>1
      <4> QED BY <4>1, <4>2
    <3>4. CASE u \notin w.batch
      <4>1. Held(u)' => Held(u) /\ u \notin flush[f].batch
        BY <1>1, <1>8, <3>4 DEF Held, Placed
      <4>2. rows'[u] \in {0, 1} /\ (Buffered(u)' => Buffered(u)) /\ view'[u] = view[u]
            /\ (rows'[u] = 1 => rows[u] = 1 \/ u \in flush[f].batch)
        OBVIOUS
      <4> QED BY <3>1, <3>2, <4>1, <4>2
    <3> QED BY <3>3, <3>4
  <2> QED BY <2>1, <2>2 DEF Placed
<1>10. RunsKnow'
  <2> SUFFICES ASSUME NEW g \in Flushes
               PROVE /\ flush'[g].pc \in {"idle", "drain"} => flush'[g].batch = {}
                     /\ flush'[g].pc = "alive" => \E u \in flush'[g].batch : view'[u].invitation \in gone'
                     /\ flush'[g].pc = "retry" =>
                          /\ Invitations \ gone' \subseteq flush'[g].alive
                          /\ \E x \in gone' : x \notin flush'[g].alive
    BY DEF RunsKnow
  <2>1. CASE g = f
    BY <1>3, <2>1
  <2>2. CASE g # f
    BY <1>1, <1>3, <2>2 DEF RunsKnow
  <2> QED BY <2>1, <2>2
<1>11. NoneLost'
  <2>1. faults' = 0 => unreadable' = {}
    BY <1>1 DEF NoneLost
  <2>2. ASSUME Untroubled', NEW u \in Views, view'[u].pc = "done", view'[u].invitation \notin gone'
        PROVE  rows'[u] = 1 \/ Buffered(u)' \/ Held(u)'
    <3>1. Untroubled
      BY <2>2 DEF Untroubled
    <3>2. rows[u] = 1 \/ Buffered(u) \/ Held(u)
      BY <1>1, <2>2, <3>1 DEF NoneLost
    <3>3. u \in w.batch => Held(u)'
      BY <1>3 DEF Held
    <3>4. CASE rows[u] = 1
      BY <3>4
    <3>5. CASE Buffered(u) \/ u \in flush[f].batch
      BY <2>2, <3>3, <3>5
    <3>6. CASE \E g \in Flushes : g # f /\ u \in flush[g].batch
      BY <1>3, <3>6 DEF Held
    <3> QED BY <3>2, <3>4, <3>5, <3>6 DEF Held
  <2> QED BY <2>1, <2>2 DEF NoneLost
<1>12. Salts'
  BY <1>1 DEF Salts
<1>13. Finite'
  <2>1. IsFiniteSet({u \in Views : rows[u] > 0} \cup flush[f].batch)
    BY <1>1, FS_Union DEF Finite
  <2>2. {u \in Views : rows'[u] > 0} \subseteq {u \in Views : rows[u] > 0} \cup flush[f].batch
    BY <1>2
  <2>3. IsFiniteSet({u \in Views : rows'[u] > 0})
    BY <2>1, <2>2, FS_Subset
  <2>4. \A g \in Flushes : IsFiniteSet(flush'[g].batch)
    BY <1>1, <1>3 DEF Finite
  <2> QED BY <1>1, <2>3, <2>4 DEF Finite
<1>14. \A u \in Views : OnItsWay(u)'
  BY <1>1 DEF OnItsWay
<1> QED BY <1>4, <1>9, <1>10, <1>11, <1>12, <1>13, <1>14 DEF CountingInv

\* What a run and its batch are.
LEMMA RunFacts ==
  ASSUME CountingInv, NEW f \in Flushes
  PROVE  /\ flush[f] \in Flush /\ flush[f].batch \subseteq Views /\ flush[f].left \in 0..MaxBatches
         /\ IsFiniteSet(flush[f].batch)
         /\ buffer \in Seq(Views) /\ Len(buffer) \in Nat /\ Len(buffer) <= BufferMax
         /\ \A j, k \in DOMAIN buffer : buffer[j] = buffer[k] => j = k
         /\ rows \in [Views -> {0, 1}] /\ faults \in 0..MaxFaults
         /\ \A u \in flush[f].batch : rows[u] = 0 /\ ~Buffered(u) /\ view[u].invitation \in Invitations
         /\ flush[f].pc \in {"idle", "drain"} => flush[f].batch = {}
<1>1. CountingTypeOK /\ Placed /\ RunsKnow /\ Finite /\ \A u \in Views : OnItsWay(u)
  BY DEF CountingInv
<1>2. flush[f] \in Flush /\ buffer \in Seq(Views) /\ rows \in [Views -> Nat]
      /\ faults \in 0..MaxFaults /\ Len(buffer) <= BufferMax
  BY <1>1 DEF CountingTypeOK
<1>3. flush[f].batch \subseteq Views /\ flush[f].left \in 0..MaxBatches
  BY <1>2 DEF Flush
<1>4. rows \in [Views -> {0, 1}]
  BY <1>1, <1>2 DEF Placed
<1>5. ASSUME NEW u \in flush[f].batch
      PROVE  rows[u] = 0 /\ ~Buffered(u) /\ view[u].invitation \in Invitations
  <2>1. u \in Views /\ Held(u)
    BY <1>3 DEF Held
  <2>2. rows[u] = 0 /\ ~Buffered(u) /\ view[u].pc = "done"
    BY <1>1, <1>4, <2>1 DEF Placed
  <2> QED BY <1>1, <2>1, <2>2 DEF OnItsWay
<1>6. Len(buffer) \in Nat
  BY <1>2
<1>7. \A j, k \in DOMAIN buffer : buffer[j] = buffer[k] => j = k
  BY <1>1 DEF Placed
<1>8. flush[f].pc \in {"idle", "drain"} => flush[f].batch = {}
  BY <1>1 DEF RunsKnow
<1>9. IsFiniteSet(flush[f].batch)
  BY <1>1 DEF Finite
<1> QED BY <1>2, <1>3, <1>4, <1>5, <1>6, <1>7, <1>8, <1>9

\* The run a batch is dealt with in goes on with an empty one.
LEMMA NextRow ==
  ASSUME CountingInv, NEW f \in Flushes, NextBatch(f)
  PROVE  \E w \in Flush : w.pc = "drain" /\ w.batch = {} /\ flush' = [flush EXCEPT ![f] = w]
<1> DEFINE a == [IdleFlush EXCEPT !.pc = "drain"]
           w == [a EXCEPT !.left = flush[f].left]
<1>1. a \in Flush /\ a.pc = "drain" /\ a.batch = {}
  BY Sizes DEF Flush, IdleFlush
<1>2. flush' = [flush EXCEPT ![f] = w]
  BY DEF NextBatch
<1>3. flush[f].left \in 0..MaxBatches
  BY RunFacts
<1> HIDE DEF a
<1>4. w \in Flush /\ w.pc = "drain" /\ w.batch = {}
  BY <1>1, <1>3 DEF Flush
<1> QED BY <1>2, <1>4

\* A batch is done with: some of it written, and none of it missed but for a reason.
LEMMA BatchDone ==
  ASSUME CountingInv, NEW f \in Flushes, NEW S \in SUBSET flush[f].batch, NextBatch(f),
         UNCHANGED rows \/ Insert(S), faults' \in 0..MaxFaults, faults' = 0 => faults = 0,
         UNCHANGED <<gone, day, salt, buffer, unreadable, view, overflowReported, restarted>>,
         Untroubled' => Insert(S) /\ Alive(flush[f].batch) \subseteq S
  PROVE  CountingInv'
<1>1. PICK w \in Flush : w.pc = "drain" /\ w.batch = {} /\ flush' = [flush EXCEPT ![f] = w]
  BY NextRow
<1>2. /\ flush[f].batch \subseteq Views /\ rows \in [Views -> {0, 1}]
      /\ \A u \in flush[f].batch : rows[u] = 0 
  BY RunFacts
<1>3. /\ buffer \in Seq(Views) /\ Len(buffer) <= BufferMax
      /\ \A j, k \in DOMAIN buffer : buffer[j] = buffer[k] => j = k
  BY RunFacts
<1>4. /\ rows' \in [Views -> {0, 1}] /\ \A u \in Views : rows[u] = 1 => rows'[u] = 1
      /\ \A u \in Views : rows'[u] = 1 => rows[u] = 1 \/ u \in flush[f].batch
  BY <1>2 DEF Insert
<1>5. \A u \in Views : Buffered(u)' <=> Buffered(u)
  BY DEF Buffered
<1>6. ASSUME Untroubled', NEW u \in flush[f].batch, view[u].invitation \notin gone PROVE rows'[u] = 1
  <2>1. u \in S /\ u \in Views
    BY <1>2, <1>6 DEF Alive
  <2> QED BY <1>2, <1>6, <2>1 DEF Insert
<1>7. IsFiniteSet(w.batch)
  BY <1>1, FS_EmptySet
<1>8. Untroubled' => \A u \in Views :
           view[u].invitation \notin gone /\ (Buffered(u) \/ u \in flush[f].batch) =>
             rows'[u] = 1 \/ Buffered(u)' \/ u \in w.batch
  BY <1>5, <1>6
<1> QED BY <1>1, <1>3, <1>4, <1>5, <1>7, <1>8, RunMoves

\* A run starts with nothing in hand.
LEMMA StartFlushInv ==
  ASSUME CountingInv, NEW f \in Flushes, StartFlush(f)
  PROVE  CountingInv'
<1> DEFINE a == [flush[f] EXCEPT !.pc = "drain"]
           w == [a EXCEPT !.left = MaxBatches]
<1>1. /\ flush[f] \in Flush /\ flush[f].batch = {} /\ rows \in [Views -> {0, 1}]
      /\ faults \in 0..MaxFaults
      /\ buffer \in Seq(Views) /\ Len(buffer) <= BufferMax
      /\ \A j, k \in DOMAIN buffer : buffer[j] = buffer[k] => j = k
  BY RunFacts DEF StartFlush
<1>2. a \in Flush /\ a.pc = "drain" /\ a.batch = {}
  BY <1>1 DEF Flush
<1>3. flush' = [flush EXCEPT ![f] = w]
  BY DEF StartFlush
<1> HIDE DEF a
<1>4. w \in Flush /\ w.pc = "drain" /\ w.batch = {}
  BY <1>2, Sizes DEF Flush
<1>5. UNCHANGED <<gone, day, salt, buffer, unreadable, view, rows, overflowReported, restarted, faults>>
  BY DEF StartFlush
<1> HIDE DEF w
<1>6. \A u \in Views : Buffered(u)' <=> Buffered(u)
  BY <1>5 DEF Buffered
<1>7. IsFiniteSet(w.batch)
  BY <1>4, FS_EmptySet
<1>8. rows' \in [Views -> {0, 1}]
  BY <1>1, <1>5
<1> QED BY <1>1, <1>3, <1>4, <1>5, <1>6, <1>7, <1>8, RunMoves

\* Ending a run is letting go of its batch.
LEMMA Ends ==
  ASSUME CountingInv, NEW f \in Flushes, flush' = [flush EXCEPT ![f] = IdleFlush],
         flush[f].batch = {} \/ faults' # 0, faults' \in 0..MaxFaults, faults' = 0 => faults = 0,
         UNCHANGED <<gone, day, salt, buffer, unreadable, view, rows, overflowReported, restarted>>
  PROVE  CountingInv'
<1>1. /\ rows \in [Views -> {0, 1}] /\ flush[f].batch \subseteq Views
      /\ buffer \in Seq(Views) /\ Len(buffer) <= BufferMax
      /\ \A j, k \in DOMAIN buffer : buffer[j] = buffer[k] => j = k
  BY RunFacts
<1>2. IdleFlush \in Flush /\ IdleFlush.pc = "idle" /\ IdleFlush.batch = {}
  BY Sizes DEF IdleFlush, Flush
<1>3. \A u \in Views : Buffered(u)' <=> Buffered(u)
  BY DEF Buffered
<1>4. IsFiniteSet(IdleFlush.batch)
  BY <1>2, FS_EmptySet
<1>5. Untroubled' => flush[f].batch = {}
  BY DEF Untroubled
<1>6. rows' \in [Views -> {0, 1}]
  BY <1>1
<1> QED BY <1>1, <1>2, <1>3, <1>4, <1>5, <1>6, RunMoves

\* What a run takes out of the list: the oldest entries, each of them once.
LEMMA Drained ==
  ASSUME CountingInv, NEW n \in 0..Len(buffer), buffer' = SubSeq(buffer, 1, n)
  PROVE  /\ buffer' \in Seq(Views) /\ Len(buffer') <= BufferMax
         /\ \A j, k \in DOMAIN buffer' : buffer'[j] = buffer'[k] => j = k
         /\ \A u \in Views : Buffered(u)' => Buffered(u)
         /\ \A u \in {buffer[k] : k \in (n + 1)..Len(buffer)} : u \in Views /\ Buffered(u) /\ ~Buffered(u)'
         /\ \A u \in Views : Buffered(u) => Buffered(u)' \/ u \in {buffer[k] : k \in (n + 1)..Len(buffer)}
         /\ IsFiniteSet({buffer[k] : k \in (n + 1)..Len(buffer)})
<1>1. /\ buffer \in Seq(Views) /\ Len(buffer) \in Nat /\ Len(buffer) <= BufferMax
      /\ \A j, k \in DOMAIN buffer : buffer[j] = buffer[k] => j = k
  BY DEF CountingInv, CountingTypeOK, Placed
<1>2. /\ buffer' \in Seq(Views) /\ Len(buffer') = n
      /\ \A k \in 1..n : buffer'[k] = buffer[k]
  BY <1>1, Cut
<1>3. DOMAIN buffer = 1..Len(buffer) /\ DOMAIN buffer' = 1..n /\ n <= Len(buffer) /\ n \in Nat
  BY <1>1, <1>2
<1>4. Len(buffer') <= BufferMax
  BY <1>1, <1>2, <1>3, Sizes
<1>5. \A j, k \in DOMAIN buffer' : buffer'[j] = buffer'[k] => j = k
  BY <1>1, <1>2, <1>3
<1>6. \A k \in 1..n : k \in 1..Len(buffer)
  BY <1>1, <1>3
<1>7. \A u \in Views : Buffered(u)' => Buffered(u)
  BY <1>2, <1>3, <1>6 DEF Buffered
<1>8. ASSUME NEW k \in (n + 1)..Len(buffer), NEW u, u = buffer[k]
      PROVE  u \in Views /\ Buffered(u) /\ ~Buffered(u)'
  <2>1. k \in 1..Len(buffer) /\ k \notin 1..n
    BY <1>1, <1>3
  <2>2. u \in Views /\ Buffered(u)
    BY <1>1, <1>3, <1>8, <2>1 DEF Buffered
  <2>3. \A j \in 1..n : buffer'[j] # u
    BY <1>1, <1>2, <1>3, <1>6, <1>8, <2>1
  <2>4. ~Buffered(u)'
    BY <1>3, <2>3 DEF Buffered
  <2> QED BY <2>2, <2>4
<1>9. ASSUME NEW u \in Views, Buffered(u), ~Buffered(u)'
      PROVE  u \in {buffer[k] : k \in (n + 1)..Len(buffer)}
  <2>1. PICK k \in 1..Len(buffer) : buffer[k] = u
    BY <1>3, <1>9 DEF Buffered
  <2>2. k \notin 1..n
    BY <1>2, <1>3, <1>9, <2>1 DEF Buffered
  <2>3. k \in (n + 1)..Len(buffer)
    BY <1>1, <1>3, <2>1, <2>2
  <2> QED BY <2>1, <2>3
<1>10. IsFiniteSet({buffer[k] : k \in (n + 1)..Len(buffer)})
  <2>1. (n + 1)..Len(buffer) \in SUBSET (1..Len(buffer))
    BY <1>1, <1>3
  <2> QED BY <1>1, <2>1, BatchFinite
<1> QED BY <1>2, <1>4, <1>5, <1>7, <1>8, <1>9, <1>10

\* Drain: a batch leaves the list for the run.
LEMMA DrainInv ==
  ASSUME CountingInv, NEW f \in Flushes, Drain(f)
  PROVE  CountingInv'
<1> DEFINE size == IF Len(buffer) < BatchSize THEN Len(buffer) ELSE BatchSize
           entries == {buffer[k] : k \in (Len(buffer) - size + 1)..Len(buffer)}
           batch == Decoded(entries)
<1>1. /\ flush[f] \in Flush /\ flush[f].batch = {} /\ rows \in [Views -> {0, 1}]
      /\ flush[f].left \in 0..MaxBatches
      /\ faults \in 0..MaxFaults
      /\ buffer \in Seq(Views) /\ Len(buffer) \in Nat /\ Len(buffer) <= BufferMax
      /\ \A j, k \in DOMAIN buffer : buffer[j] = buffer[k] => j = k
  BY RunFacts DEF Drain
<1>2. UNCHANGED <<gone, day, salt, unreadable, view, rows, overflowReported, restarted, faults>>
  BY DEF Drain
<1>3. /\ buffer' = IF flush[f].left = 0 THEN buffer ELSE SubSeq(buffer, 1, Len(buffer) - size)
      /\ flush' = IF flush[f].left = 0 \/ batch = {}
                    THEN [flush EXCEPT ![f] = IdleFlush]
                    ELSE [flush EXCEPT ![f].pc = "write", ![f].batch = batch, ![f].left = @ - 1]
  BY DEF Drain
<1>4. CASE flush[f].left = 0
  <2>1. buffer' = buffer /\ flush' = [flush EXCEPT ![f] = IdleFlush]
    BY <1>3, <1>4
  <2>2. faults' \in 0..MaxFaults /\ (faults' = 0 => faults = 0)
    BY <1>1, <1>2
  <2> QED BY <1>1, <1>2, <2>1, <2>2, Ends
<1>5. CASE flush[f].left # 0
  <2> DEFINE n == Len(buffer) - size
  <2>1. n \in 0..Len(buffer) /\ buffer' = SubSeq(buffer, 1, n)
    <3>1. size \in 0..Len(buffer)
      BY <1>1, Sizes
    <3>2. buffer' = SubSeq(buffer, 1, Len(buffer) - size)
      BY <1>3, <1>5
    <3> HIDE DEF size
    <3> QED BY <1>1, <3>1, <3>2
  <2>2. n + 1 = Len(buffer) - size + 1
    OBVIOUS
  <2>3. entries = {buffer[k] : k \in (n + 1)..Len(buffer)}
    BY <2>2
  <2> HIDE DEF size, n
  <2>4. PICK m \in 0..Len(buffer) : m = n
    BY <2>1
  <2>5. PICK E : E = {buffer[k] : k \in (m + 1)..Len(buffer)}
    OBVIOUS
  <2>6. E = entries
    BY <2>3, <2>4, <2>5
  <2>7. /\ buffer' \in Seq(Views) /\ Len(buffer') <= BufferMax
        /\ \A j, k \in DOMAIN buffer' : buffer'[j] = buffer'[k] => j = k
        /\ \A u \in Views : Buffered(u)' => Buffered(u)
        /\ \A u \in {buffer[k] : k \in (m + 1)..Len(buffer)} :
             u \in Views /\ Buffered(u) /\ ~Buffered(u)'
        /\ \A u \in Views : Buffered(u) =>
             Buffered(u)' \/ u \in {buffer[k] : k \in (m + 1)..Len(buffer)}
        /\ IsFiniteSet({buffer[k] : k \in (m + 1)..Len(buffer)})
    BY <2>1, <2>4, Drained
  <2>8. /\ \A u \in E : u \in Views /\ Buffered(u) /\ ~Buffered(u)'
        /\ \A u \in Views : Buffered(u) => Buffered(u)' \/ u \in E
        /\ IsFiniteSet(E)
    BY <2>5, <2>7
  <2>9. PICK B : B = E \ unreadable
    OBVIOUS
  <2>10. B = batch
    BY <2>6, <2>9 DEF Decoded
  <2>11. /\ B \in SUBSET Views /\ IsFiniteSet(B) /\ B \subseteq E
    BY <2>8, <2>9, FS_Subset
  <2>12. faults' = 0 => B = E
    BY <1>2, <2>9 DEF CountingInv, NoneLost
  <2> HIDE DEF batch, entries
  <2>13. ASSUME NEW w \in Flush, w.batch = B, flush' = [flush EXCEPT ![f] = w],
                w.pc \in {"idle", "drain"} => B = {}, w.pc \notin {"alive", "retry"}
         PROVE  CountingInv'
    <3>1. \A u \in w.batch : Buffered(u) /\ ~Buffered(u)' /\ rows'[u] = 0
      <4> TAKE u \in w.batch
      <4>1. u \in Views /\ Buffered(u) /\ ~Buffered(u)'
        BY <2>8, <2>11, <2>13
      <4>2. rows[u] # 1
        BY <4>1 DEF CountingInv, Placed
      <4> QED BY <1>1, <1>2, <4>1, <4>2
    <3>2. \A u \in Views : rows'[u] = 1 <=> rows[u] = 1
      BY <1>2
    <3>3. Untroubled' => \A u \in Views : Buffered(u) => Buffered(u)' \/ u \in w.batch
      BY <2>8, <2>12, <2>13 DEF Untroubled
    <3>4. rows' \in [Views -> {0, 1}] /\ faults' \in 0..MaxFaults /\ (faults' = 0 => faults = 0)
      BY <1>1, <1>2
    <3>5. Untroubled' => \A u \in Views :
           view[u].invitation \notin gone /\ (Buffered(u) \/ u \in flush[f].batch) =>
             rows'[u] = 1 \/ Buffered(u)' \/ u \in w.batch
      BY <1>1, <3>3
    <3>6. IsFiniteSet(w.batch)
      BY <2>11, <2>13
    <3> QED BY <1>1, <1>2, <2>7, <2>13, <3>1, <3>2, <3>4, <3>5, <3>6, RunMoves
  <2>14. CASE batch = {}
    <3>1. IdleFlush \in Flush /\ IdleFlush.pc = "idle" /\ IdleFlush.batch = {}
      BY Sizes DEF IdleFlush, Flush
    <3>2. flush' = [flush EXCEPT ![f] = IdleFlush]
      BY <1>3, <2>14
    <3> QED BY <2>10, <2>13, <2>14, <3>1, <3>2
  <2>15. CASE batch # {}
    <3> DEFINE a == [flush[f] EXCEPT !.pc = "write"]
               b == [a EXCEPT !.batch = batch]
               w == [b EXCEPT !.left = flush[f].left - 1]
    <3>1. a \in Flush /\ a.pc = "write" /\ a.left = flush[f].left
      BY <1>1 DEF Flush
    <3>2. flush' = [flush EXCEPT ![f].pc = "write", ![f].batch = batch, ![f].left = @ - 1]
      BY <1>3, <1>5, <2>15
    <3>3. flush' = [flush EXCEPT ![f] = w]
      BY <3>2
    <3> HIDE DEF a
    <3>4. b \in Flush /\ b.pc = "write" /\ b.batch = B
      BY <2>10, <2>11, <3>1 DEF Flush
    <3> HIDE DEF b
    <3>5. flush[f].left - 1 \in 0..MaxBatches
      BY <1>1, <1>5, Sizes
    <3>6. w \in Flush /\ w.pc = "write" /\ w.batch = B
      BY <3>4, <3>5 DEF Flush
    <3> HIDE DEF w
    <3> QED BY <2>13, <3>3, <3>6
  <2> QED BY <2>14, <2>15
<1> QED BY <1>4, <1>5

\* A run whose batch was refused goes on with the same batch.
LEMMA Refused ==
  ASSUME CountingInv, NEW f \in Flushes, NEW w \in Flush, flush' = [flush EXCEPT ![f] = w],
         UNCHANGED <<gone, day, salt, buffer, unreadable, view, rows, overflowReported, restarted, faults>>,
         w.batch = flush[f].batch, w.pc \notin {"idle", "drain"},
         w.pc = "alive" => \E u \in w.batch : view[u].invitation \in gone,
         w.pc = "retry" =>
           Invitations \ gone \subseteq w.alive /\ \E x \in gone : x \notin w.alive
  PROVE  CountingInv'
<1>1. /\ rows \in [Views -> {0, 1}] /\ faults \in 0..MaxFaults /\ IsFiniteSet(flush[f].batch)
      /\ buffer \in Seq(Views) /\ Len(buffer) <= BufferMax
      /\ \A j, k \in DOMAIN buffer : buffer[j] = buffer[k] => j = k
      /\ \A u \in flush[f].batch : rows[u] = 0 /\ ~Buffered(u)
  BY RunFacts
<1>2. \A u \in Views : Buffered(u)' <=> Buffered(u)
  BY DEF Buffered
<1>3. \A u \in w.batch : ~Buffered(u)' /\ rows'[u] = 0
  BY <1>1 DEF Buffered
<1>4. rows' \in [Views -> {0, 1}] /\ faults' \in 0..MaxFaults /\ (faults' = 0 => faults = 0)
  BY <1>1
<1>5. \A u \in Views : rows'[u] = 1 <=> rows[u] = 1
  OBVIOUS
<1>6. IsFiniteSet(w.batch)
  BY <1>1
<1>7. Untroubled' => \A u \in Views :
           view[u].invitation \notin gone /\ (Buffered(u) \/ u \in flush[f].batch) =>
             rows'[u] = 1 \/ Buffered(u)' \/ u \in w.batch
  BY <1>2
<1> QED BY <1>1, <1>2, <1>3, <1>4, <1>5, <1>6, <1>7, RunMoves

\* Write.
LEMMA WriteInv ==
  ASSUME CountingInv, NEW f \in Flushes, Write(f)
  PROVE  CountingInv'
<1>1. flush[f] \in Flush /\ flush[f].batch \subseteq Views /\ faults \in 0..MaxFaults
  BY RunFacts
<1>2. UNCHANGED <<gone, day, salt, buffer, unreadable, view, overflowReported, restarted, faults>>
  BY DEF Write
<1>3. CASE Alive(flush[f].batch) = flush[f].batch
  <2>1. Insert(flush[f].batch) /\ NextBatch(f)
    BY <1>3 DEF Write
  <2>2. flush[f].batch \in SUBSET flush[f].batch
    OBVIOUS
  <2>3. faults' \in 0..MaxFaults /\ (faults' = 0 => faults = 0)
    BY <1>1, <1>2
  <2> QED BY <1>2, <1>3, <2>1, <2>2, <2>3, BatchDone
<1>4. CASE Alive(flush[f].batch) # flush[f].batch
  <2> DEFINE w == [flush[f] EXCEPT !.pc = "alive"]
  <2>1. flush' = [flush EXCEPT ![f] = w] /\ rows' = rows
    BY <1>4 DEF Write
  <2>2. w \in Flush /\ w.pc = "alive" /\ w.batch = flush[f].batch
    BY <1>1 DEF Flush
  <2>3. \E u \in flush[f].batch : view[u].invitation \in gone
    BY <1>4 DEF Alive
  <2> HIDE DEF w
  <2> QED BY <1>2, <2>1, <2>2, <2>3, Refused
<1> QED BY <1>3, <1>4

\* FindAlive.
LEMMA FindAliveInv ==
  ASSUME CountingInv, NEW f \in Flushes, FindAlive(f)
  PROVE  CountingInv'
<1>1. /\ flush[f] \in Flush /\ flush[f].batch \subseteq Views /\ faults \in 0..MaxFaults
      /\ rows \in [Views -> {0, 1}]
  BY RunFacts
<1>2. UNCHANGED <<gone, day, salt, buffer, unreadable, view, rows, overflowReported, restarted, faults>>
      /\ flush[f].pc = "alive"
  BY DEF FindAlive
<1>3. CASE Alive(flush[f].batch) = {}
  <2>1. NextBatch(f)
    BY <1>3 DEF FindAlive
  <2>2. {} \in SUBSET flush[f].batch /\ Insert({})
    BY <1>1, <1>2 DEF Insert
  <2>3. faults' \in 0..MaxFaults /\ (faults' = 0 => faults = 0)
    BY <1>1, <1>2
  <2> QED BY <1>2, <1>3, <2>1, <2>2, <2>3, BatchDone
<1>4. CASE Alive(flush[f].batch) # {}
  <2> DEFINE a == [flush[f] EXCEPT !.pc = "retry"]
             w == [a EXCEPT !.alive = Invitations \ gone]
  <2>1. flush' = [flush EXCEPT ![f] = w]
    BY <1>4 DEF FindAlive
  <2>2. a \in Flush /\ a.pc = "retry" /\ a.batch = flush[f].batch
    BY <1>1 DEF Flush
  <2> HIDE DEF a
  <2>3. w \in Flush /\ w.pc = "retry" /\ w.batch = flush[f].batch /\ w.alive = Invitations \ gone
    BY <2>2 DEF Flush
  <2>4. \E x \in gone : x \notin w.alive
    BY <1>2, <2>3 DEF CountingInv, RunsKnow
  <2> HIDE DEF w
  <2> QED BY <1>2, <2>1, <2>3, <2>4, Refused
<1> QED BY <1>3, <1>4

\* WriteSurvivors: only a second deletion can make a survivor fail.
LEMMA WriteSurvivorsInv ==
  ASSUME CountingInv, NEW f \in Flushes, WriteSurvivors(f)
  PROVE  CountingInv'
<1> DEFINE survivors == {v \in flush[f].batch : view[v].invitation \in flush[f].alive}
<1>1. /\ flush[f] \in Flush /\ flush[f].batch \subseteq Views /\ faults \in 0..MaxFaults
      /\ rows \in [Views -> {0, 1}]
      /\ \A u \in flush[f].batch : view[u].invitation \in Invitations
  BY RunFacts
<1>2. /\ flush[f].pc = "retry" /\ NextBatch(f)
      /\ IF Alive(survivors) = survivors THEN Insert(survivors) ELSE UNCHANGED rows
      /\ UNCHANGED <<gone, day, salt, buffer, unreadable, view, overflowReported, restarted, faults>>
  BY DEF WriteSurvivors
<1>3. Invitations \ gone \subseteq flush[f].alive /\ \E x \in gone : x \notin flush[f].alive
  BY <1>2 DEF CountingInv, RunsKnow
<1>4. Alive(flush[f].batch) \subseteq survivors
  BY <1>1, <1>3 DEF Alive
<1>5. ASSUME Alive(survivors) # survivors PROVE ~Untroubled'
  <2>1. PICK s \in survivors : view[s].invitation \in gone
    BY <1>5 DEF Alive
  <2>2. PICK x \in gone : x \notin flush[f].alive
    BY <1>3
  <2>3. view[s].invitation # x /\ IsFiniteSet(gone)
    BY <2>1, <2>2 DEF CountingInv, Finite
  <2>4. ~(Cardinality(gone) <= 1)
    BY <2>1, <2>3, MoreThanOne
  <2> QED BY <1>2, <2>4 DEF Untroubled
<1>6. UNCHANGED rows \/ Insert(survivors)
  BY <1>2
<1>7. Untroubled' => Insert(survivors)
  BY <1>2, <1>5
<1>8. survivors \in SUBSET flush[f].batch /\ faults' \in 0..MaxFaults /\ (faults' = 0 => faults = 0)
  BY <1>1, <1>2
<1> QED BY <1>2, <1>4, <1>6, <1>7, <1>8, BatchDone

\* A failure is counted.
LEMMA Failed ==
  ASSUME CountingInv, Fail
  PROVE  faults' \in 0..MaxFaults /\ faults' # 0
BY Sizes DEF CountingInv, CountingTypeOK, Fail

\* WriteFails, FlushEnds.
LEMMA FailureInv ==
  ASSUME CountingInv, NEW f \in Flushes, WriteFails(f) \/ FlushEnds(f)
  PROVE  CountingInv'
<1>1. ASSUME WriteFails(f) PROVE CountingInv'
  <2>1. faults' \in 0..MaxFaults /\ faults' # 0
    BY <1>1, Failed DEF WriteFails
  <2>2. NextBatch(f) /\ (UNCHANGED rows \/ Insert(flush[f].batch))
        /\ UNCHANGED <<gone, day, salt, buffer, unreadable, view, overflowReported, restarted>>
    BY <1>1 DEF WriteFails
  <2>3. ~Untroubled'
    BY <2>1 DEF Untroubled
  <2>4. flush[f].batch \in SUBSET flush[f].batch
    OBVIOUS
  <2> QED BY <2>1, <2>2, <2>3, <2>4, BatchDone
<1>2. ASSUME FlushEnds(f) PROVE CountingInv'
  <2>1. faults' \in 0..MaxFaults /\ faults' # 0
    BY <1>2, Failed DEF FlushEnds
  <2>2. flush' = [flush EXCEPT ![f] = IdleFlush]
        /\ UNCHANGED <<gone, day, salt, buffer, unreadable, view, rows, overflowReported, restarted>>
    BY <1>2 DEF FlushEnds
  <2> QED BY <2>1, <2>2, Ends
<1> QED BY <1>1, <1>2

(* ----------------------------- around them ----------------------------- *)

\* Delete: the rows go with the invitation, and the runs find out.
LEMMA DeleteInv ==
  ASSUME CountingInv, NEW i \in Invitations, Delete(i)
  PROVE  CountingInv'
<1>1. CountingTypeOK /\ Placed /\ RunsKnow /\ NoneLost /\ Salts /\ Finite /\ \A u \in Views : OnItsWay(u)
  BY DEF CountingInv
<1>2. /\ i \notin gone /\ gone' = gone \cup {i}
      /\ rows' = [v \in Views |-> IF view[v].invitation = i THEN 0 ELSE rows[v]]
      /\ UNCHANGED <<day, salt, buffer, unreadable, view, flush, overflowReported, restarted, faults>>
  BY DEF Delete
<1>3. rows \in [Views -> Nat] /\ IsFiniteSet(gone) /\ IsFiniteSet({v \in Views : rows[v] > 0})
  BY <1>1 DEF CountingTypeOK, Finite
<1>4. IsFiniteSet(gone') /\ Cardinality(gone') = Cardinality(gone) + 1 /\ Cardinality(gone) \in Nat
  BY <1>2, <1>3, FS_AddElement, FS_CardinalityType
<1>5. \A u \in Views : (Buffered(u)' <=> Buffered(u)) /\ (Held(u)' <=> Held(u))
  BY <1>2 DEF Buffered, Held
<1>6. CountingTypeOK'
  BY <1>1, <1>2 DEF CountingTypeOK
<1>7. Placed'
  BY <1>1, <1>2, <1>5 DEF Placed
<1>8. RunsKnow'
  BY <1>1, <1>2 DEF RunsKnow
<1>9. NoneLost'
  <2>1. Untroubled' => Untroubled
    BY <1>2, <1>4 DEF Untroubled
  <2> QED BY <1>1, <1>2, <1>5, <2>1 DEF NoneLost
<1>10. Salts'
  BY <1>1, <1>2 DEF Salts
<1>11. Finite'
  <2>1. {v \in Views : rows'[v] > 0} \subseteq {v \in Views : rows[v] > 0}
    BY <1>2, <1>3
  <2>2. IsFiniteSet({v \in Views : rows'[v] > 0})
    BY <1>3, <2>1, FS_Subset
  <2> QED BY <1>1, <1>2, <1>4, <2>2 DEF Finite
<1>12. \A u \in Views : OnItsWay(u)'
  BY <1>1, <1>2 DEF OnItsWay
<1> QED BY <1>6, <1>7, <1>8, <1>9, <1>10, <1>11, <1>12 DEF CountingInv

\* NextDay, and the steps that change nothing.
LEMMA DayInv ==
  ASSUME CountingInv, NextDay \/ UNCHANGED countingVars
  PROVE  CountingInv'
<1>1. CountingTypeOK /\ Placed /\ RunsKnow /\ NoneLost /\ Salts /\ Finite /\ \A u \in Views : OnItsWay(u)
  BY DEF CountingInv
<1>2. UNCHANGED <<gone, salt, buffer, unreadable, view, flush, rows, overflowReported, restarted, faults>>
  BY DEF NextDay, countingVars
<1>3. day' \in Days
  BY <1>1, Sizes DEF CountingTypeOK, NextDay, countingVars, Days
<1>4. \A u \in Views : (Buffered(u)' <=> Buffered(u)) /\ (Held(u)' <=> Held(u))
  BY <1>2 DEF Buffered, Held
<1>5. CountingTypeOK'
  BY <1>1, <1>2, <1>3 DEF CountingTypeOK
<1>6. Placed' /\ RunsKnow'
  BY <1>1, <1>2, <1>4 DEF Placed, RunsKnow
<1>7. NoneLost'
  BY <1>1, <1>2, <1>4 DEF NoneLost, Untroubled
<1>8. Salts' /\ Finite' /\ \A u \in Views : OnItsWay(u)'
  BY <1>1, <1>2 DEF Salts, Finite, OnItsWay
<1> QED BY <1>5, <1>6, <1>7, <1>8 DEF CountingInv

\* RedisRestarts: the list and the salts are lost, and that is a failure.
LEMMA RestartInv ==
  ASSUME CountingInv, RedisRestarts
  PROVE  CountingInv'
<1>1. CountingTypeOK /\ Placed /\ RunsKnow /\ NoneLost /\ Finite /\ \A u \in Views : OnItsWay(u)
  BY DEF CountingInv
<1>2. /\ restarted' = TRUE /\ salt' = [d \in Days |-> Null] /\ buffer' = <<>>
      /\ UNCHANGED <<gone, day, unreadable, view, flush, rows, overflowReported>>
      /\ faults' \in 0..MaxFaults /\ faults' # 0
  BY Failed DEF RedisRestarts
<1>3. \A u \in Views : ~Buffered(u)' /\ (Held(u)' <=> Held(u))
  BY <1>2 DEF Buffered, Held
<1>4. CountingTypeOK'
  BY <1>1, <1>2, Sizes DEF CountingTypeOK
<1>5. Placed'
  BY <1>1, <1>2, <1>3 DEF Placed
<1>6. RunsKnow' /\ Finite' /\ \A u \in Views : OnItsWay(u)'
  BY <1>1, <1>2 DEF RunsKnow, Finite, OnItsWay
<1>7. NoneLost'
  BY <1>1, <1>2 DEF NoneLost, Untroubled
<1>8. Salts'
  BY <1>2 DEF Salts
<1> QED BY <1>4, <1>5, <1>6, <1>7, <1>8 DEF CountingInv

(* -------------------------------- theorems ----------------------------- *)

\* Nothing is counted, nothing is under way.
LEMMA InitInv == CountingInit => CountingInv
<1> SUFFICES ASSUME CountingInit PROVE CountingInv
  OBVIOUS
<1>1. NewView \in View /\ NewView.pc = "new" /\ IdleFlush \in Flush /\ IdleFlush.batch = {}
      /\ IdleFlush.pc = "idle" /\ 0 \in Days
  BY Sizes DEF NewView, View, IdleFlush, Flush, Days
<1>2. \A u \in Views : view[u] = NewView /\ rows[u] = 0 /\ ~Buffered(u)
  BY DEF CountingInit, Buffered
<1>3. \A f \in Flushes : flush[f] = IdleFlush
  BY DEF CountingInit
<1>4. CountingTypeOK
  <2>1. buffer \in Seq(Views) /\ Len(buffer) <= BufferMax
    BY Sizes DEF CountingInit
  <2>2. faults \in 0..MaxFaults /\ view \in [Views -> View] /\ flush \in [Flushes -> Flush]
    BY <1>1, Sizes DEF CountingInit
  <2>3. /\ gone \subseteq Invitations /\ day \in Days /\ salt \in [Days -> Views \cup {Null}]
        /\ unreadable \subseteq Views /\ rows \in [Views -> Nat]
        /\ {overflowReported, restarted} \subseteq BOOLEAN
    BY <1>1 DEF CountingInit
  <2> QED BY <2>1, <2>2, <2>3 DEF CountingTypeOK
<1>5. Placed
  BY <1>1, <1>2, <1>3 DEF Placed, Held, CountingInit
<1>6. RunsKnow
  BY <1>1, <1>3 DEF RunsKnow
<1>7. NoneLost
  BY <1>1, <1>2 DEF NoneLost, CountingInit
<1>8. Salts
  BY <1>1, <1>2 DEF Salts, CountingInit
<1>9. Finite
  <2>1. {v \in Views : rows[v] > 0} = {} /\ gone = {}
    BY <1>2 DEF CountingInit
  <2> QED BY <1>1, <1>3, <2>1, FS_EmptySet DEF Finite
<1>10. \A u \in Views : OnItsWay(u)
  BY <1>1, <1>2 DEF OnItsWay
<1> QED BY <1>4, <1>5, <1>6, <1>7, <1>8, <1>9, <1>10 DEF CountingInv

\* Every step keeps the invariant.
LEMMA StepInv == CountingInv /\ [CountingNext]_countingVars => CountingInv'
<1> SUFFICES ASSUME CountingInv, [CountingNext]_countingVars PROVE CountingInv'
  OBVIOUS
<1>1. CASE UNCHANGED countingVars
  BY <1>1, DayInv
<1>2. ASSUME NEW v \in Views,
             \/ \E visitor \in Visitors, i \in Invitations : Report(v, visitor, i)
             \/ TurnAway(v) \/ Resolve(v) \/ Unavailable(v) \/ MintSalt(v) \/ ReadSalt(v)
             \/ \E u \in Views : PushAgain(u, v)
      PROVE  CountingInv'
  BY <1>2, BeaconInv
<1>3. ASSUME NEW v \in Views, Push(v) PROVE CountingInv'
  BY <1>3, PushInv
<1>4. ASSUME NEW f \in Flushes, StartFlush(f) \/ Drain(f) \/ Write(f) PROVE CountingInv'
  BY <1>4, StartFlushInv, DrainInv, WriteInv
<1>5. ASSUME NEW f \in Flushes, FindAlive(f) \/ WriteSurvivors(f) PROVE CountingInv'
  BY <1>5, FindAliveInv, WriteSurvivorsInv
<1>6. ASSUME NEW f \in Flushes, WriteFails(f) \/ FlushEnds(f) PROVE CountingInv'
  BY <1>6, FailureInv
<1>7. ASSUME NEW i \in Invitations, Delete(i) PROVE CountingInv'
  BY <1>7, DeleteInv
<1>8. CASE NextDay \/ RedisRestarts
  BY <1>8, DayInv, RestartInv
<1> QED BY <1>1, <1>2, <1>3, <1>4, <1>5, <1>6, <1>7, <1>8 DEF CountingNext

\* The invariant holds of every reachable state.
LEMMA Always == CountingSpec => []CountingInv
BY InitInv, StepInv, PTL DEF CountingSpec

\* Every variable keeps its shape, and the list in Redis is never longer than its cap,
\* BUFFER_MAX_EVENTS (redis-analytics-buffer.ts).
THEOREM AnalyticsTyped == CountingSpec => []CountingTypeOK
<1>1. CountingInv => CountingTypeOK
  BY DEF CountingInv
<1> QED BY <1>1, Always, PTL

\* The copies of a view, counted: one where it is, none where it is not.
LEMMA CopiesCounted ==
  ASSUME CountingInv, NEW v \in Views
  PROVE  /\ Copies(v) = 0 \/ Copies(v) = 1
         /\ rows[v] = 1 \/ Buffered(v) \/ Held(v) => Copies(v) = 1
<1>1. Placed /\ rows[v] \in {0, 1}
  BY DEF CountingInv, Placed
<1> DEFINE K == {k \in DOMAIN buffer : buffer[k] = v}
           F == {f \in Flushes : v \in flush[f].batch}
<1>2. Cardinality(K) = IF Buffered(v) THEN 1 ELSE 0
  <2>1. CASE Buffered(v)
    <3>1. PICK k \in DOMAIN buffer : buffer[k] = v
      BY <2>1 DEF Buffered
    <3>2. K = {k}
      BY <1>1, <3>1 DEF Placed
    <3> QED BY <2>1, <3>2, FS_Singleton
  <2>2. CASE ~Buffered(v)
    <3>1. K = {}
      BY <2>2 DEF Buffered
    <3> QED BY <2>2, <3>1, FS_EmptySet
  <2> QED BY <2>1, <2>2
<1>3. Cardinality(F) = IF Held(v) THEN 1 ELSE 0
  <2>1. CASE Held(v)
    <3>1. PICK f \in Flushes : v \in flush[f].batch
      BY <2>1 DEF Held
    <3>2. F = {f}
      BY <1>1, <3>1 DEF Placed
    <3> QED BY <2>1, <3>2, FS_Singleton
  <2>2. CASE ~Held(v)
    <3>1. F = {}
      BY <2>2 DEF Held
    <3> QED BY <2>2, <3>1, FS_EmptySet
  <2> QED BY <2>1, <2>2
<1>4. Copies(v) = rows[v] + Cardinality(K) + Cardinality(F)
  BY DEF Copies
<1>5. (rows[v] = 1 => ~Buffered(v) /\ ~Held(v)) /\ (Held(v) => ~Buffered(v))
  BY <1>1 DEF Placed
<1> HIDE DEF K, F
<1> QED BY <1>1, <1>2, <1>3, <1>4, <1>5

\* Whatever runs drain at once and whatever fails, no view is handed over twice; and with
\* no failure, no reported overflow and at most one deleted invitation, none is lost
\* (redis-analytics-buffer.ts:14, flush-analytics.ts:58, analytics.repository.ts:38).
THEOREM NoViewTwiceNoneLost == CountingSpec => []EachViewOnce
<1>1. CountingInv => EachViewOnce
  <2> SUFFICES ASSUME CountingInv, NEW v \in Views
               PROVE  /\ Copies(v) <= 1
                      /\ faults = 0 /\ ~overflowReported /\ Cardinality(gone) <= 1
                           => (view[v].pc = "done" /\ view[v].invitation \notin gone => Copies(v) = 1)
    BY DEF EachViewOnce
  <2>1. Copies(v) <= 1
    BY CopiesCounted
  <2>2. Untroubled /\ view[v].pc = "done" /\ view[v].invitation \notin gone
          => rows[v] = 1 \/ Buffered(v) \/ Held(v)
    BY DEF CountingInv, NoneLost
  <2> QED BY <2>1, <2>2, CopiesCounted DEF Untroubled
<1> QED BY <1>1, Always, PTL

\* Sets matched one to one are as large.
LEMMA AsMany ==
  ASSUME NEW S, NEW T, IsFiniteSet(S), NEW g \in [S -> T],
         \A x, y \in S : g[x] = g[y] => x = y, \A t \in T : \E x \in S : g[x] = t
  PROVE  Cardinality(T) = Cardinality(S)
<1>1. g \in Bijection(S, T)
  BY DEF Bijection, Injection, Surjection, IsInjective
<1>2. ExistsBijection(S, T)
  BY <1>1 DEF ExistsBijection
<1> QED BY <1>2, FS_Bijection

\* Two counted views of one invitation have one hash exactly when they are one visitor's,
\* on one day.
LEMMA HashNamesPersonAndDay ==
  ASSUME CountingInv, ~restarted, NEW i \in Invitations, NEW u \in Counted(i), NEW v \in Counted(i)
  PROVE  VisitorHash(u) = VisitorHash(v) <=>
           <<view[u].at, view[u].visitor>> = <<view[v].at, view[v].visitor>>
<1>1. CountingTypeOK /\ Placed /\ Salts
  BY DEF CountingInv
<1>2. u \in Views /\ v \in Views /\ view[u].invitation = i /\ view[v].invitation = i
      /\ rows[u] > 0 /\ rows[v] > 0
  BY DEF Counted
<1>3. view[u].pc = "done" /\ view[v].pc = "done"
  BY <1>1, <1>2 DEF Placed
<1>4. view[u].at \in Days /\ view[v].at \in Days
  BY <1>1, <1>2 DEF CountingTypeOK, View
<1>5. /\ salt[view[u].at] # Null /\ view[u].salt = salt[view[u].at]
      /\ salt[view[v].at] # Null /\ view[v].salt = salt[view[v].at]
  BY <1>1, <1>2, <1>3 DEF Salts
<1>6. view[u].salt = view[v].salt <=> view[u].at = view[v].at
  BY <1>1, <1>4, <1>5 DEF Salts
<1> QED BY <1>2, <1>6 DEF VisitorHash

\* As long as Redis keeps the day's salt, the unique visitors shown to a couple are people,
\* once a day, however the first views of the day race for its salt (redis-daily-salt.ts:20).
THEOREM UniqueVisitorsArePeople == CountingSpec => []UniquesArePeople
<1>1. CountingInv => UniquesArePeople
  <2> SUFFICES ASSUME CountingInv, ~restarted, NEW i \in Invitations
               PROVE  UniqueVisitors(i) =
                        Cardinality({<<view[v].at, view[v].visitor>> : v \in Counted(i)})
    BY DEF UniquesArePeople
  <2> DEFINE C == Counted(i)
             H == {VisitorHash(v) : v \in C}
             P == {<<view[v].at, view[v].visitor>> : v \in C}
             of[h \in H] == CHOOSE v \in C : VisitorHash(v) = h
             person == [h \in H |-> <<view[of[h]].at, view[of[h]].visitor>>]
  <2>1. IsFiniteSet(C)
    <3>1. C \subseteq {v \in Views : rows[v] > 0}
      BY DEF Counted
    <3> QED BY <3>1, FS_Subset DEF CountingInv, Finite
  <2>2. IsFiniteSet(H)
    <3> DEFINE g == [v \in C |-> VisitorHash(v)]
    <3>1. g \in Surjection(C, H)
      BY DEF Surjection
    <3> QED BY <2>1, <3>1, FS_Surjection
  <2>3. \A u, v \in C : VisitorHash(u) = VisitorHash(v) <=>
          <<view[u].at, view[u].visitor>> = <<view[v].at, view[v].visitor>>
    BY HashNamesPersonAndDay
  <2>4. \A h \in H : of[h] \in C /\ VisitorHash(of[h]) = h
    OBVIOUS
  <2> HIDE DEF of, C
  <2>5. person \in [H -> P]
    BY <2>4
  <2>6. \A g, h \in H : person[g] = person[h] => g = h
    BY <2>3, <2>4
  <2>7. \A p \in P : \E h \in H : person[h] = p
    <3> TAKE p \in P
    <3>1. PICK v \in C : p = <<view[v].at, view[v].visitor>>
      OBVIOUS
    <3>2. VisitorHash(v) \in H
      OBVIOUS
    <3>3. person[VisitorHash(v)] = p
      BY <2>3, <2>4, <3>1, <3>2
    <3> QED BY <3>2, <3>3
  <2> HIDE DEF person, H, P
  <2>8. Cardinality(P) = Cardinality(H)
    BY <2>2, <2>5, <2>6, <2>7, AsMany
  <2> QED BY <2>8 DEF UniqueVisitors, H, P, C
<1> QED BY <1>1, Always, PTL

=============================================================================
