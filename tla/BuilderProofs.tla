---------------------------- MODULE BuilderProofs ----------------------------
(***************************************************************************)
(* What Builder checks in a few sittings holds for documents and lists of  *)
(* any length, and for as many edits, undos, saves, conflicts, reloads and *)
(* publications as there may be.                                           *)
(*                                                                         *)
(* A patch is applied by a recursive function.  What such a function       *)
(* computes is shown by an induction over its domain: AfterExists says the *)
(* function exists, StepsFacts what its values are, and FromZero goes from *)
(* each of them to the next.                                               *)
(*                                                                         *)
(* The argument: a replacement may be moved to an earlier one of the same  *)
(* field (ReplacedInPlace), so a coalesced queue does what the queue did;  *)
(* each operation of a control has an inverse (InverseOpFacts), so a patch *)
(* has one.  With both, every operation of the engine keeps it Sound: its  *)
(* queue rebuilds its document, and its history is a chain of edits that   *)
(* lead there and back, from each to the next.  What is left relates the   *)
(* engine to the server (InStep), to a publication (Calm) and to the frame *)
(* (InFrame).                                                              *)
(*                                                                         *)
(* A filter and a stable sort arrange the positions of a list.  Each does  *)
(* with what another arranged what one arrangement does with the list      *)
(* (ThenFiltered, ThenSorted), so what a publication sorts and filters and *)
(* the renderer sorts again is one order of the events the owner wrote     *)
(* (SameDrawing).                                                          *)
(***************************************************************************)
EXTENDS Builder, FiniteSetTheorems, WellFoundedInduction, SequenceTheorems, TLAPS

(* --------------------------- applying a patch -------------------------- *)

\* Some well-founded relation holds the order of the naturals.
LEMMA NatOrder ==
  \E R : IsWellFoundedOn(R, Nat) /\ \A m, n \in Nat : m < n => <<m, n>> \in R
<1>1. \A m, n \in Nat : m < n => <<m, n>> \in OpToRel(<, Nat)
  BY DEF OpToRel
<1> QED BY <1>1, NatLessThanWellFounded, Zenon

\* Induction over the naturals, with the property as a set of them.
LEMMA FromZero ==
  ASSUME NEW T \in SUBSET Nat, 0 \in T, \A n \in T : n + 1 \in T
  PROVE  \A n \in Nat : n \in T
<1>1. SUFFICES ASSUME Nat \ T # {} PROVE FALSE
  OBVIOUS
<1>2. PICK R : IsWellFoundedOn(R, Nat) /\ \A m, n \in Nat : m < n => <<m, n>> \in R
  BY NatOrder
<1>3. PICK n \in Nat \ T : \A m \in Nat \ T : ~ (<<m, n>> \in R)
  <2>1. IsWellFoundedOn(R, Nat) /\ Nat \ T \subseteq Nat
    BY <1>2
  <2> QED BY <2>1, <1>1, WFMin, Zenon
<1>4. n - 1 \in Nat /\ n - 1 < n /\ (n - 1) + 1 = n
  <2>1. n # 0
    BY <1>3
  <2> QED BY <2>1, <1>3
<1>5. n - 1 \in T
  BY <1>2, <1>3, <1>4, Zenon
<1> QED BY <1>3, <1>4, <1>5

\* f is the function of which applyPatch takes the last value.
After(d, q, n, f) ==
  f = [k \in 0..n |->
         IF k = 0 THEN d ELSE IF f[k - 1] = Refused THEN Refused ELSE ApplyOne(f[k - 1], q[k])]

\* applyPatch comes to an end, whatever is in the patch.
LEMMA AfterExists == \A d, q : \A n \in Nat : \E f : After(d, q, n, f)
<1> SUFFICES ASSUME NEW d, NEW q PROVE \A n \in Nat : \E f : After(d, q, n, f)
  OBVIOUS
<1> DEFINE T == {n \in Nat : \E f : After(d, q, n, f)}
<1>1. 0 \in T
  <2> DEFINE f == [k \in 0..0 |-> d]
  <2>1. After(d, q, 0, f)
    BY DEF After
  <2> QED BY <2>1
<1>2. ASSUME NEW n \in T PROVE n + 1 \in T
  <2>1. PICK f : After(d, q, n, f)
    OBVIOUS
  <2> DEFINE last == IF f[n] = Refused THEN Refused ELSE ApplyOne(f[n], q[n + 1])
             g == [k \in 0..(n + 1) |-> IF k = n + 1 THEN last ELSE f[k]]
  <2>2. \A k \in 0..(n + 1) :
          g[k] = IF k = 0 THEN d ELSE IF g[k - 1] = Refused THEN Refused ELSE ApplyOne(g[k - 1], q[k])
    <3> TAKE k \in 0..(n + 1)
    <3>1. CASE k = n + 1
      BY <3>1
    <3>2. CASE k # n + 1
      <4>1. k \in 0..n /\ (k # 0 => k - 1 \in 0..n)
        BY <3>2
      <4>2. f[k] = IF k = 0 THEN d ELSE IF f[k - 1] = Refused THEN Refused ELSE ApplyOne(f[k - 1], q[k])
        BY <2>1, <4>1 DEF After
      <4> QED BY <4>1, <4>2
    <3> QED BY <3>1, <3>2
  <2>3. After(d, q, n + 1, g)
    BY <2>2 DEF After
  <2> QED BY <2>3
<1>3. \A n \in Nat : n \in T
  BY <1>1, <1>2, FromZero
<1> QED BY <1>3

\* The documents that applyPatch goes through.
Steps(d, q) == CHOOSE f : After(d, q, Len(q), f)

\* Each document it goes through is what the next operation makes of the one before.
LEMMA StepsFacts ==
  ASSUME NEW d, NEW S, NEW q \in Seq(S)
  PROVE  /\ After(d, q, Len(q), Steps(d, q))
         /\ Steps(d, q)[0] = d
         /\ \A k \in 1..Len(q) :
              Steps(d, q)[k] = IF Steps(d, q)[k - 1] = Refused THEN Refused
                               ELSE ApplyOne(Steps(d, q)[k - 1], q[k])
         /\ ApplyPatch(d, q) = Steps(d, q)[Len(q)]
<1> DEFINE n == Len(q)
           f == Steps(d, q)
<1>1. n \in Nat
  OBVIOUS
<1>2. After(d, q, n, f)
  BY <1>1, AfterExists DEF Steps
<1>3. f = [k \in 0..n |->
            IF k = 0 THEN d ELSE IF f[k - 1] = Refused THEN Refused ELSE ApplyOne(f[k - 1], q[k])]
  BY <1>2 DEF After
<1>4. ApplyPatch(d, q) = f[n]
  BY DEF ApplyPatch, After, Steps
<1>5. f[0] = d
  <2>1. 0 \in 0..n
    BY <1>1
  <2> HIDE DEF n, f
  <2> QED BY <1>3, <2>1
<1>6. ASSUME NEW k \in 1..n
      PROVE  f[k] = IF f[k - 1] = Refused THEN Refused ELSE ApplyOne(f[k - 1], q[k])
  <2>1. k \in 0..n /\ k # 0
    BY <1>1
  <2> HIDE DEF n, f
  <2> QED BY <1>3, <2>1
<1> QED BY <1>2, <1>4, <1>5, <1>6

\* A patch goes through the same documents as one that agrees with it so far.
LEMMA StepsAgree ==
  ASSUME NEW d, NEW S, NEW p \in Seq(S), NEW q \in Seq(S), NEW m \in Nat, m <= Len(p), m <= Len(q),
         \A k \in 1..m : p[k] = q[k]
  PROVE  Steps(d, p)[m] = Steps(d, q)[m]
<1> DEFINE f == Steps(d, p)
           g == Steps(d, q)
           T == {k \in Nat : k <= m => f[k] = g[k]}
<1>1. Len(p) \in Nat /\ Len(q) \in Nat
  OBVIOUS
<1>2. 0 \in T
  BY StepsFacts
<1>3. ASSUME NEW k \in T PROVE k + 1 \in T
  <2>1. CASE k + 1 <= m
    <3>1. k + 1 \in 1..Len(p) /\ k + 1 \in 1..Len(q) /\ k + 1 \in 1..m /\ (k + 1) - 1 = k
      BY <2>1, <1>1
    <3>2. f[k + 1] = IF f[k] = Refused THEN Refused ELSE ApplyOne(f[k], p[k + 1])
      BY <3>1, StepsFacts
    <3>3. g[k + 1] = IF g[k] = Refused THEN Refused ELSE ApplyOne(g[k], q[k + 1])
      BY <3>1, StepsFacts
    <3> QED BY <3>1, <3>2, <3>3, <2>1
  <2> QED BY <2>1
<1>4. \A k \in Nat : k \in T
  <2>1. T \in SUBSET Nat
    OBVIOUS
  <2> HIDE DEF T
  <2> QED BY <2>1, <1>2, <1>3, FromZero
<1> QED BY <1>4

\* The beginning of a patch leads to the document it has reached by then.
LEMMA ApplyPrefix ==
  ASSUME NEW d, NEW S, NEW q \in Seq(S), NEW m \in 0..Len(q)
  PROVE  ApplyPatch(d, SubSeq(q, 1, m)) = Steps(d, q)[m]
<1> DEFINE p == SubSeq(q, 1, m)
<1>1. p \in Seq(S) /\ Len(p) = m /\ \A k \in 1..m : p[k] = q[k]
  OBVIOUS
<1> HIDE DEF p
<1>2. m \in Nat /\ m <= Len(q)
  OBVIOUS
<1>3. ApplyPatch(d, p) = Steps(d, p)[m]
  BY <1>1, StepsFacts
<1>4. Steps(d, p)[m] = Steps(d, q)[m]
  BY <1>1, <1>2, StepsAgree
<1> QED BY <1>3, <1>4 DEF p

\* An empty patch changes nothing.
LEMMA ApplyNothing == \A d : ApplyPatch(d, <<>>) = d
<1> SUFFICES ASSUME NEW d PROVE ApplyPatch(d, <<>>) = d
  OBVIOUS
<1> DEFINE none == <<>>
<1>1. none \in Seq(Nat) /\ Len(none) = 0
  OBVIOUS
<1> HIDE DEF none
<1>2. ApplyPatch(d, none) = Steps(d, none)[Len(none)] /\ Steps(d, none)[0] = d
  BY <1>1, StepsFacts
<1> QED BY <1>1, <1>2 DEF none

\* A patch in two parts is the one, and then the other on what it made.
LEMMA ApplyConcat ==
  ASSUME NEW d, NEW S, NEW p \in Seq(S), NEW q \in Seq(S)
  PROVE  ApplyPatch(d, p \o q) = IF ApplyPatch(d, p) = Refused THEN Refused
                                 ELSE ApplyPatch(ApplyPatch(d, p), q)
<1> DEFINE r == p \o q
           m == Len(p)
           n == Len(q)
           e == ApplyPatch(d, p)
           f == Steps(d, r)
           g == Steps(e, q)
           T == {k \in Nat : k <= n => f[m + k] = IF e = Refused THEN Refused ELSE g[k]}
<1>1. /\ m \in Nat /\ n \in Nat /\ r \in Seq(S) /\ Len(r) = m + n
      /\ \A k \in 1..m : p[k] = r[k]
      /\ \A k \in 1..n : q[k] = r[m + k]
  OBVIOUS
<1> HIDE DEF r
<1>2. e = f[m]
  <2>1. e = Steps(d, p)[m]
    BY StepsFacts
  <2>2. m <= Len(p) /\ m <= Len(r)
    BY <1>1
  <2>3. Steps(d, p)[m] = Steps(d, r)[m]
    BY <1>1, <2>2, StepsAgree
  <2> QED BY <2>1, <2>3
<1>3. 0 \in T
  <2>1. g[0] = e
    BY StepsFacts
  <2>2. m + 0 = m
    BY <1>1
  <2> QED BY <2>1, <2>2, <1>2
<1>4. ASSUME NEW k \in T PROVE k + 1 \in T
  <2> SUFFICES ASSUME k + 1 <= n PROVE f[m + (k + 1)] = IF e = Refused THEN Refused ELSE g[k + 1]
    OBVIOUS
  <2>1. k \in Nat /\ k + 1 \in 1..n /\ (k + 1) - 1 = k
    BY <1>1
  <2>2. m + (k + 1) \in 1..Len(r) /\ (m + (k + 1)) - 1 = m + k
    BY <1>1
  <2>3. f[m + (k + 1)] = IF f[m + k] = Refused THEN Refused ELSE ApplyOne(f[m + k], r[m + (k + 1)])
    <3>1. r \in Seq(S)
      BY <1>1
    <3> HIDE DEF m, n, e, g, T
    <3>2. f[m + (k + 1)] = IF f[(m + (k + 1)) - 1] = Refused THEN Refused
                           ELSE ApplyOne(f[(m + (k + 1)) - 1], r[m + (k + 1)])
      BY <3>1, <2>2, StepsFacts
    <3> QED BY <3>2, <2>2
  <2>4. g[k + 1] = IF g[k] = Refused THEN Refused ELSE ApplyOne(g[k], q[k + 1])
    BY <1>1, <2>1, StepsFacts
  <2>5. r[m + (k + 1)] = q[k + 1]
    BY <1>1, <2>1
  <2>6. f[m + k] = IF e = Refused THEN Refused ELSE g[k]
    BY <1>1, <2>1
  <2> HIDE DEF f, g, e, m, n, T
  <2> QED BY <2>3, <2>4, <2>5, <2>6
<1>5. n \in T
  <2>1. T \in SUBSET Nat
    OBVIOUS
  <2>2. \A k \in Nat : k \in T
    <3> HIDE DEF T
    <3> QED BY <2>1, <1>3, <1>4, FromZero
  <2> QED BY <1>1, <2>2
<1>6. ApplyPatch(d, r) = f[m + n] /\ ApplyPatch(e, q) = g[n]
  <2>1. ApplyPatch(d, r) = f[Len(r)]
    BY <1>1, StepsFacts
  <2>2. ApplyPatch(e, q) = g[n]
    BY StepsFacts
  <2> QED BY <1>1, <2>1, <2>2
<1> QED BY <1>1, <1>5, <1>6 DEF r

(* --------------------------- reading a pointer ------------------------- *)

\* The fields that have a control, and what may be in them.
LEMMA FieldsAre ==
  /\ DOMAIN Typed = {"groomName", "brideName", "message", "weddingDate", "mapsUrl", "latitude",
                     "timezone", "primary", "accent", "cover", "music"}
  /\ \A f \in DOMAIN Typed : Typed[f] \subseteq Text /\ f \in Fields
  /\ "weddingTimezone" \in Fields
  /\ {"", "title", "day", "inside"} \subseteq Text
  /\ \A f : Values(f) \subseteq Text \cup {Null}
<1>1. DOMAIN Typed = {"groomName", "brideName", "message", "weddingDate", "mapsUrl", "latitude",
                      "timezone", "primary", "accent", "cover", "music"}
  BY DEF Typed
<1>2. \A f \in DOMAIN Typed : Typed[f] \subseteq Text
  BY DEF Text
<1>3. (\A f \in DOMAIN Typed : f \in Fields) /\ "weddingTimezone" \in Fields
  BY DEF Fields
<1>4. "" \in Typed["groomName"] /\ "day" \in Typed["weddingDate"] /\ "inside" \in Typed["latitude"]
  BY DEF Typed
<1>5. "" \in Text /\ "day" \in Text /\ "inside" \in Text
  BY <1>1, <1>2, <1>4
<1>6. "title" \in Text
  BY DEF Text
<1>7. \A f : Values(f) \subseteq Text \cup {Null}
  BY DEF Values
<1> QED BY <1>1, <1>2, <1>3, <1>5, <1>6, <1>7

\* A pointer of two keys: the list or the object it is in, and its key.
LEMMA PathOfTwo ==
  ASSUME NEW a, NEW b
  PROVE  Front(<<a, b>>) = <<a>> /\ Last(<<a, b>>) = b
<1> DEFINE s == <<a, b>>
           t == <<a>>
           S == {a, b}
           u == SubSeq(s, 1, Len(s) - 1)
<1>1. s \in Seq(S) /\ Len(s) = 2 /\ s[1] = a /\ s[2] = b
  OBVIOUS
<1>2. t \in Seq(S) /\ Len(t) = 1 /\ t[1] = a
  OBVIOUS
<1>3. u \in Seq(S) /\ Len(u) = 1 /\ u[1] = s[1]
  <2> HIDE DEF s, S
  <2> QED BY <1>1
<1>4. u = t
  <2> HIDE DEF s, t, u, S
  <2>1. \A i \in 1..Len(u) : u[i] = t[i]
    BY <1>1, <1>2, <1>3
  <2> QED BY <1>2, <1>3, <2>1, SeqEqual
<1> QED BY <1>1, <1>4 DEF Front, Last

\* A pointer of three keys.
LEMMA PathOfThree ==
  ASSUME NEW a, NEW b, NEW c
  PROVE  Front(<<a, b, c>>) = <<a, b>> /\ Last(<<a, b, c>>) = c
<1> DEFINE s == <<a, b, c>>
           t == <<a, b>>
           S == {a, b, c}
           u == SubSeq(s, 1, Len(s) - 1)
<1>1. s \in Seq(S) /\ Len(s) = 3 /\ s[1] = a /\ s[2] = b /\ s[3] = c
  OBVIOUS
<1>2. t \in Seq(S) /\ Len(t) = 2 /\ t[1] = a /\ t[2] = b
  OBVIOUS
<1>3. u \in Seq(S) /\ Len(u) = 2 /\ u[1] = s[1] /\ u[2] = s[2]
  <2> HIDE DEF s, S
  <2> QED BY <1>1
<1>4. u = t
  <2> HIDE DEF s, t, u, S
  <2>1. \A i \in 1..Len(u) : u[i] = t[i]
    BY <1>1, <1>2, <1>3
  <2> QED BY <1>2, <1>3, <2>1, SeqEqual
<1> QED BY <1>1, <1>4 DEF Front, Last

\* What a pointer of one key reads.
LEMMA ReadOne ==
  ASSUME NEW d, NEW a
  PROVE  ReadPointer(d, <<a>>) = Member(d, a)
<1> DEFINE path == <<a>>
           f == [n \in 0..1 |-> IF n = 0 THEN d ELSE Member(d, a)]
           at == CHOOSE at : at = [n \in 0..Len(path) |-> IF n = 0 THEN d ELSE Member(at[n - 1], path[n])]
<1>1. Len(path) = 1 /\ path[1] = a
  OBVIOUS
<1>2. f = [n \in 0..Len(path) |-> IF n = 0 THEN d ELSE Member(f[n - 1], path[n])]
  <2> HIDE DEF path
  <2> QED BY <1>1
<1>3. at = [n \in 0..Len(path) |-> IF n = 0 THEN d ELSE Member(at[n - 1], path[n])]
  <2> HIDE DEF f, path
  <2> QED BY <1>2
<1>4. ReadPointer(d, path) = at[Len(path)]
  BY DEF ReadPointer
<1>5. at[1] = Member(at[0], a) /\ at[0] = d
  <2> HIDE DEF at, path
  <2> QED BY <1>1, <1>3
<1> HIDE DEF at, path
<1> QED BY <1>1, <1>4, <1>5 DEF path

\* What a pointer of two keys reads.
LEMMA ReadTwo ==
  ASSUME NEW d, NEW a, NEW b
  PROVE  ReadPointer(d, <<a, b>>) = Member(Member(d, a), b)
<1> DEFINE path == <<a, b>>
           f == [n \in 0..2 |-> IF n = 0 THEN d ELSE IF n = 1 THEN Member(d, a) ELSE Member(Member(d, a), b)]
           at == CHOOSE at : at = [n \in 0..Len(path) |-> IF n = 0 THEN d ELSE Member(at[n - 1], path[n])]
<1>1. Len(path) = 2 /\ path[1] = a /\ path[2] = b
  OBVIOUS
<1>2. f = [n \in 0..Len(path) |-> IF n = 0 THEN d ELSE Member(f[n - 1], path[n])]
  <2> HIDE DEF path
  <2> QED BY <1>1
<1>3. at = [n \in 0..Len(path) |-> IF n = 0 THEN d ELSE Member(at[n - 1], path[n])]
  <2> HIDE DEF f, path
  <2> QED BY <1>2
<1>4. ReadPointer(d, path) = at[Len(path)]
  BY DEF ReadPointer
<1>5. at[2] = Member(at[1], b) /\ at[1] = Member(at[0], a) /\ at[0] = d
  <2> HIDE DEF at, path
  <2> QED BY <1>1, <1>3
<1> HIDE DEF at, path
<1> QED BY <1>1, <1>4, <1>5 DEF path

\* What a pointer of three keys reads.
LEMMA ReadThree ==
  ASSUME NEW d, NEW a, NEW b, NEW c
  PROVE  ReadPointer(d, <<a, b, c>>) = Member(Member(Member(d, a), b), c)
<1> DEFINE path == <<a, b, c>>
           f == [n \in 0..3 |-> IF n = 0 THEN d
                                ELSE IF n = 1 THEN Member(d, a)
                                ELSE IF n = 2 THEN Member(Member(d, a), b)
                                ELSE Member(Member(Member(d, a), b), c)]
           at == CHOOSE at : at = [n \in 0..Len(path) |-> IF n = 0 THEN d ELSE Member(at[n - 1], path[n])]
<1>1. Len(path) = 3 /\ path[1] = a /\ path[2] = b /\ path[3] = c
  OBVIOUS
<1>2. f = [n \in 0..Len(path) |-> IF n = 0 THEN d ELSE Member(f[n - 1], path[n])]
  <2> HIDE DEF path
  <2> QED BY <1>1
<1>3. at = [n \in 0..Len(path) |-> IF n = 0 THEN d ELSE Member(at[n - 1], path[n])]
  <2> HIDE DEF f, path
  <2> QED BY <1>2
<1>4. ReadPointer(d, path) = at[Len(path)]
  BY DEF ReadPointer
<1>5. at[3] = Member(at[2], c) /\ at[2] = Member(at[1], b) /\ at[1] = Member(at[0], a) /\ at[0] = d
  <2> HIDE DEF at, path
  <2> QED BY <1>1, <1>3
<1> HIDE DEF at, path
<1> QED BY <1>1, <1>4, <1>5 DEF path

(* --------------------------- replacing a field ------------------------- *)

\* A document is its four parts.
LEMMA Parts ==
  ASSUME NEW d \in Document
  PROVE  /\ d = [content |-> d.content, events |-> d.events, gallery |-> d.gallery,
                 sections |-> d.sections]
         /\ d.content \in DraftContent /\ d.events \in Seq(DraftEvent)
         /\ d.gallery \in Seq(Nat) /\ d.sections \in Seq(DraftSection)
         /\ Member(d, "content") = d.content /\ Member(d, "events") = d.events
         /\ Member(d, "gallery") = d.gallery /\ Member(d, "sections") = d.sections
BY NullAssumption DEF Document, Member

\* A field of the content is read where it is.
LEMMA ContentRead ==
  ASSUME NEW d \in Document, NEW field \in Fields
  PROVE  ReadPointer(d, <<"content", field>>) = d.content[field]
<1>1. Member(d.content, field) = d.content[field]
  BY Parts, NullAssumption DEF Member, DraftContent
<1> QED BY <1>1, Parts, ReadTwo

\* A field of the content can always be replaced, and only it changes.
LEMMA ContentReplaced ==
  ASSUME NEW d \in Document, NEW field \in Fields, NEW text \in Values(field)
  PROVE  /\ ApplyOne(d, ReplaceOp(<<"content", field>>, text))
              = [d EXCEPT !.content = [@ EXCEPT ![field] = text]]
         /\ [d EXCEPT !.content = [@ EXCEPT ![field] = text]] \in Document
<1> DEFINE path == <<"content", field>>
           op == ReplaceOp(path, text)
           content == [d.content EXCEPT ![field] = text]
<1>1. op.path = path /\ op.op = "replace" /\ op.value = text
  BY DEF ReplaceOp
<1>2. Front(path) = <<"content">> /\ Last(path) = field
  BY PathOfTwo
<1>3. ReadPointer(d, <<"content">>) = d.content
  BY ReadOne, Parts
<1>4. <<"content">> \notin Lists
  BY DEF Lists
<1>5. d.content # Missing /\ content \in DraftContent /\ content # Refused
  BY Parts, NullAssumption, FieldsAre DEF DraftContent
<1>6. OnRecord(op, d.content, field) = content
  BY <1>1, Parts DEF OnRecord, DraftContent
<1>7. Put(d, <<"content">>, content) = [d EXCEPT !.content = content]
  BY DEF Put
<1>8. ApplyOne(d, op) = Put(d, <<"content">>, content)
  <2> HIDE DEF op, path, content
  <2> QED BY <1>1, <1>2, <1>3, <1>4, <1>5, <1>6 DEF ApplyOne
<1>9. [d EXCEPT !.content = content] \in Document
  <2> HIDE DEF content
  <2> QED BY <1>5 DEF Document
<1>10. [d EXCEPT !.content = [@ EXCEPT ![field] = text]] = [d EXCEPT !.content = content]
  OBVIOUS
<1> QED BY <1>7, <1>8, <1>9, <1>10

\* A field of an event can be replaced if the event is there, and only it changes.
LEMMA EventReplaced ==
  ASSUME NEW d \in Document, NEW i \in Nat \ {0}, NEW key \in {"title", "date"}, NEW text \in Text
  PROVE  /\ ApplyOne(d, ReplaceOp(<<"events", i, key>>, text)) =
              IF i \in 1..Len(d.events)
              THEN [d EXCEPT !.events[i][key] = text] ELSE Refused
         /\ i \in 1..Len(d.events) =>
              /\ [d EXCEPT !.events[i][key] = text] \in Document
              /\ ReadPointer(d, <<"events", i, key>>) = d.events[i][key]
<1> DEFINE list == d.events
           path == <<"events", i, key>>
           parent == <<"events", i>>
           op == ReplaceOp(path, text)
           one == [list[i] EXCEPT ![key] = text]
           new == [list EXCEPT ![i] = one]
<1>1. op.path = path /\ op.op = "replace" /\ op.value = text
  BY DEF ReplaceOp
<1>2. Front(path) = parent /\ Last(path) = key
  BY PathOfThree
<1>3. list \in Seq(DraftEvent) /\ DOMAIN list = 1..Len(list) /\ list # Missing
  BY Parts, NullAssumption
<1>4. ReadPointer(d, parent) = IF i \in 1..Len(list) THEN list[i] ELSE Missing
  <2>1. ReadPointer(d, parent) = Member(list, i)
    BY ReadTwo, Parts
  <2> QED BY <1>3, <2>1 DEF Member
<1>5. parent \notin Lists
  BY DEF Lists
<1>6. CASE i \in 1..Len(list)
  <2>1. list[i] \in DraftEvent /\ key \in DOMAIN list[i]
    <3>1. list[i] \in DraftEvent
      <4> HIDE DEF list
      <4> QED BY <1>3, <1>6
    <3> HIDE DEF list
    <3> QED BY <3>1 DEF DraftEvent
  <2>2. one \in DraftEvent /\ list[i] # Missing /\ one # Refused
    BY <2>1, NullAssumption DEF DraftEvent
  <2>3. OnRecord(op, list[i], key) = one
    <3> HIDE DEF op, list
    <3> QED BY <1>1, <2>1 DEF OnRecord
  <2>4. ApplyOne(d, op) = Put(d, parent, one)
    <3> HIDE DEF op, path, parent, one, list
    <3> QED BY <1>1, <1>2, <1>4, <1>5, <1>6, <2>2, <2>3 DEF ApplyOne
  <2>5. Put(d, parent, one) = [d EXCEPT !.events[i] = one]
    BY DEF Put
  <2>6. [d EXCEPT !.events[i][key] = text] = [d EXCEPT !.events = new]
        /\ [d EXCEPT !.events[i] = one] = [d EXCEPT !.events = new]
    BY Parts
  <2>7. new \in Seq(DraftEvent)
    <3> HIDE DEF list, one
    <3> QED BY <1>3, <1>6, <2>2
  <2>8. [d EXCEPT !.events = new] \in Document
    <3> HIDE DEF new
    <3> QED BY <2>7 DEF Document
  <2>9. ReadPointer(d, path) = list[i][key]
    <3>1. ReadPointer(d, path) = Member(Member(list, i), key)
      BY ReadThree, Parts
    <3>2. Member(list, i) = list[i]
      <4> HIDE DEF list
      <4> QED BY <1>3, <1>6 DEF Member
    <3> HIDE DEF list, path
    <3> QED BY <3>1, <3>2, <2>1, <2>2 DEF Member
  <2> QED BY <1>6, <2>4, <2>5, <2>6, <2>8, <2>9
<1>7. CASE i \notin 1..Len(list)
  <2>1. ApplyOne(d, op) = Refused
    <3> HIDE DEF op, path, parent, list
    <3> QED BY <1>1, <1>2, <1>4, <1>7 DEF ApplyOne
  <2> QED BY <1>7, <2>1
<1> QED BY <1>6, <1>7

\* A section can be switched and moved if it is there, and nothing else changes.
LEMMA SectionReplaced ==
  ASSUME NEW d \in Document, NEW i \in Nat \ {0}, NEW key, NEW value,
         \/ key = "enabled" /\ value \in BOOLEAN
         \/ key = "order" /\ value \in Nat
  PROVE  /\ ApplyOne(d, ReplaceOp(<<"sections", i, key>>, value)) =
              IF i \in 1..Len(d.sections)
              THEN [d EXCEPT !.sections[i][key] = value] ELSE Refused
         /\ i \in 1..Len(d.sections) =>
              /\ [d EXCEPT !.sections[i][key] = value] \in Document
              /\ ReadPointer(d, <<"sections", i, key>>) = d.sections[i][key]
<1> DEFINE list == d.sections
           path == <<"sections", i, key>>
           parent == <<"sections", i>>
           op == ReplaceOp(path, value)
           one == [list[i] EXCEPT ![key] = value]
           new == [list EXCEPT ![i] = one]
<1>1. op.path = path /\ op.op = "replace" /\ op.value = value
  BY DEF ReplaceOp
<1>2. Front(path) = parent /\ Last(path) = key
  BY PathOfThree
<1>3. list \in Seq(DraftSection) /\ DOMAIN list = 1..Len(list) /\ list # Missing
  BY Parts, NullAssumption
<1>4. ReadPointer(d, parent) = IF i \in 1..Len(list) THEN list[i] ELSE Missing
  <2>1. ReadPointer(d, parent) = Member(list, i)
    BY ReadTwo, Parts
  <2> QED BY <1>3, <2>1 DEF Member
<1>5. parent \notin Lists
  BY DEF Lists
<1>6. CASE i \in 1..Len(list)
  <2>1. list[i] \in DraftSection /\ key \in DOMAIN list[i]
    <3>1. list[i] \in DraftSection
      <4> HIDE DEF list
      <4> QED BY <1>3, <1>6
    <3> HIDE DEF list
    <3> QED BY <3>1 DEF DraftSection
  <2>2. one \in DraftSection /\ list[i] # Missing /\ one # Refused
    BY <2>1, NullAssumption DEF DraftSection
  <2>3. OnRecord(op, list[i], key) = one
    <3> HIDE DEF op, list
    <3> QED BY <1>1, <2>1 DEF OnRecord
  <2>4. ApplyOne(d, op) = Put(d, parent, one)
    <3> HIDE DEF op, path, parent, one, list
    <3> QED BY <1>1, <1>2, <1>4, <1>5, <1>6, <2>2, <2>3 DEF ApplyOne
  <2>5. Put(d, parent, one) = [d EXCEPT !.sections[i] = one]
    BY DEF Put
  <2>6. [d EXCEPT !.sections[i][key] = value] = [d EXCEPT !.sections = new]
        /\ [d EXCEPT !.sections[i] = one] = [d EXCEPT !.sections = new]
    BY Parts
  <2>7. new \in Seq(DraftSection)
    <3> HIDE DEF list, one
    <3> QED BY <1>3, <1>6, <2>2
  <2>8. [d EXCEPT !.sections = new] \in Document
    <3> HIDE DEF new
    <3> QED BY <2>7 DEF Document
  <2>9. ReadPointer(d, path) = list[i][key]
    <3>1. ReadPointer(d, path) = Member(Member(list, i), key)
      BY ReadThree, Parts
    <3>2. Member(list, i) = list[i]
      <4> HIDE DEF list
      <4> QED BY <1>3, <1>6 DEF Member
    <3> HIDE DEF list, path
    <3> QED BY <3>1, <3>2, <2>1, <2>2 DEF Member
  <2> QED BY <1>6, <2>4, <2>5, <2>6, <2>8, <2>9
<1>7. CASE i \notin 1..Len(list)
  <2>1. ApplyOne(d, op) = Refused
    <3> HIDE DEF op, path, parent, list
    <3> QED BY <1>1, <1>2, <1>4, <1>7 DEF ApplyOne
  <2> QED BY <1>7, <2>1
<1> QED BY <1>6, <1>7

(* ---------------------------- editing a list --------------------------- *)

\* What InsertAt returns.
LEMMA InsertFacts ==
  ASSUME NEW S, NEW s \in Seq(S), NEW i \in 1..(Len(s) + 1), NEW e \in S
  PROVE  /\ InsertAt(s, i, e) \in Seq(S)
         /\ Len(InsertAt(s, i, e)) = Len(s) + 1
         /\ \A k \in 1..(Len(s) + 1) :
              InsertAt(s, i, e)[k] = IF k < i THEN s[k] ELSE IF k = i THEN e ELSE s[k - 1]
<1> DEFINE n == Len(s)
           a == SubSeq(s, 1, i - 1)
           b == <<e>>
           c == SubSeq(s, i, n)
           ab == a \o b
<1>1. n \in Nat /\ i \in Nat /\ i >= 1 /\ i <= n + 1
  OBVIOUS
<1>2. a \in Seq(S) /\ Len(a) = i - 1 /\ \A k \in 1..(i - 1) : a[k] = s[k]
  BY <1>1
<1>3. b \in Seq(S) /\ Len(b) = 1 /\ b[1] = e
  OBVIOUS
<1>4. c \in Seq(S) /\ Len(c) = (n - i) + 1 /\ \A k \in 1..((n - i) + 1) : c[k] = s[(i + k) - 1]
  BY <1>1
<1> HIDE DEF a, b, c
<1>5. ab \in Seq(S) /\ Len(ab) = i /\ \A k \in 1..i : ab[k] = IF k < i THEN s[k] ELSE e
  <2>1. /\ ab \in Seq(S) /\ Len(ab) = Len(a) + Len(b)
        /\ \A k \in 1..(Len(a) + Len(b)) : ab[k] = IF k <= Len(a) THEN a[k] ELSE b[k - Len(a)]
    BY <1>2, <1>3, ConcatProperties
  <2> HIDE DEF ab, n
  <2>2. Len(a) + Len(b) = i
    BY <1>1, <1>2, <1>3
  <2>3. ASSUME NEW k \in 1..i PROVE ab[k] = IF k < i THEN s[k] ELSE e
    <3>1. ab[k] = IF k <= i - 1 THEN a[k] ELSE b[k - (i - 1)]
      BY <2>1, <2>2, <1>2
    <3>2. CASE k < i
      <4>1. k \in 1..(i - 1) /\ k <= i - 1
        BY <1>1, <3>2
      <4> QED BY <3>1, <3>2, <4>1, <1>2
    <3>3. CASE k = i
      <4>1. k - (i - 1) = 1 /\ ~ (k <= i - 1) /\ ~ (k < i)
        BY <1>1, <3>3
      <4> QED BY <3>1, <4>1, <1>3
    <3> QED BY <1>1, <3>2, <3>3
  <2> QED BY <2>1, <2>2, <2>3
<1> HIDE DEF ab
<1>6. /\ ab \o c \in Seq(S) /\ Len(ab \o c) = n + 1
      /\ \A k \in 1..(n + 1) : (ab \o c)[k] = IF k <= i THEN ab[k] ELSE c[k - i]
  <2>1. /\ ab \o c \in Seq(S) /\ Len(ab \o c) = Len(ab) + Len(c)
        /\ \A k \in 1..(Len(ab) + Len(c)) :
             (ab \o c)[k] = IF k <= Len(ab) THEN ab[k] ELSE c[k - Len(ab)]
    BY <1>4, <1>5, ConcatProperties
  <2>2. Len(ab) = i /\ Len(ab) + Len(c) = n + 1
    BY <1>1, <1>4, <1>5
  <2> HIDE DEF n
  <2> QED BY <2>1, <2>2
<1>7. InsertAt(s, i, e) = ab \o c
  BY DEF InsertAt, a, b, c, ab
<1>8. ASSUME NEW k \in 1..(n + 1)
      PROVE  (ab \o c)[k] = IF k < i THEN s[k] ELSE IF k = i THEN e ELSE s[k - 1]
  <2>1. CASE k <= i
    BY <1>1, <1>5, <1>6, <2>1
  <2>2. CASE k > i
    <3>1. k - i \in 1..((n - i) + 1) /\ (i + (k - i)) - 1 = k - 1 /\ ~ (k <= i) /\ ~ (k < i) /\ k # i
      BY <1>1, <2>2
    <3>2. (ab \o c)[k] = c[k - i]
      BY <1>6, <3>1
    <3>3. c[k - i] = s[(i + (k - i)) - 1]
      BY <1>4, <3>1
    <3> QED BY <3>1, <3>2, <3>3
  <2>3. k <= i \/ k > i
    BY <1>1
  <2> QED BY <2>1, <2>2, <2>3
<1> QED BY <1>6, <1>7, <1>8

\* What RemoveAt returns.
LEMMA RemoveFacts ==
  ASSUME NEW S, NEW s \in Seq(S), NEW i \in 1..Len(s)
  PROVE  /\ RemoveAt(s, i) \in Seq(S)
         /\ Len(RemoveAt(s, i)) = Len(s) - 1
         /\ \A k \in 1..(Len(s) - 1) : RemoveAt(s, i)[k] = IF k < i THEN s[k] ELSE s[k + 1]
<1> DEFINE n == Len(s)
           a == SubSeq(s, 1, i - 1)
           c == SubSeq(s, i + 1, n)
<1>1. n \in Nat /\ i \in Nat /\ i >= 1 /\ i <= n
  OBVIOUS
<1>2. a \in Seq(S) /\ Len(a) = i - 1 /\ \A k \in 1..(i - 1) : a[k] = s[k]
  BY <1>1
<1>3. c \in Seq(S) /\ Len(c) = n - i /\ \A k \in 1..(n - i) : c[k] = s[i + k]
  BY <1>1
<1> HIDE DEF a, c
<1>4. /\ a \o c \in Seq(S) /\ Len(a \o c) = n - 1
      /\ \A k \in 1..(n - 1) : (a \o c)[k] = IF k < i THEN a[k] ELSE c[k - (i - 1)]
  <2>1. /\ a \o c \in Seq(S) /\ Len(a \o c) = Len(a) + Len(c)
        /\ \A k \in 1..(Len(a) + Len(c)) : (a \o c)[k] = IF k <= Len(a) THEN a[k] ELSE c[k - Len(a)]
    BY <1>2, <1>3, ConcatProperties
  <2>2. Len(a) = i - 1 /\ Len(a) + Len(c) = n - 1 /\ \A k \in 1..(n - 1) : k <= i - 1 <=> k < i
    BY <1>1, <1>2, <1>3
  <2> HIDE DEF n
  <2> QED BY <2>1, <2>2
<1>5. RemoveAt(s, i) = a \o c
  BY DEF RemoveAt, a, c
<1>6. ASSUME NEW k \in 1..(n - 1)
      PROVE  (a \o c)[k] = IF k < i THEN s[k] ELSE s[k + 1]
  <2>1. CASE k < i
    BY <1>1, <1>2, <1>4, <2>1
  <2>2. CASE k >= i
    <3>1. k - (i - 1) \in 1..(n - i) /\ i + (k - (i - 1)) = k + 1 /\ ~ (k < i)
      BY <1>1, <2>2
    <3>2. (a \o c)[k] = c[k - (i - 1)]
      BY <1>4, <3>1
    <3>3. c[k - (i - 1)] = s[i + (k - (i - 1))]
      BY <1>3, <3>1
    <3> QED BY <3>1, <3>2, <3>3
  <2>3. k < i \/ k >= i
    BY <1>1
  <2> QED BY <2>1, <2>2, <2>3
<1> QED BY <1>4, <1>5, <1>6

\* What is removed, and inserted at its place again, gives the sequence back.
LEMMA InsertRemoved ==
  ASSUME NEW S, NEW s \in Seq(S), NEW i \in 1..Len(s)
  PROVE  /\ i \in 1..(Len(RemoveAt(s, i)) + 1)
         /\ InsertAt(RemoveAt(s, i), i, s[i]) = s
<1> DEFINE n == Len(s)
           r == RemoveAt(s, i)
           t == InsertAt(r, i, s[i])
<1>1. n \in Nat /\ i \in Nat /\ i >= 1 /\ i <= n /\ s[i] \in S
  OBVIOUS
<1>2. r \in Seq(S) /\ Len(r) = n - 1 /\ \A k \in 1..(n - 1) : r[k] = IF k < i THEN s[k] ELSE s[k + 1]
  BY RemoveFacts
<1> HIDE DEF r
<1>3. i \in 1..(Len(r) + 1)
  BY <1>1, <1>2
<1>4. t \in Seq(S) /\ Len(t) = Len(r) + 1
      /\ \A k \in 1..(Len(r) + 1) : t[k] = IF k < i THEN r[k] ELSE IF k = i THEN s[i] ELSE r[k - 1]
  <2> DEFINE e == s[i]
  <2>1. e \in S /\ r \in Seq(S)
    BY <1>1, <1>2
  <2> HIDE DEF e
  <2> QED BY <1>3, <2>1, InsertFacts
<1> HIDE DEF t
<1>5. ASSUME NEW k \in 1..Len(t) PROVE t[k] = s[k]
  <2>1. k \in 1..n
    BY <1>1, <1>2, <1>4
  <2>2. CASE k < i
    BY <1>1, <1>2, <1>4, <2>1, <2>2
  <2>3. CASE k = i
    BY <1>1, <1>2, <1>4, <2>1, <2>3
  <2>4. CASE k > i
    BY <1>1, <1>2, <1>4, <2>1, <2>4
  <2> QED BY <1>1, <2>1, <2>2, <2>3, <2>4
<1>6. t = s
  <2>1. Len(t) = Len(s)
    BY <1>1, <1>2, <1>4
  <2> QED BY <1>4, <1>5, <2>1, SeqEqual
<1> QED BY <1>3, <1>6 DEF r, t

\* What is inserted, and removed again, gives the sequence back.
LEMMA RemoveInserted ==
  ASSUME NEW S, NEW s \in Seq(S), NEW i \in 1..(Len(s) + 1), NEW e \in S
  PROVE  /\ i \in 1..Len(InsertAt(s, i, e))
         /\ RemoveAt(InsertAt(s, i, e), i) = s
<1> DEFINE n == Len(s)
           r == InsertAt(s, i, e)
           t == RemoveAt(r, i)
<1>1. n \in Nat /\ i \in Nat /\ i >= 1 /\ i <= n + 1
  OBVIOUS
<1>2. r \in Seq(S) /\ Len(r) = n + 1
      /\ \A k \in 1..(n + 1) : r[k] = IF k < i THEN s[k] ELSE IF k = i THEN e ELSE s[k - 1]
  BY InsertFacts
<1> HIDE DEF r
<1>3. i \in 1..Len(r)
  BY <1>1, <1>2
<1>4. t \in Seq(S) /\ Len(t) = Len(r) - 1
      /\ \A k \in 1..(Len(r) - 1) : t[k] = IF k < i THEN r[k] ELSE r[k + 1]
  BY <1>2, <1>3, RemoveFacts
<1> HIDE DEF t
<1>5. ASSUME NEW k \in 1..Len(t) PROVE t[k] = s[k]
  <2>1. k \in 1..n
    BY <1>1, <1>2, <1>4
  <2>2. CASE k < i
    BY <1>1, <1>2, <1>4, <2>1, <2>2
  <2>3. CASE k >= i
    BY <1>1, <1>2, <1>4, <2>1, <2>3
  <2> QED BY <1>1, <2>1, <2>2, <2>3
<1>6. t = s
  <2>1. Len(t) = Len(s)
    BY <1>1, <1>2, <1>4
  <2> QED BY <1>4, <1>5, <2>1, SeqEqual
<1> QED BY <1>3, <1>6 DEF r, t

\* An event can be added at any place up to the one after the last.
LEMMA EventAdded ==
  ASSUME NEW d \in Document, NEW i \in Nat, NEW e \in DraftEvent
  PROVE  LET place == IF i = End THEN Len(d.events) + 1 ELSE i IN
         /\ ApplyOne(d, AddOp(<<"events", i>>, e)) =
              IF place \in 1..(Len(d.events) + 1)
              THEN [d EXCEPT !.events = InsertAt(d.events, place, e)] ELSE Refused
         /\ place \in 1..(Len(d.events) + 1) =>
              [d EXCEPT !.events = InsertAt(d.events, place, e)] \in Document
<1> DEFINE list == d.events
           place == IF i = End THEN Len(list) + 1 ELSE i
           path == <<"events", i>>
           parent == <<"events">>
           op == AddOp(path, e)
           new == InsertAt(list, place, e)
<1>1. op.path = path /\ op.op = "add" /\ op.value = e
  BY DEF AddOp
<1>2. Front(path) = parent /\ Last(path) = i
  BY PathOfTwo
<1>3. list \in Seq(DraftEvent) /\ list # Missing
  BY Parts, NullAssumption
<1>4. ReadPointer(d, parent) = list
  BY ReadOne, Parts
<1>5. parent \in Lists
  BY DEF Lists
<1>6. CASE place \in 1..(Len(list) + 1)
  <2>1. OnList(op, list, place) = new
    <3> HIDE DEF op, list, place
    <3> QED BY <1>1, <1>6 DEF OnList, new
  <2>2. new \in Seq(DraftEvent) /\ new # Refused
    <3>1. new \in Seq(DraftEvent)
      <4> HIDE DEF list, place
      <4> QED BY <1>3, <1>6, InsertFacts
    <3> HIDE DEF new
    <3> QED BY <3>1, NullAssumption
  <2>3. ApplyOne(d, op) = Put(d, parent, new)
    <3>1. OnList(op, list, IF i = End THEN Len(list) + 1 ELSE i) = new
      BY <2>1
    <3> HIDE DEF op, path, parent, new, list, place
    <3> QED BY <1>1, <1>2, <1>3, <1>4, <1>5, <2>2, <3>1 DEF ApplyOne
  <2>4. Put(d, parent, new) = [d EXCEPT !.events = new]
    <3> HIDE DEF new
    <3> QED BY DEF Put
  <2>5. [d EXCEPT !.events = new] \in Document
    <3> HIDE DEF new
    <3> QED BY <2>2 DEF Document
  <2> QED BY <1>6, <2>3, <2>4, <2>5
<1>7. CASE place \notin 1..(Len(list) + 1)
  <2>1. OnList(op, list, place) = Refused
    <3> HIDE DEF op, list, place
    <3> QED BY <1>1, <1>7 DEF OnList
  <2>2. ApplyOne(d, op) = Refused
    <3>1. OnList(op, list, IF i = End THEN Len(list) + 1 ELSE i) = Refused
      BY <2>1
    <3> HIDE DEF op, path, parent, list, place
    <3> QED BY <1>1, <1>2, <1>3, <1>4, <1>5, <3>1 DEF ApplyOne
  <2> QED BY <1>7, <2>2
<1> QED BY <1>6, <1>7

\* An event that is there can be removed, and read before.
LEMMA EventRemoved ==
  ASSUME NEW d \in Document, NEW i \in Nat \ {0}
  PROVE  /\ ApplyOne(d, RemoveOp(<<"events", i>>)) =
              IF i \in 1..Len(d.events) THEN [d EXCEPT !.events = RemoveAt(d.events, i)] ELSE Refused
         /\ i \in 1..Len(d.events) =>
              /\ [d EXCEPT !.events = RemoveAt(d.events, i)] \in Document
              /\ ReadPointer(d, <<"events", i>>) = d.events[i]
<1> DEFINE list == d.events
           path == <<"events", i>>
           parent == <<"events">>
           op == RemoveOp(path)
           new == RemoveAt(list, i)
<1>1. op.path = path /\ op.op = "remove"
  BY DEF RemoveOp
<1>2. Front(path) = parent /\ Last(path) = i /\ i # End
  BY PathOfTwo DEF End
<1>3. list \in Seq(DraftEvent) /\ list # Missing /\ DOMAIN list = 1..Len(list)
  BY Parts, NullAssumption
<1>4. ReadPointer(d, parent) = list
  BY ReadOne, Parts
<1>5. parent \in Lists
  BY DEF Lists
<1>6. CASE i \in 1..Len(list)
  <2>1. OnList(op, list, i) = new
    <3> HIDE DEF op, list
    <3> QED BY <1>1, <1>6 DEF OnList, new
  <2>2. new \in Seq(DraftEvent) /\ new # Refused
    <3>1. new \in Seq(DraftEvent)
      <4> HIDE DEF list
      <4> QED BY <1>3, <1>6, RemoveFacts
    <3> HIDE DEF new
    <3> QED BY <3>1, NullAssumption
  <2>3. ApplyOne(d, op) = Put(d, parent, new)
    <3> HIDE DEF op, path, parent, new, list
    <3> QED BY <1>1, <1>2, <1>3, <1>4, <1>5, <2>1, <2>2 DEF ApplyOne
  <2>4. Put(d, parent, new) = [d EXCEPT !.events = new]
    <3> HIDE DEF new
    <3> QED BY DEF Put
  <2>5. [d EXCEPT !.events = new] \in Document
    <3> HIDE DEF new
    <3> QED BY <2>2 DEF Document
  <2>6. ReadPointer(d, path) = list[i]
    <3>1. ReadPointer(d, path) = Member(list, i)
      BY ReadTwo, Parts
    <3> HIDE DEF list, path
    <3> QED BY <3>1, <1>3, <1>6 DEF Member
  <2> QED BY <1>6, <2>3, <2>4, <2>5, <2>6
<1>7. CASE i \notin 1..Len(list)
  <2>1. OnList(op, list, i) = Refused
    <3> HIDE DEF op, list
    <3> QED BY <1>1, <1>7 DEF OnList
  <2>2. ApplyOne(d, op) = Refused
    <3> HIDE DEF op, path, parent, list
    <3> QED BY <1>1, <1>2, <1>3, <1>4, <1>5, <2>1 DEF ApplyOne
  <2> QED BY <1>7, <2>2
<1> QED BY <1>6, <1>7

\* A photo can be added at any place up to the one after the last.
LEMMA PhotoAdded ==
  ASSUME NEW d \in Document, NEW i \in Nat, NEW e \in Nat
  PROVE  LET place == IF i = End THEN Len(d.gallery) + 1 ELSE i IN
         /\ ApplyOne(d, AddOp(<<"gallery", i>>, e)) =
              IF place \in 1..(Len(d.gallery) + 1)
              THEN [d EXCEPT !.gallery = InsertAt(d.gallery, place, e)] ELSE Refused
         /\ place \in 1..(Len(d.gallery) + 1) =>
              [d EXCEPT !.gallery = InsertAt(d.gallery, place, e)] \in Document
<1> DEFINE list == d.gallery
           place == IF i = End THEN Len(list) + 1 ELSE i
           path == <<"gallery", i>>
           parent == <<"gallery">>
           op == AddOp(path, e)
           new == InsertAt(list, place, e)
<1>1. op.path = path /\ op.op = "add" /\ op.value = e
  BY DEF AddOp
<1>2. Front(path) = parent /\ Last(path) = i
  BY PathOfTwo
<1>3. list \in Seq(Nat) /\ list # Missing
  BY Parts, NullAssumption
<1>4. ReadPointer(d, parent) = list
  BY ReadOne, Parts
<1>5. parent \in Lists
  BY DEF Lists
<1>6. CASE place \in 1..(Len(list) + 1)
  <2>1. OnList(op, list, place) = new
    <3> HIDE DEF op, list, place
    <3> QED BY <1>1, <1>6 DEF OnList, new
  <2>2. new \in Seq(Nat) /\ new # Refused
    <3>1. new \in Seq(Nat)
      <4> HIDE DEF list, place
      <4> QED BY <1>3, <1>6, InsertFacts
    <3> HIDE DEF new
    <3> QED BY <3>1, NullAssumption
  <2>3. ApplyOne(d, op) = Put(d, parent, new)
    <3>1. OnList(op, list, IF i = End THEN Len(list) + 1 ELSE i) = new
      BY <2>1
    <3> HIDE DEF op, path, parent, new, list, place
    <3> QED BY <1>1, <1>2, <1>3, <1>4, <1>5, <2>2, <3>1 DEF ApplyOne
  <2>4. Put(d, parent, new) = [d EXCEPT !.gallery = new]
    <3> HIDE DEF new
    <3> QED BY DEF Put
  <2>5. [d EXCEPT !.gallery = new] \in Document
    <3> HIDE DEF new
    <3> QED BY <2>2 DEF Document
  <2> QED BY <1>6, <2>3, <2>4, <2>5
<1>7. CASE place \notin 1..(Len(list) + 1)
  <2>1. OnList(op, list, place) = Refused
    <3> HIDE DEF op, list, place
    <3> QED BY <1>1, <1>7 DEF OnList
  <2>2. ApplyOne(d, op) = Refused
    <3>1. OnList(op, list, IF i = End THEN Len(list) + 1 ELSE i) = Refused
      BY <2>1
    <3> HIDE DEF op, path, parent, list, place
    <3> QED BY <1>1, <1>2, <1>3, <1>4, <1>5, <3>1 DEF ApplyOne
  <2> QED BY <1>7, <2>2
<1> QED BY <1>6, <1>7

\* A photo that is there can be removed, and read before.
LEMMA PhotoRemoved ==
  ASSUME NEW d \in Document, NEW i \in Nat \ {0}
  PROVE  /\ ApplyOne(d, RemoveOp(<<"gallery", i>>)) =
              IF i \in 1..Len(d.gallery) THEN [d EXCEPT !.gallery = RemoveAt(d.gallery, i)] ELSE Refused
         /\ i \in 1..Len(d.gallery) =>
              /\ [d EXCEPT !.gallery = RemoveAt(d.gallery, i)] \in Document
              /\ ReadPointer(d, <<"gallery", i>>) = d.gallery[i]
<1> DEFINE list == d.gallery
           path == <<"gallery", i>>
           parent == <<"gallery">>
           op == RemoveOp(path)
           new == RemoveAt(list, i)
<1>1. op.path = path /\ op.op = "remove"
  BY DEF RemoveOp
<1>2. Front(path) = parent /\ Last(path) = i /\ i # End
  BY PathOfTwo DEF End
<1>3. list \in Seq(Nat) /\ list # Missing /\ DOMAIN list = 1..Len(list)
  BY Parts, NullAssumption
<1>4. ReadPointer(d, parent) = list
  BY ReadOne, Parts
<1>5. parent \in Lists
  BY DEF Lists
<1>6. CASE i \in 1..Len(list)
  <2>1. OnList(op, list, i) = new
    <3> HIDE DEF op, list
    <3> QED BY <1>1, <1>6 DEF OnList, new
  <2>2. new \in Seq(Nat) /\ new # Refused
    <3>1. new \in Seq(Nat)
      <4> HIDE DEF list
      <4> QED BY <1>3, <1>6, RemoveFacts
    <3> HIDE DEF new
    <3> QED BY <3>1, NullAssumption
  <2>3. ApplyOne(d, op) = Put(d, parent, new)
    <3> HIDE DEF op, path, parent, new, list
    <3> QED BY <1>1, <1>2, <1>3, <1>4, <1>5, <2>1, <2>2 DEF ApplyOne
  <2>4. Put(d, parent, new) = [d EXCEPT !.gallery = new]
    <3> HIDE DEF new
    <3> QED BY DEF Put
  <2>5. [d EXCEPT !.gallery = new] \in Document
    <3> HIDE DEF new
    <3> QED BY <2>2 DEF Document
  <2>6. ReadPointer(d, path) = list[i]
    <3>1. ReadPointer(d, path) = Member(list, i)
      BY ReadTwo, Parts
    <3> HIDE DEF list, path
    <3> QED BY <3>1, <1>3, <1>6 DEF Member
  <2> QED BY <1>6, <2>3, <2>4, <2>5, <2>6
<1>7. CASE i \notin 1..Len(list)
  <2>1. OnList(op, list, i) = Refused
    <3> HIDE DEF op, list
    <3> QED BY <1>1, <1>7 DEF OnList
  <2>2. ApplyOne(d, op) = Refused
    <3> HIDE DEF op, path, parent, list
    <3> QED BY <1>1, <1>2, <1>3, <1>4, <1>5, <2>1 DEF ApplyOne
  <2> QED BY <1>7, <2>2
<1> QED BY <1>6, <1>7

(* ---------------------------- the operations --------------------------- *)

\* A field of the content is given another value.
FieldReplacement ==
  UNION {{ReplaceOp(<<"content", field>>, text) : text \in Values(field)} : field \in Fields}

\* ... or a field of an element of a list.
Replacement ==
  UNION {FieldReplacement,
         {ReplaceOp(<<"events", i, key>>, text) :
            i \in Nat \ {0}, key \in {"title", "date"}, text \in Text},
         {ReplaceOp(<<"sections", i, "enabled">>, on) : i \in Nat \ {0}, on \in BOOLEAN},
         {ReplaceOp(<<"sections", i, "order">>, n) : i \in Nat \ {0}, n \in Nat}}

\* What a control may do: an element is appended, and taken away at its place.
UserOperation ==
  UNION {Replacement,
         {AddOp(<<"events", End>>, event) : event \in DraftEvent},
         {AddOp(<<"gallery", End>>, photo) : photo \in Nat},
         {RemoveOp(<<"events", i>>) : i \in Nat \ {0}},
         {RemoveOp(<<"gallery", i>>) : i \in Nat \ {0}}}

\* ... and what undoes it: what was removed comes back at its place.
Operation ==
  UNION {UserOperation,
         {AddOp(<<"events", i>>, event) : i \in Nat, event \in DraftEvent},
         {AddOp(<<"gallery", i>>, photo) : i \in Nat, photo \in Nat}}

\* What a replacement may be.
LEMMA ReplacementCases ==
  ASSUME NEW a \in Replacement
  PROVE  \/ \E field \in Fields : \E text \in Values(field) :
              a = ReplaceOp(<<"content", field>>, text)
         \/ \E i \in Nat \ {0}, key \in {"title", "date"}, text \in Text :
              a = ReplaceOp(<<"events", i, key>>, text)
         \/ \E i \in Nat \ {0} : \E key, value :
              /\ \/ key = "enabled" /\ value \in BOOLEAN
                 \/ key = "order" /\ value \in Nat
              /\ a = ReplaceOp(<<"sections", i, key>>, value)
<1> DEFINE A == FieldReplacement
           B == {ReplaceOp(<<"events", i, key>>, text) :
                   i \in Nat \ {0}, key \in {"title", "date"}, text \in Text}
           C == {ReplaceOp(<<"sections", i, "enabled">>, on) : i \in Nat \ {0}, on \in BOOLEAN}
           D == {ReplaceOp(<<"sections", i, "order">>, n) : i \in Nat \ {0}, n \in Nat}
<1>1. a \in A \/ a \in B \/ a \in C \/ a \in D
  <2>1. a \in UNION {A, B, C, D}
    BY DEF Replacement
  <2> HIDE DEF A, B, C, D
  <2> QED BY <2>1
<1>2. a \in A => \E field \in Fields : \E text \in Values(field) :
                   a = ReplaceOp(<<"content", field>>, text)
  BY DEF FieldReplacement
<1>3. a \in B => \E i \in Nat \ {0}, key \in {"title", "date"}, text \in Text :
                   a = ReplaceOp(<<"events", i, key>>, text)
  OBVIOUS
<1>4. a \in C => \E i \in Nat \ {0}, on \in BOOLEAN : a = ReplaceOp(<<"sections", i, "enabled">>, on)
  OBVIOUS
<1>5. a \in D => \E i \in Nat \ {0}, n \in Nat : a = ReplaceOp(<<"sections", i, "order">>, n)
  OBVIOUS
<1> HIDE DEF A, B, C, D
<1> QED BY <1>1, <1>2, <1>3, <1>4, <1>5

\* What an operation may be.
LEMMA OperationCases ==
  ASSUME NEW op \in Operation
  PROVE  \/ op \in Replacement
         \/ \E i \in Nat, event \in DraftEvent : op = AddOp(<<"events", i>>, event)
         \/ \E i \in Nat, photo \in Nat : op = AddOp(<<"gallery", i>>, photo)
         \/ \E i \in Nat \ {0} : op = RemoveOp(<<"events", i>>)
         \/ \E i \in Nat \ {0} : op = RemoveOp(<<"gallery", i>>)
BY DEF Operation, UserOperation, End

\* What an operation of a control may be.
LEMMA UserOperationCases ==
  ASSUME NEW op \in UserOperation
  PROVE  \/ op \in Replacement
         \/ \E event \in DraftEvent : op = AddOp(<<"events", End>>, event)
         \/ \E photo \in Nat : op = AddOp(<<"gallery", End>>, photo)
         \/ \E i \in Nat \ {0} : op = RemoveOp(<<"events", i>>)
         \/ \E i \in Nat \ {0} : op = RemoveOp(<<"gallery", i>>)
BY DEF UserOperation

\* The three sets, each in the next; a replacement is one in all of them.
LEMMA OperationsInclude ==
  /\ Replacement \subseteq UserOperation /\ UserOperation \subseteq Operation
  /\ \A op \in Operation : op.op = "replace" => op \in Replacement
<1>1. Replacement \subseteq UserOperation /\ UserOperation \subseteq Operation
  BY DEF Operation, UserOperation
<1>2. ASSUME NEW op \in Operation, op.op = "replace" PROVE op \in Replacement
  BY <1>2, OperationCases DEF AddOp, RemoveOp
<1> QED BY <1>1, <1>2

\* The part of a document that a replacement is in, and what it makes of that part.
Reached(part, a) == a.path[2] \in DOMAIN part

Turned(part, a) ==
  IF a.path[1] = "content" THEN [part EXCEPT ![a.path[2]] = a.value]
  ELSE [part EXCEPT ![a.path[2]] = [part[a.path[2]] EXCEPT ![a.path[3]] = a.value]]

\* A replacement changes one part of the document, if its target is there.
LEMMA ReplacementTurns ==
  ASSUME NEW a \in Replacement, NEW d \in Document
  PROVE  LET l == a.path[1] IN
         /\ a.op = "replace" /\ l \in {"content", "events", "sections"}
         /\ a.path = IF l = "content" THEN <<l, a.path[2]>> ELSE <<l, a.path[2], a.path[3]>>
         /\ ApplyOne(d, a) = IF Reached(d[l], a) THEN [d EXCEPT ![l] = Turned(d[l], a)] ELSE Refused
         /\ Reached(d[l], a) => [d EXCEPT ![l] = Turned(d[l], a)] \in Document
<1> DEFINE l == a.path[1]
           Goal == /\ a.op = "replace" /\ l \in {"content", "events", "sections"}
                   /\ a.path = IF l = "content" THEN <<l, a.path[2]>> ELSE <<l, a.path[2], a.path[3]>>
                   /\ ApplyOne(d, a) = IF Reached(d[l], a) THEN [d EXCEPT ![l] = Turned(d[l], a)]
                                       ELSE Refused
                   /\ Reached(d[l], a) => [d EXCEPT ![l] = Turned(d[l], a)] \in Document
<1>1. ASSUME NEW field \in Fields, NEW text \in Values(field),
             a = ReplaceOp(<<"content", field>>, text)
      PROVE  Goal
  <2> DEFINE path == <<"content", field>>
  <2>1. a.op = "replace" /\ a.path = path /\ a.value = text
    BY <1>1 DEF ReplaceOp
  <2>2. path[1] = "content" /\ path[2] = field
    OBVIOUS
  <2>3. l = "content" /\ a.path[2] = field
    BY <2>1, <2>2
  <2>4. d["content"] = d.content /\ field \in DOMAIN d.content
    BY Parts DEF DraftContent
  <2>5. Turned(d[l], a) = [d.content EXCEPT ![field] = text] /\ Reached(d[l], a)
    BY <2>1, <2>3, <2>4 DEF Turned, Reached
  <2>6. [d EXCEPT ![l] = Turned(d[l], a)] = [d EXCEPT !.content = [@ EXCEPT ![field] = text]]
    BY <2>3, <2>5
  <2>7. /\ ApplyOne(d, a) = [d EXCEPT !.content = [@ EXCEPT ![field] = text]]
        /\ [d EXCEPT !.content = [@ EXCEPT ![field] = text]] \in Document
    BY <1>1, ContentReplaced
  <2> QED BY <2>1, <2>3, <2>5, <2>6, <2>7
<1>2. ASSUME NEW i \in Nat \ {0}, NEW key \in {"title", "date"}, NEW text \in Text,
             a = ReplaceOp(<<"events", i, key>>, text)
      PROVE  Goal
  <2> DEFINE path == <<"events", i, key>>
  <2>1. a.op = "replace" /\ a.path = path /\ a.value = text
    BY <1>2 DEF ReplaceOp
  <2>2. path[1] = "events" /\ path[2] = i /\ path[3] = key
    OBVIOUS
  <2>3. l = "events" /\ a.path[2] = i /\ a.path[3] = key
    BY <2>1, <2>2
  <2>4. d["events"] = d.events /\ DOMAIN d.events = 1..Len(d.events)
    BY Parts
  <2>5. /\ Turned(d[l], a) = [d.events EXCEPT ![i] = [d.events[i] EXCEPT ![key] = text]]
        /\ Reached(d[l], a) <=> i \in 1..Len(d.events)
    BY <2>1, <2>3, <2>4 DEF Turned, Reached
  <2>6. [d EXCEPT ![l] = Turned(d[l], a)] = [d EXCEPT !.events[i][key] = text]
    BY <2>3, <2>5
  <2>7. /\ ApplyOne(d, a) = IF i \in 1..Len(d.events) THEN [d EXCEPT !.events[i][key] = text]
                            ELSE Refused
        /\ i \in 1..Len(d.events) => [d EXCEPT !.events[i][key] = text] \in Document
    BY <1>2, EventReplaced
  <2> QED BY <2>1, <2>3, <2>5, <2>6, <2>7
<1>3. ASSUME NEW i \in Nat \ {0}, NEW key, NEW value,
             \/ key = "enabled" /\ value \in BOOLEAN
             \/ key = "order" /\ value \in Nat,
             a = ReplaceOp(<<"sections", i, key>>, value)
      PROVE  Goal
  <2> DEFINE path == <<"sections", i, key>>
  <2>1. a.op = "replace" /\ a.path = path /\ a.value = value
    BY <1>3 DEF ReplaceOp
  <2>2. path[1] = "sections" /\ path[2] = i /\ path[3] = key
    OBVIOUS
  <2>3. l = "sections" /\ a.path[2] = i /\ a.path[3] = key
    BY <2>1, <2>2
  <2>4. d["sections"] = d.sections /\ DOMAIN d.sections = 1..Len(d.sections)
    BY Parts
  <2>5. /\ Turned(d[l], a) = [d.sections EXCEPT ![i] = [d.sections[i] EXCEPT ![key] = value]]
        /\ Reached(d[l], a) <=> i \in 1..Len(d.sections)
    BY <2>1, <2>3, <2>4 DEF Turned, Reached
  <2>6. [d EXCEPT ![l] = Turned(d[l], a)] = [d EXCEPT !.sections[i][key] = value]
    BY <2>3, <2>5
  <2>7. /\ ApplyOne(d, a) = IF i \in 1..Len(d.sections) THEN [d EXCEPT !.sections[i][key] = value]
                            ELSE Refused
        /\ i \in 1..Len(d.sections) => [d EXCEPT !.sections[i][key] = value] \in Document
    BY <1>3, SectionReplaced
  <2> QED BY <2>1, <2>3, <2>5, <2>6, <2>7
<1>4. Goal
  <2> HIDE DEF Goal
  <2>1. CASE \E field \in Fields : \E text \in Values(field) :
               a = ReplaceOp(<<"content", field>>, text)
    BY <1>1, <2>1
  <2>2. CASE \E i \in Nat \ {0}, key \in {"title", "date"}, text \in Text :
               a = ReplaceOp(<<"events", i, key>>, text)
    BY <1>2, <2>2
  <2>3. CASE \E i \in Nat \ {0} : \E key, value :
               /\ \/ key = "enabled" /\ value \in BOOLEAN
                  \/ key = "order" /\ value \in Nat
               /\ a = ReplaceOp(<<"sections", i, key>>, value)
    BY <1>3, <2>3
  <2> QED BY <2>1, <2>2, <2>3, ReplacementCases, Zenon
<1> QED BY <1>4

(* ---------------- what operations do, one after the other -------------- *)

\* An operation makes a document of a document, or is refused.
LEMMA ApplyOneTyped ==
  ASSUME NEW d \in Document, NEW op \in Operation
  PROVE  ApplyOne(d, op) \in Document \cup {Refused}
<1>1. CASE op \in Replacement
  BY <1>1, ReplacementTurns
<1>2. ASSUME NEW i \in Nat, NEW event \in DraftEvent, op = AddOp(<<"events", i>>, event)
      PROVE  ApplyOne(d, op) \in Document \cup {Refused}
  BY <1>2, EventAdded
<1>3. ASSUME NEW i \in Nat, NEW photo \in Nat, op = AddOp(<<"gallery", i>>, photo)
      PROVE  ApplyOne(d, op) \in Document \cup {Refused}
  BY <1>3, PhotoAdded
<1>4. ASSUME NEW i \in Nat \ {0}, op = RemoveOp(<<"events", i>>)
      PROVE  ApplyOne(d, op) \in Document \cup {Refused}
  BY <1>4, EventRemoved
<1>5. ASSUME NEW i \in Nat \ {0}, op = RemoveOp(<<"gallery", i>>)
      PROVE  ApplyOne(d, op) \in Document \cup {Refused}
  BY <1>5, PhotoRemoved
<1> QED BY <1>1, <1>2, <1>3, <1>4, <1>5, OperationCases

\* So does a patch, at each step.
LEMMA StepsTyped ==
  ASSUME NEW d \in Document, NEW q \in Seq(Operation)
  PROVE  /\ \A k \in 0..Len(q) : Steps(d, q)[k] \in Document \cup {Refused}
         /\ ApplyPatch(d, q) \in Document \cup {Refused}
<1> DEFINE n == Len(q)
           f == Steps(d, q)
           T == {k \in Nat : k <= n => f[k] \in Document \cup {Refused}}
<1>1. n \in Nat
  OBVIOUS
<1>2. 0 \in T
  BY StepsFacts
<1>3. ASSUME NEW k \in T PROVE k + 1 \in T
  <2> SUFFICES ASSUME k + 1 <= n PROVE f[k + 1] \in Document \cup {Refused}
    OBVIOUS
  <2>1. k + 1 \in 1..n /\ (k + 1) - 1 = k /\ f[k] \in Document \cup {Refused} /\ q[k + 1] \in Operation
    BY <1>1
  <2>2. f[k + 1] = IF f[k] = Refused THEN Refused ELSE ApplyOne(f[k], q[k + 1])
    BY <2>1, StepsFacts
  <2> HIDE DEF f, n, T
  <2> QED BY <2>1, <2>2, ApplyOneTyped
<1>4. \A k \in Nat : k \in T
  <2>1. T \in SUBSET Nat
    OBVIOUS
  <2> HIDE DEF T
  <2> QED BY <1>2, <1>3, <2>1, FromZero
<1>5. \A k \in 0..n : f[k] \in Document \cup {Refused}
  BY <1>1, <1>4
<1>6. n \in 0..n /\ ApplyPatch(d, q) = f[n]
  BY <1>1, StepsFacts
<1> QED BY <1>5, <1>6

\* Of two changes at one place the later remains.
LEMMA ExceptTwice ==
  \A s, i, v, w : [[s EXCEPT ![i] = v] EXCEPT ![i] = w] = [s EXCEPT ![i] = w]
OBVIOUS

\* Changes at two places may be made in either order.
LEMMA ExceptElsewhere ==
  \A s, i, j, v, w : i # j => [[s EXCEPT ![i] = v] EXCEPT ![j] = w] = [[s EXCEPT ![j] = w] EXCEPT ![i] = v]
OBVIOUS

\* A later replacement of the same field overwrites.
LEMMA ReplacedAgain ==
  ASSUME NEW a \in Replacement, NEW b \in Replacement, a.path = b.path, NEW d \in Document,
         ApplyOne(d, a) # Refused
  PROVE  /\ ApplyOne(d, b) # Refused
         /\ ApplyOne(ApplyOne(d, a), b) = ApplyOne(d, b)
<1> DEFINE l == a.path[1]
           p == d[l]
           q == Turned(p, a)
           e == [d EXCEPT ![l] = q]
<1>1. /\ l \in {"content", "events", "sections"} /\ Reached(p, a) /\ ApplyOne(d, a) = e /\ e \in Document
      /\ Reached(p, b) /\ ApplyOne(d, b) = [d EXCEPT ![l] = Turned(p, b)]
      /\ [d EXCEPT ![l] = Turned(p, b)] \in Document
  BY ReplacementTurns DEF Reached
<1>2. e[l] = q
  BY <1>1 DEF Document
<1>3. Reached(q, b) /\ Turned(q, b) = Turned(p, b)
  <2> HIDE DEF p
  <2>1. CASE l = "content"
    BY <1>1, <2>1 DEF Reached, Turned
  <2>2. CASE l # "content"
    BY <1>1, <2>2 DEF Reached, Turned
  <2> QED BY <2>1, <2>2
<1>4. ApplyOne(e, b) = [e EXCEPT ![l] = Turned(q, b)]
  <2> HIDE DEF e, p, q
  <2> QED BY <1>1, <1>2, <1>3, ReplacementTurns
<1>5. [e EXCEPT ![l] = Turned(p, b)] = [d EXCEPT ![l] = Turned(p, b)]
  <2> HIDE DEF p, q, l
  <2> QED BY ExceptTwice
<1>6. [d EXCEPT ![l] = Turned(p, b)] # Refused
  BY <1>1, NullAssumption
<1> QED BY <1>1, <1>3, <1>4, <1>5, <1>6

\* Replacements of different fields do not disturb one another.
LEMMA ReplacedElsewhere ==
  ASSUME NEW a \in Replacement, NEW b \in Replacement, NEW d \in Document,
         ApplyOne(d, b) # Refused
  PROVE  /\ ApplyOne(ApplyOne(d, b), a) # Refused <=> ApplyOne(d, a) # Refused
         /\ a.path # b.path /\ ApplyOne(d, a) # Refused =>
              ApplyOne(ApplyOne(d, a), b) = ApplyOne(ApplyOne(d, b), a)
<1> DEFINE l == a.path[1]
           m == b.path[1]
           da == [d EXCEPT ![l] = Turned(d[l], a)]
           db == [d EXCEPT ![m] = Turned(d[m], b)]
<1>1. /\ l \in {"content", "events", "sections"} /\ m \in {"content", "events", "sections"}
      /\ Reached(d[m], b) /\ ApplyOne(d, b) = db /\ db \in Document
      /\ ApplyOne(d, a) = IF Reached(d[l], a) THEN da ELSE Refused
      /\ Reached(d[l], a) => da \in Document
  BY ReplacementTurns
<1>2. /\ ApplyOne(db, a) = IF Reached(db[l], a) THEN [db EXCEPT ![l] = Turned(db[l], a)] ELSE Refused
      /\ Reached(db[l], a) => [db EXCEPT ![l] = Turned(db[l], a)] \in Document
  BY <1>1, ReplacementTurns
<1>3. db[m] = Turned(d[m], b) /\ (l # m => db[l] = d[l])
      /\ da[l] = Turned(d[l], a) /\ (l # m => da[m] = d[m])
  BY <1>1 DEF Document
<1>4. DOMAIN Turned(d[m], b) = DOMAIN d[m] /\ DOMAIN Turned(d[l], a) = DOMAIN d[l]
  BY DEF Turned
<1>5. Reached(db[l], a) <=> Reached(d[l], a)
  BY <1>3, <1>4 DEF Reached
<1>6. ASSUME a.path # b.path, Reached(d[l], a)
      PROVE  ApplyOne(da, b) = ApplyOne(db, a)
  <2>1. ApplyOne(da, b) = [da EXCEPT ![m] = Turned(da[m], b)]
    <3>1. Reached(da[m], b)
      BY <1>1, <1>3, <1>4 DEF Reached
    <3> QED BY <1>1, <1>6, <3>1, ReplacementTurns
  <2>2. ApplyOne(db, a) = [db EXCEPT ![l] = Turned(db[l], a)]
    BY <1>2, <1>5, <1>6
  <2>3. CASE l # m
    <3> HIDE DEF l, m
    <3> QED BY <1>3, <2>1, <2>2, <2>3, ExceptElsewhere
  <2>4. CASE l = m
    <3> DEFINE p == d[l]
    <3>1. ApplyOne(da, b) = [d EXCEPT ![l] = Turned(Turned(p, a), b)]
      <4> HIDE DEF l, m
      <4> QED BY <1>3, <2>1, <2>4, ExceptTwice
    <3>2. ApplyOne(db, a) = [d EXCEPT ![l] = Turned(Turned(p, b), a)]
      <4> HIDE DEF l, m
      <4> QED BY <1>3, <2>2, <2>4, ExceptTwice
    <3>3. Turned(Turned(p, a), b) = Turned(Turned(p, b), a)
      <4>0. a.path[2] \in DOMAIN p
        BY <1>6 DEF Reached
      <4> HIDE DEF p
      <4>1. /\ a.path = IF l = "content" THEN <<l, a.path[2]>> ELSE <<l, a.path[2], a.path[3]>>
            /\ b.path = IF m = "content" THEN <<m, b.path[2]>> ELSE <<m, b.path[2], b.path[3]>>
        BY ReplacementTurns
      <4>2. a.path[2] # b.path[2] \/ (l # "content" /\ a.path[3] # b.path[3])
        <5> HIDE DEF l, m
        <5> QED BY <1>6, <2>4, <4>1
      <4>3. CASE l = "content"
        <5> DEFINE i == a.path[2]
                   j == b.path[2]
        <5>1. /\ Turned(Turned(p, a), b) = [[p EXCEPT ![i] = a.value] EXCEPT ![j] = b.value]
              /\ Turned(Turned(p, b), a) = [[p EXCEPT ![j] = b.value] EXCEPT ![i] = a.value]
          BY <2>4, <4>3 DEF Turned
        <5>2. i # j
          BY <4>2, <4>3
        <5> HIDE DEF i, j
        <5> QED BY <5>1, <5>2, ExceptElsewhere
      <4>4. CASE l # "content" /\ a.path[2] # b.path[2]
        BY <2>4, <4>4, ExceptElsewhere DEF Turned
      <4>5. CASE l # "content" /\ a.path[2] = b.path[2] /\ a.path[3] # b.path[3]
        <5> DEFINE i == a.path[2]
                   x == [p[i] EXCEPT ![a.path[3]] = a.value]
                   y == [p[i] EXCEPT ![b.path[3]] = b.value]
        <5>1. Turned(p, a) = [p EXCEPT ![i] = x] /\ Turned(p, b) = [p EXCEPT ![i] = y]
          BY <2>4, <4>5 DEF Turned
        <5>2. [p EXCEPT ![i] = x][i] = x /\ [p EXCEPT ![i] = y][i] = y
          <6> HIDE DEF x, y, i
          <6> QED BY <4>0 DEF i
        <5>3. Turned([p EXCEPT ![i] = x], b) = [p EXCEPT ![i] = [x EXCEPT ![b.path[3]] = b.value]]
          <6> HIDE DEF x
          <6> QED BY <2>4, <4>5, <5>2, ExceptTwice DEF Turned
        <5>4. Turned([p EXCEPT ![i] = y], a) = [p EXCEPT ![i] = [y EXCEPT ![a.path[3]] = a.value]]
          <6> HIDE DEF y
          <6> QED BY <2>4, <4>5, <5>2, ExceptTwice DEF Turned
        <5>5. [x EXCEPT ![b.path[3]] = b.value] = [y EXCEPT ![a.path[3]] = a.value]
          <6> HIDE DEF i
          <6> QED BY <4>5, ExceptElsewhere DEF x, y
        <5> HIDE DEF x, y
        <5> QED BY <5>1, <5>3, <5>4, <5>5
      <4> QED BY <4>2, <4>3, <4>4, <4>5
    <3> QED BY <3>1, <3>2, <3>3
  <2> QED BY <2>3, <2>4
<1>7. \A x \in Document : x # Refused
  BY NullAssumption
<1>8. ApplyOne(db, a) # Refused <=> Reached(d[l], a)
  BY <1>2, <1>5, <1>7
<1>9. ApplyOne(d, a) # Refused <=> Reached(d[l], a)
  BY <1>1, <1>7
<1>10. Reached(d[l], a) => ApplyOne(d, a) = da
  BY <1>1
<1> HIDE DEF da, db, l, m
<1> QED BY <1>1, <1>6, <1>8, <1>9, <1>10

\* One operation more.
LEMMA ApplyAppend ==
  ASSUME NEW d, NEW S, NEW q \in Seq(S), NEW op \in S
  PROVE  ApplyPatch(d, Append(q, op)) =
           IF ApplyPatch(d, q) = Refused THEN Refused ELSE ApplyOne(ApplyPatch(d, q), op)
<1> DEFINE n == Len(q)
           r == Append(q, op)
           f == Steps(d, r)
<1>1. /\ n \in Nat /\ r \in Seq(S) /\ Len(r) = n + 1 /\ r[n + 1] = op
      /\ n <= Len(q) /\ n <= Len(r) /\ \A k \in 1..n : q[k] = r[k]
  OBVIOUS
<1> HIDE DEF r
<1>2. Steps(d, q)[n] = f[n]
  BY <1>1, StepsAgree
<1>3. ApplyPatch(d, q) = Steps(d, q)[n]
  BY StepsFacts
<1>4. ApplyPatch(d, r) = f[Len(r)]
  BY <1>1, StepsFacts
<1>5. n + 1 \in 1..Len(r) /\ (n + 1) - 1 = n
  BY <1>1
<1>6. f[n + 1] = IF f[n] = Refused THEN Refused ELSE ApplyOne(f[n], r[n + 1])
  BY <1>1, <1>5, StepsFacts
<1> HIDE DEF n, f
<1> QED BY <1>1, <1>2, <1>3, <1>4, <1>6 DEF r

\* Once refused, refused.
LEMMA RefusedOnwards ==
  ASSUME NEW d, NEW S, NEW q \in Seq(S), NEW m \in 0..Len(q), Steps(d, q)[m] = Refused
  PROVE  \A k \in m..Len(q) : Steps(d, q)[k] = Refused
<1> DEFINE n == Len(q)
           f == Steps(d, q)
           T == {k \in Nat : m <= k /\ k <= n => f[k] = Refused}
<1>1. n \in Nat /\ m \in Nat
  OBVIOUS
<1>2. 0 \in T
  BY <1>1
<1>3. ASSUME NEW k \in T PROVE k + 1 \in T
  <2> SUFFICES ASSUME m <= k + 1, k + 1 <= n PROVE f[k + 1] = Refused
    OBVIOUS
  <2>1. CASE m = k + 1
    BY <2>1
  <2>2. CASE m # k + 1
    <3>1. f[k] = Refused /\ k + 1 \in 1..n /\ (k + 1) - 1 = k
      BY <1>1, <2>2
    <3>2. f[k + 1] = IF f[k] = Refused THEN Refused ELSE ApplyOne(f[k], q[k + 1])
      BY <3>1, StepsFacts
    <3> QED BY <3>1, <3>2
  <2> QED BY <2>1, <2>2
<1>4. \A k \in Nat : k \in T
  <2>1. T \in SUBSET Nat
    OBVIOUS
  <2> HIDE DEF T
  <2> QED BY <1>2, <1>3, <2>1, FromZero
<1> QED BY <1>1, <1>4

\* No two replacements of a field without an edit of a list between them.
Distinct(q) ==
  \A i, k \in DOMAIN q :
    i < k /\ (\A j \in i..k : q[j].op = "replace") => q[i].path # q[k].path

\* A replacement may be put in an earlier place, when only others come after it.
LEMMA ReplacedInPlace ==
  ASSUME NEW d \in Document, NEW q \in Seq(Operation), NEW op \in Replacement, NEW i \in 1..Len(q),
         q[i].op = "replace", q[i].path = op.path,
         \A j \in (i + 1)..Len(q) : q[j].op = "replace" /\ q[j].path # op.path,
         ApplyPatch(d, q) # Refused, ApplyOne(ApplyPatch(d, q), op) # Refused
  PROVE  ApplyPatch(d, [q EXCEPT ![i] = op]) = ApplyOne(ApplyPatch(d, q), op)
<1> DEFINE n == Len(q)
           r == [q EXCEPT ![i] = op]
           f == Steps(d, q)
           g == Steps(d, r)
           T == {k \in Nat : i <= k /\ k <= n => g[k] = ApplyOne(f[k], op)}
<1>1. n \in Nat /\ i \in Nat /\ 1 <= i /\ i <= n /\ op \in Operation
  BY OperationsInclude
<1>2. r \in Seq(Operation) /\ Len(r) = n /\ r[i] = op /\ \A k \in 1..n : k # i => r[k] = q[k]
  BY <1>1
<1> HIDE DEF r
<1>3. ASSUME NEW k \in 0..n PROVE f[k] \in Document
  <2>1. f[n] # Refused
    BY StepsFacts
  <2>2. f[k] # Refused
    BY <1>1, <2>1, RefusedOnwards
  <2> QED BY <2>2, StepsTyped
<1>4. ASSUME NEW k \in 1..n PROVE f[k] = ApplyOne(f[k - 1], q[k]) /\ f[k] # Refused
  <2>1. k - 1 \in 0..n /\ k \in 0..n
    BY <1>1
  <2>2. f[k] = IF f[k - 1] = Refused THEN Refused ELSE ApplyOne(f[k - 1], q[k])
    BY StepsFacts
  <2>3. f[k - 1] # Refused /\ f[k] # Refused
    BY <1>3, <2>1, NullAssumption
  <2> QED BY <2>2, <2>3
<1>5. ASSUME NEW k \in i..n, NEW j \in i..n PROVE ApplyOne(f[k], op) # Refused <=> ApplyOne(f[j], op) # Refused
  <2> DEFINE U == {k1 \in Nat : i <= k1 /\ k1 <= n => (ApplyOne(f[k1], op) # Refused <=> ApplyOne(f[i], op) # Refused)}
  <2>1. 0 \in U
    BY <1>1
  <2>2. ASSUME NEW k1 \in U PROVE k1 + 1 \in U
    <3> SUFFICES ASSUME i <= k1 + 1, k1 + 1 <= n
                 PROVE  ApplyOne(f[k1 + 1], op) # Refused <=> ApplyOne(f[i], op) # Refused
      OBVIOUS
    <3>1. CASE i = k1 + 1
      BY <3>1
    <3>2. CASE i # k1 + 1
      <4>1. /\ k1 + 1 \in 1..n /\ (k1 + 1) - 1 = k1 /\ k1 \in 0..n /\ k1 + 1 \in (i + 1)..n
            /\ q[k1 + 1] \in Operation
        BY <1>1, <3>2
      <4>2. f[k1] \in Document /\ f[k1 + 1] = ApplyOne(f[k1], q[k1 + 1]) /\ f[k1 + 1] # Refused
        BY <1>3, <1>4, <4>1
      <4>3. q[k1 + 1] \in Replacement
        BY <4>1, OperationsInclude
      <4>4. ApplyOne(f[k1 + 1], op) # Refused <=> ApplyOne(f[k1], op) # Refused
        <5> HIDE DEF f
        <5> QED BY <4>2, <4>3, ReplacedElsewhere
      <4>5. ApplyOne(f[k1], op) # Refused <=> ApplyOne(f[i], op) # Refused
        BY <1>1, <3>2
      <4> QED BY <4>4, <4>5
    <3> QED BY <3>1, <3>2
  <2>3. \A k1 \in Nat : k1 \in U
    <3>1. U \in SUBSET Nat
      OBVIOUS
    <3> HIDE DEF U
    <3> QED BY <2>1, <2>2, <3>1, FromZero
  <2> QED BY <1>1, <2>3
<1>6. ASSUME NEW k \in i..n PROVE ApplyOne(f[k], op) # Refused
  <2>1. ApplyOne(f[n], op) # Refused
    BY StepsFacts
  <2>2. n \in i..n
    BY <1>1
  <2> QED BY <1>5, <2>1, <2>2
<1>7. i - 1 \in Nat /\ i - 1 \in 0..n /\ i - 1 <= Len(q) /\ i - 1 <= Len(r) /\ \A k \in 1..(i - 1) : q[k] = r[k]
  BY <1>1, <1>2
<1>8. g[i - 1] = f[i - 1]
  <2> DEFINE m == i - 1
  <2>1. m \in Nat /\ m <= Len(q) /\ m <= Len(r) /\ r \in Seq(Operation) /\ \A k \in 1..m : q[k] = r[k]
    BY <1>2, <1>7
  <2> HIDE DEF m
  <2>2. Steps(d, q)[m] = Steps(d, r)[m]
    BY <2>1, StepsAgree
  <2> QED BY <2>2 DEF m
<1>9. g[i] = ApplyOne(f[i - 1], op)
  <2>1. g[i] = IF g[i - 1] = Refused THEN Refused ELSE ApplyOne(g[i - 1], r[i])
    BY <1>2, StepsFacts
  <2>2. f[i - 1] # Refused
    BY <1>3, <1>7, NullAssumption
  <2> QED BY <1>2, <1>8, <2>1, <2>2
<1>10. g[i] = ApplyOne(f[i], op)
  <2>1. q[i] \in Replacement /\ f[i - 1] \in Document /\ f[i] = ApplyOne(f[i - 1], q[i]) /\ f[i] # Refused
    <3>1. q[i] \in Operation
      OBVIOUS
    <3> QED BY <1>1, <1>3, <1>4, <1>7, <3>1, OperationsInclude
  <2>2. ApplyOne(f[i], op) = ApplyOne(f[i - 1], op)
    <3> HIDE DEF f
    <3> QED BY <2>1, ReplacedAgain
  <2> QED BY <1>9, <2>2
<1>11. 0 \in T
  BY <1>1
<1>12. ASSUME NEW k \in T PROVE k + 1 \in T
  <2> SUFFICES ASSUME i <= k + 1, k + 1 <= n PROVE g[k + 1] = ApplyOne(f[k + 1], op)
    OBVIOUS
  <2>1. CASE i = k + 1
    BY <1>10, <2>1
  <2>2. CASE i # k + 1
    <3>1. /\ k + 1 \in 1..n /\ (k + 1) - 1 = k /\ k \in 0..n /\ k + 1 \in (i + 1)..n /\ k \in i..n
          /\ q[k + 1] \in Operation /\ k + 1 # i
      BY <1>1, <2>2
    <3>2. f[k] \in Document /\ f[k + 1] = ApplyOne(f[k], q[k + 1]) /\ f[k + 1] # Refused
      BY <1>3, <1>4, <3>1
    <3>3. q[k + 1] \in Replacement /\ q[k + 1].path # op.path
      BY <3>1, OperationsInclude
    <3>4. g[k] = ApplyOne(f[k], op) /\ ApplyOne(f[k], op) # Refused
      BY <1>1, <1>6, <3>1
    <3>5. g[k + 1] = ApplyOne(g[k], q[k + 1])
      <4>1. g[k + 1] = IF g[k] = Refused THEN Refused ELSE ApplyOne(g[k], r[k + 1])
        BY <1>2, <3>1, StepsFacts
      <4> QED BY <1>2, <3>1, <3>4, <4>1
    <3>6. ApplyOne(ApplyOne(f[k], op), q[k + 1]) = ApplyOne(ApplyOne(f[k], q[k + 1]), op)
      <4> HIDE DEF f
      <4> QED BY <3>2, <3>3, <3>4, ReplacedElsewhere
    <3> QED BY <3>2, <3>4, <3>5, <3>6
  <2> QED BY <2>1, <2>2
<1>13. \A k \in Nat : k \in T
  <2>1. T \in SUBSET Nat
    OBVIOUS
  <2> HIDE DEF T
  <2> QED BY <1>11, <1>12, <2>1, FromZero
<1>14. g[n] = ApplyOne(f[n], op)
  BY <1>1, <1>13
<1>15. ApplyPatch(d, q) = f[n] /\ ApplyPatch(d, r) = g[n]
  BY <1>2, StepsFacts
<1> QED BY <1>14, <1>15 DEF r

(* ------------------------------ coalescing ----------------------------- *)

\* Coalescing one operation into a queue: what the queue does, with that operation after it.
LEMMA CoalescedFacts ==
  ASSUME NEW q \in Seq(Operation), Distinct(q), NEW op \in Operation
  PROVE  /\ Coalesced(q, op) \in Seq(Operation) /\ Distinct(Coalesced(q, op))
         /\ \A d \in Document :
              ApplyPatch(d, q) # Refused /\ ApplyOne(ApplyPatch(d, q), op) # Refused =>
                ApplyPatch(d, Coalesced(q, op)) = ApplyOne(ApplyPatch(d, q), op)
<1> DEFINE n == Len(q)
           same == {i \in DOMAIN q :
                      /\ q[i].op = "replace" /\ q[i].path = op.path
                      /\ \A j \in (i + 1)..Len(q) : q[j].op = "replace"}
           Fine(c) == /\ c \in Seq(Operation) /\ Distinct(c)
                      /\ \A d \in Document :
                           ApplyPatch(d, q) # Refused /\ ApplyOne(ApplyPatch(d, q), op) # Refused =>
                             ApplyPatch(d, c) = ApplyOne(ApplyPatch(d, q), op)
<1>1. n \in Nat /\ DOMAIN q = 1..n
  OBVIOUS
<1>2. CASE op.op = "replace" /\ same # {}
  <2> DEFINE i == CHOOSE i \in same : TRUE
             c == [q EXCEPT ![i] = op]
  <2>1. i \in same
    BY <1>2
  <2>2. /\ i \in 1..n /\ i \in Nat /\ q[i].op = "replace" /\ q[i].path = op.path
        /\ \A j \in (i + 1)..n : q[j].op = "replace"
    BY <1>1, <2>1
  <2>3. Coalesced(q, op) = c
    BY <1>2 DEF Coalesced
  <2> HIDE DEF i, same
  <2>4. /\ c \in Seq(Operation) /\ Len(c) = n /\ DOMAIN c = 1..n
        /\ \A k \in 1..n : c[k] = IF k = i THEN op ELSE q[k]
    BY <1>1, <2>2
  <2>5. Distinct(c)
    <3> HIDE DEF c
    <3>1. \A k \in 1..n : c[k].op = q[k].op /\ c[k].path = q[k].path
      BY <1>2, <2>2, <2>4
    <3> SUFFICES ASSUME NEW j \in DOMAIN c, NEW k \in DOMAIN c, j < k,
                        \A m \in j..k : c[m].op = "replace"
                 PROVE  c[j].path # c[k].path
      BY DEF Distinct
    <3>2. j \in DOMAIN q /\ k \in DOMAIN q /\ \A m \in j..k : m \in 1..n
      BY <1>1, <2>4
    <3>3. \A m \in j..k : q[m].op = "replace"
      BY <3>1, <3>2
    <3>4. q[j].path # q[k].path
      BY <3>2, <3>3 DEF Distinct
    <3> QED BY <1>1, <3>1, <3>2, <3>4
  <2>6. \A j \in (i + 1)..n : q[j].op = "replace" /\ q[j].path # op.path
    <3> SUFFICES ASSUME NEW j \in (i + 1)..n PROVE q[j].path # op.path
      BY <2>2
    <3>1. j \in DOMAIN q /\ i \in DOMAIN q /\ i < j
      BY <1>1, <2>2
    <3>2. \A m \in i..j : m = i \/ m \in (i + 1)..n
      BY <1>1, <2>2
    <3>3. \A m \in i..j : q[m].op = "replace"
      BY <2>2, <3>2
    <3>4. q[i].path # q[j].path
      BY <3>1, <3>3 DEF Distinct
    <3> QED BY <2>2, <3>4
  <2>7. op \in Replacement
    BY <1>2, OperationsInclude
  <2>8. ASSUME NEW d \in Document, ApplyPatch(d, q) # Refused, ApplyOne(ApplyPatch(d, q), op) # Refused
        PROVE  ApplyPatch(d, c) = ApplyOne(ApplyPatch(d, q), op)
    BY <2>2, <2>6, <2>7, <2>8, ReplacedInPlace
  <2> QED BY <2>3, <2>4, <2>5, <2>8
<1>3. CASE ~ (op.op = "replace" /\ same # {})
  <2> DEFINE c == Append(q, op)
  <2>1. Coalesced(q, op) = c
    BY <1>3 DEF Coalesced
  <2>2. /\ c \in Seq(Operation) /\ Len(c) = n + 1 /\ DOMAIN c = 1..(n + 1) /\ c[n + 1] = op
        /\ \A k \in 1..n : c[k] = q[k]
    OBVIOUS
  <2>3. Distinct(c)
    <3> HIDE DEF c
    <3> SUFFICES ASSUME NEW j \in DOMAIN c, NEW k \in DOMAIN c, j < k,
                        \A m \in j..k : c[m].op = "replace"
                 PROVE  c[j].path # c[k].path
      BY DEF Distinct
    <3>1. j \in 1..n /\ j \in DOMAIN q
      BY <1>1, <2>2
    <3>2. CASE k \in 1..n
      <4>1. \A m \in j..k : m \in 1..n
        BY <1>1, <3>1, <3>2
      <4>2. \A m \in j..k : q[m].op = "replace"
        BY <2>2, <4>1
      <4>3. q[j].path # q[k].path
        BY <1>1, <3>1, <3>2, <4>2 DEF Distinct
      <4> QED BY <2>2, <3>1, <3>2, <4>3
    <3>3. CASE k = n + 1
      <4>1. c[k] = op /\ c[j] = q[j] /\ op.op = "replace"
        <5>1. k \in j..k
          BY <1>1, <3>1, <3>3
        <5> QED BY <2>2, <3>1, <3>3, <5>1
      <4>2. \A m \in j..n : m \in j..k /\ m \in 1..n
        BY <1>1, <3>1, <3>3
      <4>3. \A m \in j..n : q[m].op = "replace"
        BY <2>2, <4>2
      <4>4. j \in j..n /\ \A m \in (j + 1)..n : m \in j..n
        BY <1>1, <3>1
      <4>5. q[j].path # op.path
        BY <1>3, <3>1, <4>1, <4>3, <4>4
      <4> QED BY <4>1, <4>5
    <3> QED BY <1>1, <2>2, <3>2, <3>3
  <2>4. ASSUME NEW d \in Document, ApplyPatch(d, q) # Refused
        PROVE  ApplyPatch(d, c) = ApplyOne(ApplyPatch(d, q), op)
    BY <2>4, ApplyAppend
  <2> QED BY <2>1, <2>2, <2>3, <2>4
<1> QED BY <1>2, <1>3

\* f is the function of which coalesce takes the last value.
Coalescing(q, n, f) == f = [k \in 0..n |-> IF k = 0 THEN <<>> ELSE Coalesced(f[k - 1], q[k])]

\* Coalescing comes to an end.
LEMMA CoalescingExists == \A q : \A n \in Nat : \E f : Coalescing(q, n, f)
<1> SUFFICES ASSUME NEW q PROVE \A n \in Nat : \E f : Coalescing(q, n, f)
  OBVIOUS
<1> DEFINE T == {n \in Nat : \E f : Coalescing(q, n, f)}
<1>1. 0 \in T
  <2> DEFINE f == [k \in 0..0 |-> <<>>]
  <2>1. Coalescing(q, 0, f)
    BY DEF Coalescing
  <2> QED BY <2>1
<1>2. ASSUME NEW n \in T PROVE n + 1 \in T
  <2>1. PICK f : Coalescing(q, n, f)
    OBVIOUS
  <2> DEFINE last == Coalesced(f[n], q[n + 1])
             g == [k \in 0..(n + 1) |-> IF k = n + 1 THEN last ELSE f[k]]
  <2>2. \A k \in 0..(n + 1) : g[k] = IF k = 0 THEN <<>> ELSE Coalesced(g[k - 1], q[k])
    <3> TAKE k \in 0..(n + 1)
    <3>1. CASE k = n + 1
      BY <3>1
    <3>2. CASE k # n + 1
      <4>1. k \in 0..n /\ (k # 0 => k - 1 \in 0..n)
        BY <3>2
      <4>2. f[k] = IF k = 0 THEN <<>> ELSE Coalesced(f[k - 1], q[k])
        BY <2>1, <4>1 DEF Coalescing
      <4> QED BY <4>1, <4>2
    <3> QED BY <3>1, <3>2
  <2>3. Coalescing(q, n + 1, g)
    BY <2>2 DEF Coalescing
  <2> QED BY <2>3
<1>3. \A n \in Nat : n \in T
  BY <1>1, <1>2, FromZero
<1> QED BY <1>3

\* Coalescing a queue changes nothing of what it does, to a document that it fits.
THEOREM CoalescingKeepsTheEdits ==
  ASSUME NEW q \in Seq(Operation)
  PROVE  /\ Coalesce(q) \in Seq(Operation)
         /\ \A d \in Document :
              ApplyPatch(d, q) # Refused => ApplyPatch(d, Coalesce(q)) = ApplyPatch(d, q)
<1> DEFINE n == Len(q)
           f == CHOOSE f : Coalescing(q, n, f)
           Fine(k) == /\ f[k] \in Seq(Operation) /\ Distinct(f[k])
                      /\ \A d \in Document :
                           ApplyPatch(d, q) # Refused => ApplyPatch(d, f[k]) = Steps(d, q)[k]
           T == {k \in Nat : k <= n => Fine(k)}
<1>1. n \in Nat
  OBVIOUS
<1>2. Coalescing(q, n, f)
  BY <1>1, CoalescingExists
<1>3. Coalesce(q) = f[n]
  BY DEF Coalesce, Coalescing
<1> HIDE DEF f
<1>4. f[0] = <<>>
  BY <1>1, <1>2 DEF Coalescing
<1>5. ASSUME NEW k \in Nat, k + 1 <= n PROVE f[k + 1] = Coalesced(f[k], q[k + 1])
  <2>1. k + 1 \in 0..n /\ k + 1 # 0 /\ (k + 1) - 1 = k
    BY <1>1, <1>5
  <2> QED BY <1>2, <2>1 DEF Coalescing
<1>6. 0 \in T
  <2>1. <<>> \in Seq(Operation) /\ Distinct(<<>>)
    BY DEF Distinct
  <2>2. \A d \in Document : ApplyPatch(d, <<>>) = d /\ Steps(d, q)[0] = d
    BY ApplyNothing, StepsFacts
  <2> QED BY <1>4, <2>1, <2>2
<1>7. ASSUME NEW k \in T PROVE k + 1 \in T
  <2> SUFFICES ASSUME k + 1 <= n PROVE Fine(k + 1)
    OBVIOUS
  <2>1. Fine(k) /\ k + 1 \in 1..n /\ q[k + 1] \in Operation /\ (k + 1) - 1 = k /\ k + 1 \in 0..n
    BY <1>1
  <2>2. f[k + 1] = Coalesced(f[k], q[k + 1])
    BY <1>5
  <2>3. /\ f[k + 1] \in Seq(Operation) /\ Distinct(f[k + 1])
        /\ \A d \in Document :
             ApplyPatch(d, f[k]) # Refused /\ ApplyOne(ApplyPatch(d, f[k]), q[k + 1]) # Refused =>
               ApplyPatch(d, f[k + 1]) = ApplyOne(ApplyPatch(d, f[k]), q[k + 1])
    BY <2>1, <2>2, CoalescedFacts
  <2>4. ASSUME NEW d \in Document, ApplyPatch(d, q) # Refused
        PROVE  ApplyPatch(d, f[k + 1]) = Steps(d, q)[k + 1]
    <3>1. Steps(d, q)[k + 1] # Refused /\ Steps(d, q)[k] # Refused
      <4>1. Steps(d, q)[n] # Refused
        BY <2>4, StepsFacts
      <4>2. k \in 0..n /\ n \in (k + 1)..n /\ n \in k..n
        BY <1>1, <2>1
      <4> QED BY <2>1, <4>1, <4>2, RefusedOnwards
    <3>2. Steps(d, q)[k + 1] = ApplyOne(Steps(d, q)[k], q[k + 1])
      BY <2>1, <3>1, StepsFacts
    <3>3. ApplyPatch(d, f[k]) = Steps(d, q)[k]
      BY <2>1, <2>4
    <3> QED BY <2>3, <3>1, <3>2, <3>3
  <2> QED BY <2>3, <2>4
<1>8. \A k \in Nat : k \in T
  <2>1. T \in SUBSET Nat
    OBVIOUS
  <2> HIDE DEF T
  <2> QED BY <1>6, <1>7, <2>1, FromZero
<1>9. Fine(n)
  BY <1>1, <1>8
<1>10. \A d : ApplyPatch(d, q) = Steps(d, q)[n]
  BY StepsFacts
<1> QED BY <1>3, <1>9, <1>10

(* ------------------------- undoing an operation ------------------------ *)

\* Every form of operation that the controls and their inverses make.
LEMMA OperationsAre ==
  /\ \A field \in Fields : \A text \in Values(field) :
       ReplaceOp(<<"content", field>>, text) \in Replacement
  /\ \A i \in Nat \ {0}, key \in {"title", "date"}, text \in Text :
       ReplaceOp(<<"events", i, key>>, text) \in Replacement
  /\ \A i \in Nat \ {0}, on \in BOOLEAN : ReplaceOp(<<"sections", i, "enabled">>, on) \in Replacement
  /\ \A i \in Nat \ {0}, n \in Nat : ReplaceOp(<<"sections", i, "order">>, n) \in Replacement
  /\ \A event \in DraftEvent : AddOp(<<"events", End>>, event) \in UserOperation
  /\ \A photo \in Nat : AddOp(<<"gallery", End>>, photo) \in UserOperation
  /\ \A i \in Nat \ {0} : RemoveOp(<<"events", i>>) \in UserOperation
  /\ \A i \in Nat \ {0} : RemoveOp(<<"gallery", i>>) \in UserOperation
  /\ \A i \in Nat, event \in DraftEvent : AddOp(<<"events", i>>, event) \in Operation
  /\ \A i \in Nat, photo \in Nat : AddOp(<<"gallery", i>>, photo) \in Operation
<1> DEFINE A == FieldReplacement
           B == {ReplaceOp(<<"events", i, key>>, text) :
                   i \in Nat \ {0}, key \in {"title", "date"}, text \in Text}
           C == {ReplaceOp(<<"sections", i, "enabled">>, on) : i \in Nat \ {0}, on \in BOOLEAN}
           D == {ReplaceOp(<<"sections", i, "order">>, n) : i \in Nat \ {0}, n \in Nat}
<1>1. A \subseteq Replacement /\ B \subseteq Replacement /\ C \subseteq Replacement /\ D \subseteq Replacement
  <2>1. Replacement = UNION {A, B, C, D}
    BY DEF Replacement
  <2> HIDE DEF A, B, C, D
  <2> QED BY <2>1
<1>2. \A field \in Fields : \A text \in Values(field) : ReplaceOp(<<"content", field>>, text) \in A
  BY DEF FieldReplacement
<1>3. \A i \in Nat \ {0}, key \in {"title", "date"}, text \in Text :
        ReplaceOp(<<"events", i, key>>, text) \in B
  OBVIOUS
<1>4. \A i \in Nat \ {0}, on \in BOOLEAN : ReplaceOp(<<"sections", i, "enabled">>, on) \in C
  OBVIOUS
<1>5. \A i \in Nat \ {0}, n \in Nat : ReplaceOp(<<"sections", i, "order">>, n) \in D
  OBVIOUS
<1> HIDE DEF A, B, C, D
<1>6. /\ \A event \in DraftEvent : AddOp(<<"events", End>>, event) \in UserOperation
      /\ \A photo \in Nat : AddOp(<<"gallery", End>>, photo) \in UserOperation
      /\ \A i \in Nat \ {0} : RemoveOp(<<"events", i>>) \in UserOperation
      /\ \A i \in Nat \ {0} : RemoveOp(<<"gallery", i>>) \in UserOperation
  BY DEF UserOperation
<1>7. /\ \A i \in Nat, event \in DraftEvent : AddOp(<<"events", i>>, event) \in Operation
      /\ \A i \in Nat, photo \in Nat : AddOp(<<"gallery", i>>, photo) \in Operation
  <2> DEFINE E == {AddOp(<<"events", i>>, event) : i \in Nat, event \in DraftEvent}
             G == {AddOp(<<"gallery", i>>, photo) : i \in Nat, photo \in Nat}
  <2>1. E \subseteq Operation /\ G \subseteq Operation
    <3>1. Operation = UNION {UserOperation, E, G}
      BY DEF Operation
    <3> HIDE DEF E, G
    <3> QED BY <3>1
  <2>2. /\ \A i \in Nat, event \in DraftEvent : AddOp(<<"events", i>>, event) \in E
        /\ \A i \in Nat, photo \in Nat : AddOp(<<"gallery", i>>, photo) \in G
    OBVIOUS
  <2> HIDE DEF E, G
  <2> QED BY <2>1, <2>2
<1> QED BY <1>1, <1>2, <1>3, <1>4, <1>5, <1>6, <1>7

\* A pair, one after the other.
LEMMA AppendToOne == \A a, b : Append(<<a>>, b) = <<a, b>>
<1> SUFFICES ASSUME NEW a, NEW b PROVE Append(<<a>>, b) = <<a, b>>
  OBVIOUS
<1> DEFINE S == {a, b}
           s == <<a>>
           t == <<a, b>>
           u == Append(s, b)
<1>1. s \in Seq(S) /\ Len(s) = 1 /\ s[1] = a /\ b \in S
  OBVIOUS
<1>2. t \in Seq(S) /\ Len(t) = 2 /\ t[1] = a /\ t[2] = b
  OBVIOUS
<1>3. u \in Seq(S) /\ Len(u) = 2 /\ u[1] = a /\ u[2] = b
  <2> HIDE DEF s, S
  <2>1. u \in Seq(S) /\ Len(u) = Len(s) + 1 /\ u[Len(s) + 1] = b /\ u[1] = s[1]
    BY <1>1
  <2>2. Len(s) + 1 = 2
    BY <1>1
  <2> HIDE DEF u
  <2> QED BY <1>1, <2>1, <2>2
<1>4. u = t
  <2> HIDE DEF s, t, u, S
  <2>1. \A i \in 1..Len(u) : u[i] = t[i]
    BY <1>2, <1>3
  <2> QED BY <1>2, <1>3, <2>1, SeqEqual
<1> QED BY <1>4

\* Setting what is there changes nothing.
LEMMA SetAgain ==
  ASSUME NEW S, NEW s \in Seq(S), NEW i \in 1..Len(s)
  PROVE  [s EXCEPT ![i] = s[i]] = s
<1>1. s[i] \in S
  OBVIOUS
<1>2. /\ [s EXCEPT ![i] = s[i]] \in Seq(S) /\ Len([s EXCEPT ![i] = s[i]]) = Len(s)
      /\ \A j \in 1..Len(s) : [s EXCEPT ![i] = s[i]][j] = s[j]
  BY <1>1, ExceptSeq
<1> QED BY <1>2, SeqEqual

\* A part that is put back gives the document back.
LEMMA PutBack ==
  ASSUME NEW d \in Document
  PROVE  /\ [d EXCEPT !.content = d.content] = d /\ [d EXCEPT !.events = d.events] = d
         /\ [d EXCEPT !.sections = d.sections] = d
         /\ \A v : [[d EXCEPT !.events = v] EXCEPT !.events = d.events] = d /\ [d EXCEPT !.events = v].events = v
         /\ \A v : [[d EXCEPT !.gallery = v] EXCEPT !.gallery = d.gallery] = d /\ [d EXCEPT !.gallery = v].gallery = v
BY DEF Document

\* A replacement, and one by what was there before.
LEMMA ReplacementUndone ==
  ASSUME NEW d \in Document, NEW op \in Replacement, NEW inv \in Replacement, inv.path = op.path,
         ApplyOne(d, op) # Refused, ApplyOne(d, inv) = d
  PROVE  ApplyOne(ApplyOne(d, op), inv) = d
BY ReplacedAgain

\* An operation of the user, and its inverse after it, give the document back.
LEMMA InverseOpFacts ==
  ASSUME NEW d \in Document, NEW op \in UserOperation, ApplyOne(d, op) # Refused
  PROVE  /\ InverseOp(d, op) \in Operation
         /\ ApplyOne(ApplyOne(d, op), InverseOp(d, op)) = d
<1> DEFINE e == ApplyOne(d, op)
           inv == InverseOp(d, op)
           Goal == inv \in Operation /\ ApplyOne(e, inv) = d
<1>1. ASSUME NEW field \in Fields, NEW text \in Values(field),
             op = ReplaceOp(<<"content", field>>, text)
      PROVE  Goal
  <2> DEFINE path == <<"content", field>>
             old == d.content[field]
             back == ReplaceOp(path, old)
  <2>1. op.op = "replace" /\ op.path = path /\ back.path = path
    BY <1>1 DEF ReplaceOp
  <2>2. inv = back
    <3>1. inv = ReplaceOp(op.path, ReadPointer(d, op.path))
      BY <2>1 DEF InverseOp
    <3> QED BY <3>1, <2>1, ContentRead
  <2>3. d.content \in DraftContent /\ old \in Values(field)
    BY Parts DEF DraftContent
  <2>4. ApplyOne(d, back) = [d EXCEPT !.content = [d.content EXCEPT ![field] = old]]
    <3> HIDE DEF old
    <3> QED BY <2>3, ContentReplaced
  <2>5. [d.content EXCEPT ![field] = old] = d.content
    BY <2>3 DEF DraftContent
  <2>6. op \in Replacement /\ back \in Replacement
    <3> HIDE DEF old
    <3> QED BY <1>1, <2>3, OperationsAre
  <2>7. ApplyOne(d, back) = d
    <3> HIDE DEF back, old
    <3> QED BY <2>4, <2>5, PutBack
  <2> HIDE DEF back, old, path
  <2> QED BY <2>1, <2>2, <2>6, <2>7, ReplacementUndone, OperationsInclude
<1>2. ASSUME NEW i \in Nat \ {0}, NEW key \in {"title", "date"}, NEW text \in Text,
             op = ReplaceOp(<<"events", i, key>>, text)
      PROVE  Goal
  <2> DEFINE path == <<"events", i, key>>
             list == d.events
             old == list[i][key]
             back == ReplaceOp(path, old)
  <2>1. op.op = "replace" /\ op.path = path /\ back.path = path
    BY <1>2 DEF ReplaceOp
  <2>2. i \in 1..Len(list)
    <3>1. ApplyOne(d, op) = IF i \in 1..Len(d.events) THEN [d EXCEPT !.events[i][key] = text] ELSE Refused
      BY <1>2, EventReplaced
    <3> QED BY <3>1
  <2>3. ReadPointer(d, path) = old
    BY <1>2, <2>2, EventReplaced
  <2>4. inv = back
    <3>1. inv = ReplaceOp(op.path, ReadPointer(d, op.path))
      BY <2>1 DEF InverseOp
    <3> QED BY <3>1, <2>1, <2>3
  <2>5. list \in Seq(DraftEvent) /\ list[i] \in DraftEvent
    <3>1. list \in Seq(DraftEvent)
      BY Parts
    <3> HIDE DEF list
    <3> QED BY <2>2, <3>1
  <2>6. old \in Text
    <3> HIDE DEF list
    <3> QED BY <1>2, <2>5 DEF DraftEvent
  <2>7. ApplyOne(d, back) = [d EXCEPT !.events[i][key] = old]
    <3> HIDE DEF old
    <3> QED BY <2>2, <2>6, EventReplaced
  <2>8. [d EXCEPT !.events[i][key] = old] = [d EXCEPT !.events = [list EXCEPT ![i] = [list[i] EXCEPT ![key] = old]]]
    OBVIOUS
  <2>9. [list[i] EXCEPT ![key] = old] = list[i]
    <3> HIDE DEF list
    <3> QED BY <2>5 DEF DraftEvent
  <2>10. [list EXCEPT ![i] = list[i]] = list
    <3> HIDE DEF list
    <3> QED BY <2>2, <2>5, SetAgain
  <2>11. op \in Replacement /\ back \in Replacement
    <3> HIDE DEF old
    <3> QED BY <1>2, <2>6, OperationsAre
  <2>12. ApplyOne(d, back) = d
    <3> HIDE DEF back, old
    <3> QED BY <2>7, <2>8, <2>9, <2>10, PutBack
  <2> HIDE DEF back, old, path
  <2> QED BY <2>1, <2>4, <2>11, <2>12, ReplacementUndone, OperationsInclude
<1>3. ASSUME NEW i \in Nat \ {0}, NEW key, NEW value,
             \/ key = "enabled" /\ value \in BOOLEAN
             \/ key = "order" /\ value \in Nat,
             op = ReplaceOp(<<"sections", i, key>>, value)
      PROVE  Goal
  <2> DEFINE path == <<"sections", i, key>>
             list == d.sections
             old == list[i][key]
             back == ReplaceOp(path, old)
  <2>1. op.op = "replace" /\ op.path = path /\ back.path = path
    BY <1>3 DEF ReplaceOp
  <2>2. i \in 1..Len(list)
    <3>1. ApplyOne(d, op) = IF i \in 1..Len(d.sections) THEN [d EXCEPT !.sections[i][key] = value] ELSE Refused
      BY <1>3, SectionReplaced
    <3> QED BY <3>1
  <2>3. ReadPointer(d, path) = old
    BY <1>3, <2>2, SectionReplaced
  <2>4. inv = back
    <3>1. inv = ReplaceOp(op.path, ReadPointer(d, op.path))
      BY <2>1 DEF InverseOp
    <3> QED BY <3>1, <2>1, <2>3
  <2>5. list \in Seq(DraftSection) /\ list[i] \in DraftSection
    <3>1. list \in Seq(DraftSection)
      BY Parts
    <3> HIDE DEF list
    <3> QED BY <2>2, <3>1
  <2>6. \/ key = "enabled" /\ old \in BOOLEAN
        \/ key = "order" /\ old \in Nat
    <3> HIDE DEF list
    <3> QED BY <1>3, <2>5 DEF DraftSection
  <2>7. ApplyOne(d, back) = [d EXCEPT !.sections[i][key] = old]
    <3> HIDE DEF old
    <3> QED BY <2>2, <2>6, SectionReplaced
  <2>8. [d EXCEPT !.sections[i][key] = old] = [d EXCEPT !.sections = [list EXCEPT ![i] = [list[i] EXCEPT ![key] = old]]]
    OBVIOUS
  <2>9. [list[i] EXCEPT ![key] = old] = list[i]
    <3> HIDE DEF list
    <3> QED BY <2>5 DEF DraftSection
  <2>10. [list EXCEPT ![i] = list[i]] = list
    <3> HIDE DEF list
    <3> QED BY <2>2, <2>5, SetAgain
  <2>11. op \in Replacement /\ back \in Replacement
    <3> HIDE DEF old
    <3> QED BY <1>3, <2>6, OperationsAre
  <2>12. ApplyOne(d, back) = d
    <3> HIDE DEF back, old
    <3> QED BY <2>7, <2>8, <2>9, <2>10, PutBack
  <2> HIDE DEF back, old, path
  <2> QED BY <2>1, <2>4, <2>11, <2>12, ReplacementUndone, OperationsInclude
<1>4. ASSUME NEW event \in DraftEvent, op = AddOp(<<"events", End>>, event)
      PROVE  Goal
  <2> DEFINE list == d.events
             place == Len(list) + 1
             new == InsertAt(list, place, event)
  <2>1. list \in Seq(DraftEvent) /\ Len(list) \in Nat /\ place \in 1..(Len(list) + 1) /\ place \in Nat \ {0}
    <3>1. list \in Seq(DraftEvent)
      BY Parts
    <3> HIDE DEF list
    <3> QED BY <3>1
  <2>2. e = [d EXCEPT !.events = new] /\ e \in Document
    <3>1. End \in Nat
      BY DEF End
    <3>2. /\ e = IF place \in 1..(Len(d.events) + 1)
                 THEN [d EXCEPT !.events = InsertAt(d.events, place, event)] ELSE Refused
          /\ place \in 1..(Len(d.events) + 1) =>
               [d EXCEPT !.events = InsertAt(d.events, place, event)] \in Document
      BY <1>4, <3>1, EventAdded
    <3> QED BY <2>1, <3>2
  <2>3. inv = RemoveOp(<<"events", place>>)
    <3>1. op.op = "add" /\ op.path = <<"events", End>>
      BY <1>4 DEF AddOp
    <3>2. Front(op.path) = <<"events">> /\ ReadPointer(d, <<"events">>) = list
      BY <3>1, PathOfTwo, ReadOne, Parts
    <3>3. inv = RemoveOp(Append(Front(op.path), Len(ReadPointer(d, Front(op.path))) + 1))
      BY <3>1 DEF InverseOp
    <3>4. Append(<<"events">>, place) = <<"events", place>>
      <4> HIDE DEF place
      <4> QED BY AppendToOne
    <3> HIDE DEF inv, list
    <3> QED BY <3>2, <3>3, <3>4 DEF place
  <2> HIDE DEF list, place, new
  <2>4. e.events = new
    <3> HIDE DEF e
    <3> QED BY <2>2, PutBack
  <2>5. place \in 1..Len(new) /\ RemoveAt(new, place) = list
    BY <1>4, <2>1, RemoveInserted DEF new
  <2>6. ApplyOne(e, inv) = [e EXCEPT !.events = list]
    <3> HIDE DEF e, inv
    <3> QED BY <2>1, <2>2, <2>3, <2>4, <2>5, EventRemoved
  <2>7. [e EXCEPT !.events = list] = d
    <3> HIDE DEF e
    <3> QED BY <2>2, PutBack DEF list
  <2> HIDE DEF e, inv
  <2> QED BY <2>1, <2>3, <2>6, <2>7, OperationsAre, OperationsInclude
<1>5. ASSUME NEW photo \in Nat, op = AddOp(<<"gallery", End>>, photo)
      PROVE  Goal
  <2> DEFINE list == d.gallery
             place == Len(list) + 1
             new == InsertAt(list, place, photo)
  <2>1. list \in Seq(Nat) /\ Len(list) \in Nat /\ place \in 1..(Len(list) + 1) /\ place \in Nat \ {0}
    <3>1. list \in Seq(Nat)
      BY Parts
    <3> HIDE DEF list
    <3> QED BY <3>1
  <2>2. e = [d EXCEPT !.gallery = new] /\ e \in Document
    <3>1. End \in Nat
      BY DEF End
    <3>2. /\ e = IF place \in 1..(Len(d.gallery) + 1)
                 THEN [d EXCEPT !.gallery = InsertAt(d.gallery, place, photo)] ELSE Refused
          /\ place \in 1..(Len(d.gallery) + 1) =>
               [d EXCEPT !.gallery = InsertAt(d.gallery, place, photo)] \in Document
      BY <1>5, <3>1, PhotoAdded
    <3> QED BY <2>1, <3>2
  <2>3. inv = RemoveOp(<<"gallery", place>>)
    <3>1. op.op = "add" /\ op.path = <<"gallery", End>>
      BY <1>5 DEF AddOp
    <3>2. Front(op.path) = <<"gallery">> /\ ReadPointer(d, <<"gallery">>) = list
      BY <3>1, PathOfTwo, ReadOne, Parts
    <3>3. inv = RemoveOp(Append(Front(op.path), Len(ReadPointer(d, Front(op.path))) + 1))
      BY <3>1 DEF InverseOp
    <3>4. Append(<<"gallery">>, place) = <<"gallery", place>>
      <4> HIDE DEF place
      <4> QED BY AppendToOne
    <3> HIDE DEF inv, list
    <3> QED BY <3>2, <3>3, <3>4 DEF place
  <2> HIDE DEF list, place, new
  <2>4. e.gallery = new
    <3> HIDE DEF e
    <3> QED BY <2>2, PutBack
  <2>5. place \in 1..Len(new) /\ RemoveAt(new, place) = list
    BY <1>5, <2>1, RemoveInserted DEF new
  <2>6. ApplyOne(e, inv) = [e EXCEPT !.gallery = list]
    <3> HIDE DEF e, inv
    <3> QED BY <2>1, <2>2, <2>3, <2>4, <2>5, PhotoRemoved
  <2>7. [e EXCEPT !.gallery = list] = d
    <3> HIDE DEF e
    <3> QED BY <2>2, PutBack DEF list
  <2> HIDE DEF e, inv
  <2> QED BY <2>1, <2>3, <2>6, <2>7, OperationsAre, OperationsInclude
<1>6. ASSUME NEW i \in Nat \ {0}, op = RemoveOp(<<"events", i>>)
      PROVE  Goal
  <2> DEFINE list == d.events
             new == RemoveAt(list, i)
  <2>1. list \in Seq(DraftEvent) /\ i # End
    BY Parts DEF End
  <2>2. /\ i \in 1..Len(list) /\ e = [d EXCEPT !.events = new] /\ e \in Document
        /\ ReadPointer(d, <<"events", i>>) = list[i]
    BY <1>6, EventRemoved
  <2>3. inv = AddOp(<<"events", i>>, list[i])
    <3>1. op.op = "remove" /\ op.path = <<"events", i>>
      BY <1>6 DEF RemoveOp
    <3>2. inv = AddOp(op.path, ReadPointer(d, op.path))
      BY <3>1 DEF InverseOp
    <3> HIDE DEF inv, list
    <3> QED BY <3>1, <3>2, <2>2
  <2> HIDE DEF list, new
  <2>4. list[i] \in DraftEvent
    BY <2>1, <2>2
  <2>5. e.events = new
    <3> HIDE DEF e
    <3> QED BY <2>2, PutBack
  <2>6. i \in 1..(Len(new) + 1) /\ InsertAt(new, i, list[i]) = list
    BY <2>1, <2>2, InsertRemoved DEF new
  <2>7. ApplyOne(e, inv) = [e EXCEPT !.events = list]
    <3> HIDE DEF e, inv
    <3> QED BY <2>1, <2>2, <2>3, <2>4, <2>5, <2>6, EventAdded
  <2>8. [e EXCEPT !.events = list] = d
    <3> HIDE DEF e
    <3> QED BY <2>2, PutBack DEF list
  <2> HIDE DEF e, inv
  <2> QED BY <2>3, <2>4, <2>7, <2>8, OperationsAre
<1>7. ASSUME NEW i \in Nat \ {0}, op = RemoveOp(<<"gallery", i>>)
      PROVE  Goal
  <2> DEFINE list == d.gallery
             new == RemoveAt(list, i)
  <2>1. list \in Seq(Nat) /\ i # End
    BY Parts DEF End
  <2>2. /\ i \in 1..Len(list) /\ e = [d EXCEPT !.gallery = new] /\ e \in Document
        /\ ReadPointer(d, <<"gallery", i>>) = list[i]
    BY <1>7, PhotoRemoved
  <2>3. inv = AddOp(<<"gallery", i>>, list[i])
    <3>1. op.op = "remove" /\ op.path = <<"gallery", i>>
      BY <1>7 DEF RemoveOp
    <3>2. inv = AddOp(op.path, ReadPointer(d, op.path))
      BY <3>1 DEF InverseOp
    <3> HIDE DEF inv, list
    <3> QED BY <3>1, <3>2, <2>2
  <2> HIDE DEF list, new
  <2>4. list[i] \in Nat
    BY <2>1, <2>2
  <2>5. e.gallery = new
    <3> HIDE DEF e
    <3> QED BY <2>2, PutBack
  <2>6. i \in 1..(Len(new) + 1) /\ InsertAt(new, i, list[i]) = list
    BY <2>1, <2>2, InsertRemoved DEF new
  <2>7. ApplyOne(e, inv) = [e EXCEPT !.gallery = list]
    <3> HIDE DEF e, inv
    <3> QED BY <2>1, <2>2, <2>3, <2>4, <2>5, <2>6, PhotoAdded
  <2>8. [e EXCEPT !.gallery = list] = d
    <3> HIDE DEF e
    <3> QED BY <2>2, PutBack DEF list
  <2> HIDE DEF e, inv
  <2> QED BY <2>3, <2>4, <2>7, <2>8, OperationsAre
<1>8. Goal
  <2> HIDE DEF Goal
  <2>1. CASE op \in Replacement
    <3>1. CASE \E field \in Fields : \E text \in Values(field) :
                 op = ReplaceOp(<<"content", field>>, text)
      BY <1>1, <3>1
    <3>2. CASE \E i \in Nat \ {0}, key \in {"title", "date"}, text \in Text :
                 op = ReplaceOp(<<"events", i, key>>, text)
      BY <1>2, <3>2
    <3>3. CASE \E i \in Nat \ {0} : \E key, value :
                 /\ \/ key = "enabled" /\ value \in BOOLEAN
                    \/ key = "order" /\ value \in Nat
                 /\ op = ReplaceOp(<<"sections", i, key>>, value)
      BY <1>3, <3>3
    <3> QED BY <2>1, <3>1, <3>2, <3>3, ReplacementCases, Zenon
  <2> QED BY <2>1, <1>4, <1>5, <1>6, <1>7, UserOperationCases
<1> QED BY <1>8

\* The inverse of a patch takes the document it made back to the one it was made for.
THEOREM InvertTakesBack ==
  ASSUME NEW d \in Document, NEW q \in Seq(UserOperation), ApplyPatch(d, q) # Refused
  PROVE  /\ Invert(q, d) \in Seq(Operation)
         /\ ApplyPatch(ApplyPatch(d, q), Invert(q, d)) = d
<1> DEFINE n == Len(q)
           f == Steps(d, q)
           inverse == [i \in DOMAIN q |-> InverseOp(ApplyPatch(d, SubSeq(q, 1, i - 1)), q[i])]
           b == Reverse(inverse)
           g == Steps(f[n], b)
           T == {k \in Nat : k <= n => g[k] = f[n - k]}
<1>1. n \in Nat /\ DOMAIN q = 1..n /\ q \in Seq(Operation)
  <2>1. UserOperation \subseteq Operation
    BY OperationsInclude
  <2> QED BY <2>1, SeqMonotonic
<1>2. ApplyPatch(d, q) = f[n] /\ f[0] = d
  BY StepsFacts
<1>3. ASSUME NEW k \in 1..n
      PROVE  /\ f[k - 1] \in Document /\ f[k] = ApplyOne(f[k - 1], q[k]) /\ f[k] # Refused
             /\ inverse[k] = InverseOp(f[k - 1], q[k])
  <2>1. k - 1 \in 0..n /\ k \in 0..n /\ n \in (k - 1)..n /\ n \in k..n /\ k - 1 \in 0..Len(q)
    BY <1>1
  <2>2. f[k - 1] # Refused /\ f[k] # Refused
    BY <1>2, <2>1, RefusedOnwards
  <2>3. f[k - 1] \in Document
    BY <1>1, <2>1, <2>2, StepsTyped
  <2>4. f[k] = ApplyOne(f[k - 1], q[k])
    BY <2>2, StepsFacts
  <2>5. ApplyPatch(d, SubSeq(q, 1, k - 1)) = f[k - 1]
    <3> DEFINE m == k - 1
    <3>1. m \in 0..Len(q)
      BY <2>1
    <3> HIDE DEF m, f
    <3> QED BY <3>1, ApplyPrefix DEF m, f
  <2> QED BY <1>1, <2>2, <2>3, <2>4, <2>5
<1>4. ASSUME NEW k \in 1..n
      PROVE  inverse[k] \in Operation /\ ApplyOne(f[k], inverse[k]) = f[k - 1]
  <2>1. q[k] \in UserOperation
    OBVIOUS
  <2> HIDE DEF f, inverse
  <2> QED BY <1>3, <2>1, InverseOpFacts
<1>5. inverse \in Seq(Operation) /\ Len(inverse) = n
  <2>1. inverse \in [1..n -> Operation]
    <3>1. DOMAIN inverse = 1..n /\ inverse = [k \in 1..n |-> inverse[k]]
      BY <1>1
    <3> HIDE DEF inverse
    <3> QED BY <1>4, <3>1
  <2> HIDE DEF inverse
  <2> QED BY <1>1, <2>1
<1> HIDE DEF inverse, f
<1>6. b \in Seq(Operation) /\ Len(b) = n /\ \A k \in 1..n : b[k] = inverse[(n - k) + 1]
  <2>1. b = [k \in 1..n |-> inverse[(n - k) + 1]]
    BY <1>5 DEF Reverse
  <2>2. \A k \in 1..n : (n - k) + 1 \in 1..n
    BY <1>1
  <2>3. b \in [1..n -> Operation]
    BY <1>4, <2>1, <2>2
  <2> HIDE DEF b
  <2> QED BY <1>1, <2>1, <2>3
<1> HIDE DEF b
<1>7. 0 \in T
  <2>1. g[0] = f[n] /\ n - 0 = n
    BY <1>1, <1>6, StepsFacts
  <2> QED BY <2>1
<1>8. ASSUME NEW k \in T PROVE k + 1 \in T
  <2> SUFFICES ASSUME k + 1 <= n PROVE g[k + 1] = f[n - (k + 1)]
    OBVIOUS
  <2>1. /\ k + 1 \in 1..n /\ (k + 1) - 1 = k /\ n - k \in 1..n /\ (n - k) - 1 = n - (k + 1)
        /\ (n - (k + 1)) + 1 = n - k /\ g[k] = f[n - k]
    BY <1>1
  <2>2. g[k + 1] = IF g[k] = Refused THEN Refused ELSE ApplyOne(g[k], b[k + 1])
    BY <1>6, <2>1, StepsFacts
  <2>3. b[k + 1] = inverse[n - k]
    BY <1>6, <2>1
  <2>4. f[n - k] # Refused /\ ApplyOne(f[n - k], inverse[n - k]) = f[(n - k) - 1]
    BY <1>3, <1>4, <2>1
  <2> QED BY <2>1, <2>2, <2>3, <2>4
<1>9. n \in T
  <2>1. \A k \in Nat : k \in T
    <3>1. T \in SUBSET Nat
      OBVIOUS
    <3> HIDE DEF T
    <3> QED BY <1>7, <1>8, <3>1, FromZero
  <2> QED BY <1>1, <2>1
<1>10. ApplyPatch(f[n], b) = g[n]
  BY <1>6, StepsFacts
<1>11. n - n = 0
  BY <1>1
<1>12. Invert(q, d) = b
  BY DEF Invert, b, inverse
<1> QED BY <1>1, <1>2, <1>6, <1>9, <1>10, <1>11, <1>12

(* ------------------------ what the controls offer ---------------------- *)

\* Edits, each a patch of a control's operations.
Batches == Seq(Seq(UserOperation))

\* One operation, two in an edit, and two edits.
LEMMA BatchesAre ==
  /\ \A a \in UserOperation : << <<a>> >> \in Batches
  /\ \A a, b \in UserOperation : << <<a, b>> >> \in Batches
  /\ \A a, b \in UserOperation : << <<a>>, <<b>> >> \in Batches
<1>1. ASSUME NEW a \in UserOperation, NEW b \in UserOperation
      PROVE  <<a>> \in Seq(UserOperation) /\ <<a, b>> \in Seq(UserOperation) /\ <<b>> \in Seq(UserOperation)
  OBVIOUS
<1>2. ASSUME NEW p \in Seq(UserOperation), NEW q \in Seq(UserOperation)
      PROVE  <<p>> \in Batches /\ <<p, q>> \in Batches
  <2> DEFINE S == Seq(UserOperation)
  <2>1. p \in S /\ q \in S
    OBVIOUS
  <2> HIDE DEF S
  <2>2. <<p>> \in Seq(S) /\ <<p, q>> \in Seq(S)
    BY <2>1
  <2> QED BY <2>2 DEF Batches, S
<1> QED BY <1>1, <1>2

\* What a text control stores is an operation of a control.
LEMMA ReplacingTyped ==
  ASSUME NEW document, NEW field \in DOMAIN Typed, NEW text \in Texts(document, field)
  PROVE  Replacing(field, text) \in UserOperation /\ text \in Text
<1>1. text \in Text /\ field \in Fields
  BY FieldsAre DEF Texts
<1>2. Entered(field, text) \in Values(field)
  BY <1>1 DEF Entered, Values
<1> QED BY <1>1, <1>2, OperationsAre, OperationsInclude DEF Replacing

\* What the text controls offer are edits.
LEMMA FieldEditsTyped ==
  ASSUME NEW document, NEW fields, fields \subseteq DOMAIN Typed
  PROVE  FieldEdits(document, fields) \subseteq Batches
<1> SUFFICES ASSUME NEW batches \in FieldEdits(document, fields) PROVE batches \in Batches
  OBVIOUS
<1>1. PICK field \in fields : batches \in {<< <<Replacing(field, text)>> >> : text \in Texts(document, field)}
  BY DEF FieldEdits
<1>2. PICK text \in Texts(document, field) : batches = << <<Replacing(field, text)>> >>
  BY <1>1
<1> QED BY <1>2, ReplacingTyped, BatchesAre

\* Whatever any control offers are edits made of the operations of controls.
LEMMA OfferedTyped ==
  ASSUME NEW document \in Document, NEW id \in Nat
  PROVE  Offered(document, id) \subseteq Batches
<1>1. CoupleStep(document) \subseteq Batches
  <2>1. Names \cup {"message"} \subseteq DOMAIN Typed
    BY FieldsAre DEF Names
  <2> QED BY <2>1, FieldEditsTyped DEF CoupleStep
<1>2. DateStep(document) \subseteq Batches
  <2>1. FieldEdits(document, {"weddingDate"}) \subseteq Batches
    BY FieldsAre, FieldEditsTyped
  <2>2. ASSUME NEW zone \in Texts(document, "timezone")
        PROVE  << <<Replacing("timezone", zone), ReplaceOp(<<"content", "weddingTimezone">>, zone)>> >> \in Batches
    <3>1. Replacing("timezone", zone) \in UserOperation /\ zone \in Text
      BY FieldsAre, ReplacingTyped
    <3>2. ReplaceOp(<<"content", "weddingTimezone">>, zone) \in UserOperation
      <4>1. zone \in {"here", "there"}
        BY DEF Texts, Typed
      <4>2. zone \in Values("weddingTimezone")
        BY <3>1, <4>1 DEF Values, Blank
      <4> QED BY <4>2, FieldsAre, OperationsAre, OperationsInclude
    <3> QED BY <3>1, <3>2, BatchesAre
  <2> QED BY <2>1, <2>2 DEF DateStep
<1>3. LocationStep(document) \subseteq Batches
  <2>1. FieldEdits(document, {"latitude"}) \subseteq Batches
    BY FieldsAre, FieldEditsTyped
  <2> DEFINE inside == ReplaceOp(<<"content", "latitude">>, "inside")
             more(url) == IF url = "link" THEN << <<inside>> >> ELSE <<>>
  <2>2. ASSUME NEW url \in Texts(document, "mapsUrl")
        PROVE  << <<Replacing("mapsUrl", url)>> >> \o more(url) \in Batches
    <3>1. Replacing("mapsUrl", url) \in UserOperation
      BY FieldsAre, ReplacingTyped
    <3>2. inside \in UserOperation
      <4>1. "inside" \in Values("latitude") /\ "latitude" \in Fields
        BY FieldsAre DEF Values, Blank, Names
      <4> QED BY <4>1, OperationsAre, OperationsInclude
    <3>3. << <<Replacing("mapsUrl", url)>> >> \in Batches /\ more(url) \in Batches
      <4>1. <<>> \in Batches
        BY DEF Batches
      <4> HIDE DEF inside
      <4> QED BY <3>1, <3>2, <4>1, BatchesAre
    <3> HIDE DEF more
    <3> QED BY <3>3, ConcatProperties DEF Batches
  <2>3. LocationStep(document) = FieldEdits(document, {"latitude"})
          \cup {<< <<Replacing("mapsUrl", url)>> >> \o more(url) : url \in Texts(document, "mapsUrl")}
    BY DEF LocationStep
  <2> HIDE DEF more
  <2> QED BY <2>1, <2>2, <2>3
<1>4. EventsStep(document, id) \subseteq Batches
  <2>1. document.events \in Seq(DraftEvent) /\ document.content \in DraftContent
    BY Parts
  <2>2. AddEvent(document, id) \in UserOperation
    <3> DEFINE day == document.content.weddingDate
               date == IF day = Null THEN "day" ELSE day
    <3>1. date \in Text
      BY <2>1, FieldsAre DEF DraftContent
    <3>2. NewEvent(id, date, Len(document.events)) \in DraftEvent
      <4>1. Len(document.events) \in Nat
        BY <2>1
      <4> HIDE DEF date
      <4> QED BY <3>1, <4>1, FieldsAre DEF NewEvent, DraftEvent
    <3>3. AddEvent(document, id) = AddOp(<<"events", End>>, NewEvent(id, date, Len(document.events)))
      BY DEF AddEvent
    <3> HIDE DEF date
    <3> QED BY <3>2, <3>3, OperationsAre
  <2>3. ASSUME NEW i \in DOMAIN document.events
        PROVE  /\ << <<RemoveOp(<<"events", i>>)>> >> \in Batches
               /\ \A title \in {"", "title"} : << <<ReplaceOp(<<"events", i, "title">>, title)>> >> \in Batches
               /\ \A date \in {"", "day"} : << <<ReplaceOp(<<"events", i, "date">>, date)>> >> \in Batches
    <3>1. i \in Nat \ {0}
      BY <2>1
    <3>2. /\ RemoveOp(<<"events", i>>) \in UserOperation
          /\ \A title \in {"", "title"} : ReplaceOp(<<"events", i, "title">>, title) \in UserOperation
          /\ \A date \in {"", "day"} : ReplaceOp(<<"events", i, "date">>, date) \in UserOperation
      BY <3>1, FieldsAre, OperationsAre, OperationsInclude
    <3> QED BY <3>2, BatchesAre
  <2> DEFINE of(i) == {<< <<RemoveOp(<<"events", i>>)>> >>}
                        \cup {<< <<ReplaceOp(<<"events", i, "title">>, title)>> >> :
                                title \in {"", "title"} \ {document.events[i].title}}
                        \cup {<< <<ReplaceOp(<<"events", i, "date">>, date)>> >> :
                                date \in {"", "day"} \ {document.events[i].date}}
  <2>4. ASSUME NEW i \in DOMAIN document.events PROVE of(i) \subseteq Batches
    BY <2>3
  <2>5. EventsStep(document, id) = {<< <<AddEvent(document, id)>> >>}
                                     \cup UNION {of(i) : i \in DOMAIN document.events}
    BY DEF EventsStep
  <2>6. << <<AddEvent(document, id)>> >> \in Batches
    BY <2>2, BatchesAre
  <2> HIDE DEF of
  <2> QED BY <2>4, <2>5, <2>6
<1>5. PhotosStep(document, id) \subseteq Batches
  <2>1. FieldEdits(document, {"cover"}) \subseteq Batches
    BY FieldsAre, FieldEditsTyped
  <2>2. Gallery(document, id) \subseteq Batches
    <3>1. << <<AddOp(<<"gallery", End>>, id)>> >> \in Batches
      BY OperationsAre, BatchesAre
    <3>2. ASSUME NEW i \in DOMAIN document.gallery
          PROVE  << <<RemoveOp(<<"gallery", i>>)>> >> \in Batches
      <4>1. i \in Nat \ {0}
        BY Parts
      <4> QED BY <4>1, OperationsAre, BatchesAre
    <3> QED BY <3>1, <3>2 DEF Gallery
  <2> QED BY <2>1, <2>2 DEF PhotosStep
<1>6. MusicStep(document) \subseteq Batches
  BY FieldsAre, FieldEditsTyped DEF MusicStep
<1>7. DesignPanel(document) \subseteq Batches
  <2>1. FieldEdits(document, {"primary", "accent"}) \subseteq Batches
    BY FieldsAre, FieldEditsTyped
  <2>2. ASSUME NEW color \in Texts(document, "primary")
        PROVE  << <<Replacing("primary", color), Replacing("accent", color)>> >> \in Batches
    <3>1. Replacing("primary", color) \in UserOperation /\ color \in Text
      BY FieldsAre, ReplacingTyped
    <3>2. Entered("accent", color) \in Values("accent")
      BY <3>1 DEF Entered, Values
    <3>3. Replacing("accent", color) \in UserOperation
      BY <3>2, FieldsAre, OperationsAre, OperationsInclude DEF Replacing
    <3> QED BY <3>1, <3>3, BatchesAre
  <2> QED BY <2>1, <2>2 DEF DesignPanel
<1>8. SectionsPanel(document) \subseteq Batches
  <2> DEFINE sections == document.sections
             toggle(i) == ReplaceOp(<<"sections", i, "enabled">>, ~sections[i].enabled)
             order(i, j) == ReplaceOp(<<"sections", i, "order">>, sections[j].order)
  <2>1. ASSUME NEW i \in DOMAIN sections, NEW j \in DOMAIN sections
        PROVE  toggle(i) \in UserOperation /\ order(i, j) \in UserOperation
    <3>1. sections \in Seq(DraftSection)
      BY Parts
    <3> HIDE DEF sections
    <3>2. i \in Nat \ {0} /\ sections[i] \in DraftSection /\ sections[j] \in DraftSection
      BY <3>1
    <3>3. (~sections[i].enabled) \in BOOLEAN /\ sections[j].order \in Nat
      BY <3>2 DEF DraftSection
    <3> QED BY <3>2, <3>3, OperationsAre, OperationsInclude
  <2> DEFINE before(i, j) == \/ sections[i].order < sections[j].order
                             \/ sections[i].order = sections[j].order /\ i < j
             neighbours == {pair \in (DOMAIN sections) \X (DOMAIN sections) :
                              /\ before(pair[1], pair[2])
                              /\ \A k \in DOMAIN sections : ~(before(pair[1], k) /\ before(k, pair[2]))}
  <2>2. SectionsPanel(document) =
          {<< <<toggle(i)>> >> : i \in {j \in DOMAIN sections : ~sections[j].locked}}
            \cup {<< <<order(pair[1], pair[2]), order(pair[2], pair[1])>> >> : pair \in neighbours}
    BY DEF SectionsPanel
  <2>3. \A pair \in neighbours : pair[1] \in DOMAIN sections /\ pair[2] \in DOMAIN sections
    OBVIOUS
  <2>4. ASSUME NEW i \in DOMAIN sections PROVE << <<toggle(i)>> >> \in Batches
    <3> HIDE DEF toggle, order
    <3> QED BY <2>1, BatchesAre
  <2>5. ASSUME NEW i \in DOMAIN sections, NEW j \in DOMAIN sections
        PROVE  << <<order(i, j), order(j, i)>> >> \in Batches
    <3> HIDE DEF toggle, order
    <3> QED BY <2>1, BatchesAre
  <2> HIDE DEF sections, toggle, order, neighbours
  <2> QED BY <2>2, <2>3, <2>4, <2>5
<1> QED BY <1>1, <1>2, <1>3, <1>4, <1>5, <1>6, <1>7, <1>8 DEF Offered

(* -------------------------- filters and sorts -------------------------- *)

\* R orders P, and each element comes before or after any other.
Orders(R, P) ==
  /\ \A i \in P : ~(<<i, i>> \in R)
  /\ \A i, j \in P : i # j => <<i, j>> \in R \/ <<j, i>> \in R
  /\ \A i, j, k \in P : <<i, j>> \in R /\ <<j, k>> \in R => <<i, k>> \in R

\* p goes through the n elements of P in the order of R.
GoesThrough(p, n, P, R) ==
  /\ p \in [1..n -> P]
  /\ \A i \in P : \E k \in 1..n : p[k] = i
  /\ \A k, l \in 1..n : k < l <=> <<p[k], p[l]>> \in R

Earlier(i, P, R) == {j \in P : <<j, i>> \in R}

Rank(i, P, R) == Cardinality(Earlier(i, P, R))

\* What comes before an element is counted, and less of it comes before an earlier one.
LEMMA RankFacts ==
  ASSUME NEW P, IsFiniteSet(P), NEW R, Orders(R, P)
  PROVE  /\ Cardinality(P) \in Nat
         /\ \A i \in P : Rank(i, P, R) \in 0..(Cardinality(P) - 1)
         /\ \A i, j \in P : <<i, j>> \in R => Rank(i, P, R) < Rank(j, P, R)
         /\ \A i, j \in P : Rank(i, P, R) = Rank(j, P, R) => i = j
<1>1. Cardinality(P) \in Nat
  BY FS_CardinalityType
<1>2. ASSUME NEW i \in P
      PROVE  /\ IsFiniteSet(Earlier(i, P, R)) /\ Rank(i, P, R) \in Nat
             /\ Rank(i, P, R) < Cardinality(P)
  <2>1. Earlier(i, P, R) \in SUBSET P /\ i \notin Earlier(i, P, R)
    BY DEF Earlier, Orders
  <2>2. IsFiniteSet(Earlier(i, P, R)) /\ Rank(i, P, R) \in Nat /\ Rank(i, P, R) <= Cardinality(P)
    BY <2>1, FS_Subset, FS_CardinalityType DEF Rank
  <2>3. Rank(i, P, R) # Cardinality(P)
    BY <2>1, FS_Subset DEF Rank
  <2> QED BY <2>2, <2>3, <1>1
<1>3. ASSUME NEW i \in P, NEW j \in P, <<i, j>> \in R PROVE Rank(i, P, R) < Rank(j, P, R)
  <2>1. /\ Earlier(i, P, R) \in SUBSET Earlier(j, P, R)
        /\ i \in Earlier(j, P, R) /\ i \notin Earlier(i, P, R)
    BY <1>3 DEF Earlier, Orders
  <2>2. Rank(i, P, R) <= Rank(j, P, R) /\ Rank(i, P, R) # Rank(j, P, R)
    BY <1>2, <2>1, FS_Subset DEF Rank
  <2> QED BY <1>2, <2>2
<1>4. ASSUME NEW i \in P, NEW j \in P, Rank(i, P, R) = Rank(j, P, R) PROVE i = j
  <2>1. ~(<<i, j>> \in R) /\ ~(<<j, i>> \in R)
    BY <1>2, <1>3, <1>4
  <2> QED BY <2>1 DEF Orders
<1> QED BY <1>1, <1>2, <1>3, <1>4

\* Every set of positions can be gone through in such an order, and that is what Arranged does.
LEMMA ArrangedExists ==
  ASSUME NEW P, IsFiniteSet(P), NEW R, Orders(R, P), NEW s
  PROVE  \E p : /\ GoesThrough(p, Cardinality(P), P, R)
                /\ Arranged(s, P, R) = [k \in 1..Cardinality(P) |-> s[p[k]]]
<1> DEFINE n == Cardinality(P)
           rank(i) == Rank(i, P, R)
           p == [k \in 1..n |-> CHOOSE i \in P : rank(i) = k - 1]
           f == [i \in P |-> rank(i)]
<1>1. /\ n \in Nat
      /\ \A i \in P : rank(i) \in 0..(n - 1)
      /\ \A i, j \in P : <<i, j>> \in R => rank(i) < rank(j)
      /\ \A i, j \in P : rank(i) = rank(j) => i = j
  BY RankFacts
<1>2. \A m \in 0..(n - 1) : \E i \in P : rank(i) = m
  <2>1. f \in Injection(P, 0..(n - 1))
    <3>1. f \in [P -> 0..(n - 1)] /\ \A i, j \in P : f[i] = f[j] => i = j
      BY <1>1
    <3> HIDE DEF f, n, rank
    <3> QED BY <3>1 DEF Injection, IsInjective
  <2>2. IsFiniteSet(0..(n - 1)) /\ Cardinality(0..(n - 1)) = n
    <3>1. n - 1 \in Int
      BY <1>1
    <3>2. /\ IsFiniteSet(0..(n - 1))
          /\ Cardinality(0..(n - 1)) = IF 0 > n - 1 THEN 0 ELSE (n - 1) - 0 + 1
      BY <3>1, FS_Interval
    <3> HIDE DEF n
    <3> QED BY <1>1, <3>2
  <2>3. f \in Surjection(P, 0..(n - 1))
    BY <2>1, <2>2, FS_Injection
  <2>4. ASSUME NEW m \in 0..(n - 1) PROVE \E i \in P : f[i] = m
    BY <2>3 DEF Surjection
  <2> QED BY <2>4
<1>3. ASSUME NEW k \in 1..n PROVE p[k] \in P /\ rank(p[k]) = k - 1
  <2>1. k - 1 \in 0..(n - 1)
    BY <1>1
  <2>2. \E i \in P : rank(i) = k - 1
    BY <1>2, <2>1
  <2> HIDE DEF rank
  <2> QED BY <2>2
<1>4. p \in [1..n -> P]
  BY <1>3
<1>5. ASSUME NEW i \in P PROVE \E k \in 1..n : p[k] = i
  <2>1. rank(i) + 1 \in 1..n /\ (rank(i) + 1) - 1 = rank(i)
    BY <1>1
  <2>2. p[rank(i) + 1] \in P /\ rank(p[rank(i) + 1]) = rank(i)
    BY <2>1, <1>3
  <2>3. p[rank(i) + 1] = i
    BY <2>2, <1>1
  <2> QED BY <2>1, <2>3
<1>6. ASSUME NEW k \in 1..n, NEW l \in 1..n PROVE k < l <=> <<p[k], p[l]>> \in R
  <2>1. /\ p[k] \in P /\ rank(p[k]) = k - 1 /\ p[l] \in P /\ rank(p[l]) = l - 1
    BY <1>3
  <2> DEFINE a == p[k]
             b == p[l]
  <2>2. a \in P /\ b \in P /\ rank(a) = k - 1 /\ rank(b) = l - 1
    BY <2>1
  <2> HIDE DEF p, rank, a, b, n
  <2>3. ASSUME k < l PROVE <<a, b>> \in R
    <3>1. a # b /\ ~(<<b, a>> \in R)
      BY <1>1, <2>2, <2>3
    <3> QED BY <2>2, <3>1 DEF Orders
  <2>4. ASSUME <<a, b>> \in R PROVE k < l
    BY <1>1, <2>2, <2>4
  <2>5. k < l <=> <<a, b>> \in R
    BY <2>3, <2>4
  <2> QED BY <2>5 DEF a, b
<1>7. GoesThrough(p, n, P, R)
  <2> HIDE DEF p, n
  <2> QED BY <1>4, <1>5, <1>6 DEF GoesThrough
<1>8. Arranged(s, P, R) = [k \in 1..n |-> s[p[k]]]
  BY DEF Arranged, Rank, Earlier
<1> QED BY <1>7, <1>8

\* ... and there is no other way to go through them.
LEMMA ArrangedIs ==
  ASSUME NEW n \in Nat, NEW P, NEW R, NEW p, GoesThrough(p, n, P, R), NEW s
  PROVE  /\ IsFiniteSet(P) /\ Cardinality(P) = n /\ Orders(R, P)
         /\ Arranged(s, P, R) = [k \in 1..n |-> s[p[k]]]
<1>1. /\ p \in [1..n -> P]
      /\ \A i \in P : \E k \in 1..n : p[k] = i
      /\ \A k, l \in 1..n : k < l <=> <<p[k], p[l]>> \in R
  BY DEF GoesThrough
<1>2. \A k, l \in 1..n : p[k] = p[l] => k = l
  <2> SUFFICES ASSUME NEW k \in 1..n, NEW l \in 1..n, p[k] = p[l] PROVE k = l
    OBVIOUS
  <2>1. (k < l <=> <<p[k], p[l]>> \in R) /\ (k < k <=> <<p[k], p[k]>> \in R)
        /\ (l < k <=> <<p[l], p[k]>> \in R)
    BY <1>1
  <2>2. ~(k < k) /\ (k < l \/ l < k \/ k = l)
    OBVIOUS
  <2>3. ~(<<p[k], p[k]>> \in R)
    BY <2>1, <2>2
  <2> QED BY <2>1, <2>2, <2>3
<1>3. Orders(R, P)
  <2>1. ASSUME NEW i \in P PROVE ~(<<i, i>> \in R)
    <3>1. PICK k \in 1..n : p[k] = i
      BY <1>1
    <3>2. ~(k < k)
      OBVIOUS
    <3> QED BY <1>1, <3>1, <3>2
  <2>2. ASSUME NEW i \in P, NEW j \in P, i # j PROVE <<i, j>> \in R \/ <<j, i>> \in R
    <3>1. PICK k \in 1..n : p[k] = i
      BY <1>1
    <3>2. PICK l \in 1..n : p[l] = j
      BY <1>1
    <3>3. k < l \/ l < k
      BY <2>2, <3>1, <3>2
    <3> QED BY <1>1, <3>1, <3>2, <3>3
  <2>3. ASSUME NEW i \in P, NEW j \in P, NEW m \in P, <<i, j>> \in R, <<j, m>> \in R
        PROVE  <<i, m>> \in R
    <3>1. PICK a \in 1..n : p[a] = i
      BY <1>1
    <3>2. PICK b \in 1..n : p[b] = j
      BY <1>1
    <3>3. PICK c \in 1..n : p[c] = m
      BY <1>1
    <3>4. a < b /\ b < c
      BY <1>1, <2>3, <3>1, <3>2, <3>3
    <3>5. a < c
      BY <3>4
    <3> QED BY <1>1, <3>1, <3>3, <3>5
  <2> QED BY <2>1, <2>2, <2>3 DEF Orders
<1>4. ASSUME NEW k \in 0..n, NEW Q, Q = {p[l] : l \in 1..k}
      PROVE  IsFiniteSet(Q) /\ Cardinality(Q) = k
  <2> DEFINE g == [l \in 1..k |-> p[l]]
  <2>1. g \in Bijection(1..k, Q)
    <3>1. g \in [1..k -> Q] /\ (\A x \in Q : \E l \in 1..k : g[l] = x)
          /\ \A a, b \in 1..k : g[a] = g[b] => a = b
      BY <1>2, <1>4
    <3> HIDE DEF g
    <3> QED BY <3>1 DEF Bijection, Injection, IsInjective, Surjection
  <2>2. ExistsBijection(1..k, Q)
    BY <2>1 DEF ExistsBijection
  <2>3. IsFiniteSet(1..k) /\ Cardinality(1..k) = k
    BY FS_Interval
  <2> QED BY <2>2, <2>3, FS_Bijection
<1>5. P = {p[l] : l \in 1..n}
  BY <1>1
<1>6. IsFiniteSet(P) /\ Cardinality(P) = n
  BY <1>4, <1>5
<1>7. ASSUME NEW k \in 1..n PROVE Rank(p[k], P, R) = k - 1
  <2>1. Earlier(p[k], P, R) = {p[l] : l \in 1..(k - 1)}
    <3>1. ASSUME NEW j \in Earlier(p[k], P, R) PROVE j \in {p[l] : l \in 1..(k - 1)}
      <4>1. PICK l \in 1..n : p[l] = j
        BY <1>1 DEF Earlier
      <4>2. l < k
        BY <1>1, <4>1 DEF Earlier
      <4> QED BY <4>1, <4>2
    <3>2. ASSUME NEW l \in 1..(k - 1) PROVE p[l] \in Earlier(p[k], P, R)
      <4>1. l \in 1..n /\ l < k
        OBVIOUS
      <4> QED BY <1>1, <4>1 DEF Earlier
    <3> QED BY <3>1, <3>2
  <2>2. k - 1 \in 0..n
    OBVIOUS
  <2> QED BY <1>4, <2>1, <2>2 DEF Rank
<1>8. ASSUME NEW k \in 1..n PROVE s[CHOOSE i \in P : Rank(i, P, R) = k - 1] = s[p[k]]
  <2>1. p[k] \in P /\ Rank(p[k], P, R) = k - 1
    BY <1>1, <1>7
  <2>2. \A i, j \in P : Rank(i, P, R) = Rank(j, P, R) => i = j
    BY <1>3, <1>6, RankFacts
  <2> DEFINE c == CHOOSE i \in P : Rank(i, P, R) = k - 1
  <2>3. c \in P /\ Rank(c, P, R) = k - 1
    BY <2>1
  <2>4. c = p[k]
    BY <2>1, <2>2, <2>3
  <2> QED BY <2>4
<1>9. Arranged(s, P, R) = [k \in 1..Cardinality(P) |-> s[CHOOSE i \in P : Rank(i, P, R) = k - 1]]
  BY DEF Arranged, Rank, Earlier
<1>10. Arranged(s, P, R) = [k \in 1..n |-> s[p[k]]]
  BY <1>6, <1>8, <1>9
<1> QED BY <1>3, <1>6, <1>10

\* L compares elements of S, perhaps without telling all apart.
Compares(L, S) ==
  /\ \A x \in S : ~(<<x, x>> \in L)
  /\ \A x, y, z \in S : <<x, z>> \in L => <<x, y>> \in L \/ <<y, z>> \in L
  /\ \A x, y, z \in S : <<x, y>> \in L /\ <<y, z>> \in L => <<x, z>> \in L

\* The order of a stable sort of some positions that were in the order R.
SortOrder(s, P, R, L) ==
  {a \in P \X P : \/ <<s[a[1]], s[a[2]]>> \in L
                  \/ a \in R /\ ~(<<s[a[2]], s[a[1]]>> \in L)}

\* A stable sort puts all positions in an order.
LEMMA SortOrders ==
  ASSUME NEW P, NEW R, Orders(R, P), NEW S, NEW L, Compares(L, S), NEW s, \A i \in P : s[i] \in S
  PROVE  Orders(SortOrder(s, P, R, L), P)
<1> DEFINE O == SortOrder(s, P, R, L)
<1>1. \A i, j \in P : <<i, j>> \in O <=> \/ <<s[i], s[j]>> \in L
                                         \/ <<i, j>> \in R /\ ~(<<s[j], s[i]>> \in L)
  BY DEF SortOrder
<1>2. \A i \in P : ~(<<i, i>> \in O)
  BY <1>1 DEF Orders, Compares
<1>3. \A i, j \in P : i # j => <<i, j>> \in O \/ <<j, i>> \in O
  BY <1>1 DEF Orders
<1>4. ASSUME NEW i \in P, NEW j \in P, NEW k \in P, <<i, j>> \in O, <<j, k>> \in O
      PROVE  <<i, k>> \in O
  <2> DEFINE less(a, b) == <<s[a], s[b]>> \in L
  <2>1. /\ less(i, j) \/ (<<i, j>> \in R /\ ~less(j, i))
        /\ less(j, k) \/ (<<j, k>> \in R /\ ~less(k, j))
    BY <1>1, <1>4
  <2>2. /\ less(i, j) => less(i, k) \/ less(k, j)
        /\ less(j, k) => less(j, i) \/ less(i, k)
        /\ less(k, i) => less(k, j) \/ less(j, i)
        /\ less(i, j) /\ less(j, k) => less(i, k)
    BY DEF Compares
  <2>3. <<i, j>> \in R /\ <<j, k>> \in R => <<i, k>> \in R
    BY DEF Orders
  <2>4. less(i, k) \/ (<<i, k>> \in R /\ ~less(k, i))
    <3> HIDE DEF less
    <3> QED BY <2>1, <2>2, <2>3
  <2> QED BY <1>1, <2>4
<1> HIDE DEF O
<1>5. Orders(O, P)
  BY <1>2, <1>3, <1>4 DEF Orders
<1> QED BY <1>5 DEF O

\* The order of a list.
InList(list) == {a \in Pairs(list) : a[1] < a[2]}

\* The positions of P that hold an element of V.
Chosen(list, P, V) == {i \in P : list[i] \in V}

\* To take some of the positions of what was arranged is to arrange those.
LEMMA ThenFiltered ==
  ASSUME NEW P, IsFiniteSet(P), NEW R, Orders(R, P), NEW s, NEW V,
         NEW t, t = Arranged(s, P, R)
  PROVE  Arranged(t, Chosen(t, DOMAIN t, V), InList(t)) = Arranged(s, Chosen(s, P, V), R)
<1> DEFINE Q == Chosen(t, DOMAIN t, V)
           W == Chosen(s, P, V)
           n == Cardinality(P)
           N == InList(t)
           m == Cardinality(Q)
<1>1. PICK p : GoesThrough(p, n, P, R) /\ t = [k \in 1..n |-> s[p[k]]]
  BY ArrangedExists
<1>2. /\ p \in [1..n -> P]
      /\ \A i \in P : \E k \in 1..n : p[k] = i
      /\ \A k, l \in 1..n : k < l <=> <<p[k], p[l]>> \in R
  BY <1>1 DEF GoesThrough
<1>3. n \in Nat
  BY FS_CardinalityType
<1>0. /\ \A k : k \in Q <=> k \in DOMAIN t /\ t[k] \in V
      /\ \A i : i \in W <=> i \in P /\ s[i] \in V
  BY DEF Chosen
<1> HIDE DEF n, Q, W
<1>4. DOMAIN t = 1..n /\ \A k \in 1..n : t[k] = s[p[k]]
  BY <1>1
<1>5. Q \in SUBSET (1..n)
  BY <1>4, <1>0
<1>6. IsFiniteSet(Q) /\ m \in Nat
  <2>1. IsFiniteSet(1..n)
    BY <1>3, FS_Interval
  <2>2. IsFiniteSet(Q)
    <3> QED BY <1>5, <2>1, FS_Subset
  <2> QED BY <2>2, FS_CardinalityType
<1>7. \A k, l \in 1..n : <<k, l>> \in N <=> k < l
  BY <1>4 DEF Pairs, InList
<1>8. Orders(N, Q)
  <2> HIDE DEF N
  <2> QED BY <1>3, <1>5, <1>7 DEF Orders
<1>9. PICK q : GoesThrough(q, m, Q, N) /\ Arranged(t, Q, N) = [k \in 1..m |-> t[q[k]]]
  <2> HIDE DEF N
  <2> QED BY <1>6, <1>8, ArrangedExists
<1>10. /\ q \in [1..m -> Q]
       /\ \A i \in Q : \E k \in 1..m : q[k] = i
       /\ \A k, l \in 1..m : k < l <=> <<q[k], q[l]>> \in N
  <2> HIDE DEF N, m
  <2> QED BY <1>9 DEF GoesThrough
<1>11. \A k \in Q : k \in 1..n /\ t[k] \in V
  BY <1>5, <1>0
<1> DEFINE r == [k \in 1..m |-> p[q[k]]]
<1>12. GoesThrough(r, m, W, R)
  <2> HIDE DEF m, N
  <2>1. ASSUME NEW k \in 1..m PROVE r[k] \in W
    <3>1. q[k] \in 1..n /\ t[q[k]] \in V
      BY <1>10, <1>11
    <3>2. p[q[k]] \in P /\ s[p[q[k]]] \in V
      BY <3>1, <1>2, <1>4
    <3> QED BY <3>2, <1>0
  <2>2. r \in [1..m -> W]
    BY <2>1
  <2>3. ASSUME NEW i \in W PROVE \E k \in 1..m : r[k] = i
    <3>1. PICK l \in 1..n : p[l] = i
      BY <1>2, <1>0
    <3>2. l \in Q
      BY <3>1, <1>4, <1>0
    <3>3. PICK k \in 1..m : q[k] = l
      BY <1>10, <3>2
    <3> QED BY <3>1, <3>3
  <2>4. ASSUME NEW k \in 1..m, NEW l \in 1..m PROVE k < l <=> <<r[k], r[l]>> \in R
    <3>1. q[k] \in 1..n /\ q[l] \in 1..n
      BY <1>10, <1>11
    <3>2. q[k] < q[l] <=> <<p[q[k]], p[q[l]]>> \in R
      BY <1>2, <3>1
    <3>3. k < l <=> q[k] < q[l]
      BY <1>7, <1>10, <3>1
    <3> QED BY <3>2, <3>3
  <2> HIDE DEF r
  <2> QED BY <2>2, <2>3, <2>4 DEF GoesThrough
<1>13. Arranged(s, W, R) = [k \in 1..m |-> s[r[k]]]
  <2> HIDE DEF r, m
  <2> QED BY <1>6, <1>12, ArrangedIs
<1>14. \A k \in 1..m : t[q[k]] = s[r[k]]
  BY <1>4, <1>10, <1>11
<1>15. Arranged(t, Q, N) = Arranged(s, W, R)
  <2> HIDE DEF r, m, N
  <2> QED BY <1>9, <1>13, <1>14
<1> QED BY <1>15 DEF Q, W

\* To sort what was arranged is to arrange it with the old order where the sort does not decide.
LEMMA ThenSorted ==
  ASSUME NEW P, IsFiniteSet(P), NEW R, Orders(R, P), NEW S, NEW L, Compares(L, S),
         NEW s, \A i \in P : s[i] \in S,
         NEW t, t = Arranged(s, P, R)
  PROVE  Arranged(t, DOMAIN t, SortOrder(t, DOMAIN t, InList(t), L))
           = Arranged(s, P, SortOrder(s, P, R, L))
<1> DEFINE M == SortOrder(t, DOMAIN t, InList(t), L)
           n == Cardinality(P)
           O == SortOrder(s, P, R, L)
<1>1. PICK p : GoesThrough(p, n, P, R) /\ t = [k \in 1..n |-> s[p[k]]]
  BY ArrangedExists
<1>2. /\ p \in [1..n -> P]
      /\ \A i \in P : \E k \in 1..n : p[k] = i
      /\ \A k, l \in 1..n : k < l <=> <<p[k], p[l]>> \in R
  BY <1>1 DEF GoesThrough
<1>3. n \in Nat
  BY FS_CardinalityType
<1> HIDE DEF n
<1>4. DOMAIN t = 1..n /\ \A k \in 1..n : t[k] = s[p[k]]
  BY <1>1
<1>5. \A i, j \in P : <<i, j>> \in O <=> \/ <<s[i], s[j]>> \in L
                                         \/ <<i, j>> \in R /\ ~(<<s[j], s[i]>> \in L)
  BY DEF SortOrder
<1>6. Orders(O, P)
  BY SortOrders
<1>7. \A k, l \in 1..n : <<k, l>> \in M <=> \/ <<t[k], t[l]>> \in L
                                            \/ k < l /\ ~(<<t[l], t[k]>> \in L)
  BY <1>4 DEF Pairs, InList, SortOrder
<1> HIDE DEF O, M
<1>8. \A k, l \in 1..n : <<k, l>> \in M <=> <<p[k], p[l]>> \in O
  <2> SUFFICES ASSUME NEW k \in 1..n, NEW l \in 1..n PROVE <<k, l>> \in M <=> <<p[k], p[l]>> \in O
    OBVIOUS
  <2>1. p[k] \in P /\ p[l] \in P /\ (k < l <=> <<p[k], p[l]>> \in R)
    BY <1>2
  <2>2. <<p[k], p[l]>> \in O <=> \/ <<s[p[k]], s[p[l]]>> \in L
                                 \/ <<p[k], p[l]>> \in R /\ ~(<<s[p[l]], s[p[k]]>> \in L)
    BY <1>5, <2>1
  <2> QED BY <1>4, <1>7, <2>1, <2>2
<1>9. Orders(M, 1..n)
  <2>1. \A k, l \in 1..n : k # l => p[k] # p[l]
    <3> SUFFICES ASSUME NEW k \in 1..n, NEW l \in 1..n, k # l, p[k] = p[l] PROVE FALSE
      OBVIOUS
    <3>1. k < l \/ l < k
      OBVIOUS
    <3>2. <<p[k], p[k]>> \in R
      BY <1>2, <3>1
    <3> QED BY <1>2, <3>2 DEF Orders
  <2>2. \A k \in 1..n : p[k] \in P
    BY <1>2
  <2> QED BY <1>6, <1>8, <2>1, <2>2 DEF Orders
<1>10. IsFiniteSet(1..n) /\ Cardinality(1..n) = n
  BY <1>3, FS_Interval
<1>11. PICK q : GoesThrough(q, n, 1..n, M) /\ Arranged(t, 1..n, M) = [k \in 1..n |-> t[q[k]]]
  <2> DEFINE all == 1..n
  <2>1. IsFiniteSet(all) /\ Cardinality(all) = n /\ Orders(M, all)
    BY <1>9, <1>10
  <2> HIDE DEF all
  <2>2. \E q : /\ GoesThrough(q, Cardinality(all), all, M)
               /\ Arranged(t, all, M) = [k \in 1..Cardinality(all) |-> t[q[k]]]
    BY <2>1, ArrangedExists
  <2>3. \E q : GoesThrough(q, n, all, M) /\ Arranged(t, all, M) = [k \in 1..n |-> t[q[k]]]
    BY <2>1, <2>2
  <2> QED BY <2>3 DEF all
<1>12. /\ q \in [1..n -> 1..n]
       /\ \A i \in 1..n : \E k \in 1..n : q[k] = i
       /\ \A k, l \in 1..n : k < l <=> <<q[k], q[l]>> \in M
  BY <1>11 DEF GoesThrough
<1> DEFINE r == [k \in 1..n |-> p[q[k]]]
<1>13. GoesThrough(r, n, P, O)
  <2>1. r \in [1..n -> P]
    BY <1>2, <1>12
  <2>2. ASSUME NEW i \in P PROVE \E k \in 1..n : r[k] = i
    <3>1. PICK l \in 1..n : p[l] = i
      BY <1>2
    <3>2. PICK k \in 1..n : q[k] = l
      BY <1>12
    <3> QED BY <3>1, <3>2
  <2>3. ASSUME NEW k \in 1..n, NEW l \in 1..n PROVE k < l <=> <<r[k], r[l]>> \in O
    BY <1>8, <1>12
  <2> HIDE DEF r
  <2> QED BY <2>1, <2>2, <2>3 DEF GoesThrough
<1>14. Arranged(s, P, O) = [k \in 1..n |-> s[r[k]]]
  <2> HIDE DEF r
  <2> QED BY <1>3, <1>13, ArrangedIs
<1>15. \A k \in 1..n : t[q[k]] = s[r[k]]
  BY <1>4, <1>12
<1>16. Arranged(t, 1..n, M) = Arranged(s, P, O)
  <2> HIDE DEF r
  <2> QED BY <1>11, <1>14, <1>15
<1> QED BY <1>4, <1>16 DEF O, M

\* What was arranged is a list of elements that were there.
LEMMA ArrangedTyped ==
  ASSUME NEW S, NEW list \in Seq(S), NEW P, P \subseteq DOMAIN list, NEW R, Orders(R, P)
  PROVE  /\ IsFiniteSet(P) /\ Cardinality(P) <= Len(list)
         /\ Arranged(list, P, R) \in Seq(S)
         /\ Len(Arranged(list, P, R)) = Cardinality(P)
         /\ \A k \in DOMAIN Arranged(list, P, R) : \E i \in P : Arranged(list, P, R)[k] = list[i]
<1> DEFINE n == Cardinality(P)
           t == Arranged(list, P, R)
<1>1. Len(list) \in Nat /\ DOMAIN list = 1..Len(list) /\ \A i \in DOMAIN list : list[i] \in S
  OBVIOUS
<1>2. IsFiniteSet(P) /\ n \in Nat /\ n <= Len(list)
  <2>1. ASSUME NEW m \in Nat PROVE IsFiniteSet(1..m) /\ Cardinality(1..m) = m
    BY FS_Interval
  <2>2. IsFiniteSet(DOMAIN list) /\ Cardinality(DOMAIN list) = Len(list)
    BY <1>1, <2>1
  <2> QED BY <2>2, FS_Subset, FS_CardinalityType
<1>3. PICK p : GoesThrough(p, n, P, R) /\ t = [k \in 1..n |-> list[p[k]]]
  BY <1>2, ArrangedExists
<1>4. p \in [1..n -> P]
  BY <1>3 DEF GoesThrough
<1> HIDE DEF t, n
<1>5. \A k \in 1..n : p[k] \in P /\ list[p[k]] \in S
  BY <1>1, <1>4
<1>6. t \in Seq(S) /\ Len(t) = n /\ DOMAIN t = 1..n
  BY <1>2, <1>3, <1>5
<1>7. \A k \in 1..n : \E i \in P : t[k] = list[i]
  BY <1>3, <1>5
<1> QED BY <1>2, <1>6, <1>7 DEF t, n

\* The order of a list orders its positions.
LEMMA InListOrders ==
  ASSUME NEW S, NEW list \in Seq(S), NEW P, P \subseteq DOMAIN list
  PROVE  Orders(InList(list), P)
<1>1. DOMAIN list \subseteq Nat
  OBVIOUS
<1>2. \A i, j \in P : <<i, j>> \in InList(list) <=> i < j
  BY DEF InList, Pairs
<1>3. P \subseteq Nat
  BY <1>1
<1> HIDE DEF InList
<1> QED BY <1>2, <1>3 DEF Orders

WithTitle == {event \in DraftEvent : ~Blank(event.title)}

Less == {a \in DraftEvent \X DraftEvent : a[1].sortOrder < a[2].sortOrder}

DrawnFirst == {a \in DraftEvent \X DraftEvent :
                 \/ a[1].sortOrder < a[2].sortOrder
                 \/ a[1].sortOrder = a[2].sortOrder /\ a[1].id < a[2].id}

\* Both comparisons are what a sort needs.
LEMMA Comparisons == Compares(Less, DraftEvent) /\ Compares(DrawnFirst, DraftEvent)
<1>1. \A x \in DraftEvent : x.sortOrder \in Nat /\ x.id \in Nat
  BY DEF DraftEvent
<1>2. \A x, y \in DraftEvent : <<x, y>> \in Less <=> x.sortOrder < y.sortOrder
  BY DEF Less
<1>3. \A x, y \in DraftEvent :
        <<x, y>> \in DrawnFirst <=> \/ x.sortOrder < y.sortOrder
                                    \/ x.sortOrder = y.sortOrder /\ x.id < y.id
  BY DEF DrawnFirst
<1>4. Compares(Less, DraftEvent)
  BY <1>1, <1>2 DEF Compares
<1>5. Compares(DrawnFirst, DraftEvent)
  BY <1>1, <1>3 DEF Compares
<1> QED BY <1>4, <1>5

\* A filter of events takes their positions.
LEMMA TitledIs ==
  ASSUME NEW events \in Seq(DraftEvent)
  PROVE  Titled(events) = Arranged(events, Chosen(events, DOMAIN events, WithTitle), InList(events))
<1>1. {i \in DOMAIN events : ~Blank(events[i].title)} = Chosen(events, DOMAIN events, WithTitle)
  BY DEF WithTitle, Chosen
<1>2. Titled(events) = Arranged(events, {i \in DOMAIN events : ~Blank(events[i].title)}, InList(events))
  BY DEF Titled, Filtered, InList
<1> QED BY <1>1, <1>2

\* A sort of events orders their positions.
LEMMA SortsAre ==
  ASSUME NEW events \in Seq(DraftEvent)
  PROVE  LET all == DOMAIN events
             by(L) == Arranged(events, all, SortOrder(events, all, InList(events), L))
         IN BySortOrder(events) = by(Less) /\ EventsInOrder(events) = by(DrawnFirst)
<1>1. \A a \in Pairs(events) : /\ events[a[1]] \in DraftEvent /\ events[a[2]] \in DraftEvent
                               /\ a[1] < a[2] <=> a \in InList(events)
  BY DEF Pairs, InList
<1> DEFINE first(x, y) == \/ x.sortOrder < y.sortOrder
                          \/ x.sortOrder = y.sortOrder /\ x.id < y.id
           A == {a \in Pairs(events) : \/ events[a[1]].sortOrder < events[a[2]].sortOrder
                                       \/ a[1] < a[2] /\ ~(events[a[2]].sortOrder < events[a[1]].sortOrder)}
           B == {a \in Pairs(events) : \/ first(events[a[1]], events[a[2]])
                                       \/ a[1] < a[2] /\ ~first(events[a[2]], events[a[1]])}
<1>2. A = SortOrder(events, DOMAIN events, InList(events), Less)
  <2>1. \A x, y \in DraftEvent : <<x, y>> \in Less <=> x.sortOrder < y.sortOrder
    BY DEF Less
  <2> QED BY <1>1, <2>1 DEF SortOrder, Pairs
<1>3. B = SortOrder(events, DOMAIN events, InList(events), DrawnFirst)
  <2>1. \A x, y \in DraftEvent : <<x, y>> \in DrawnFirst <=> first(x, y)
    BY DEF DrawnFirst
  <2> HIDE DEF first
  <2> QED BY <1>1, <2>1 DEF SortOrder, Pairs
<1>4. BySortOrder(events) = Arranged(events, DOMAIN events, A)
  BY DEF BySortOrder, Sorted
<1>5. EventsInOrder(events) = Arranged(events, DOMAIN events, B)
  BY DEF EventsInOrder, Sorted
<1> HIDE DEF A, B
<1> QED BY <1>2, <1>3, <1>4, <1>5

\* Nothing is left to filter out after a filter.
LEMMA EnabledOnce ==
  ASSUME NEW sections \in Seq(DraftSection)
  PROVE  Enabled(sections) \in Seq(DraftSection) /\ Enabled(Enabled(sections)) = Enabled(sections)
<1> DEFINE V == {section \in DraftSection : section.enabled}
           on == Chosen(sections, DOMAIN sections, V)
           t == Enabled(sections)
<1>1. \A list \in Seq(DraftSection) : Enabled(list) = Arranged(list, Chosen(list, DOMAIN list, V), InList(list))
  <2> SUFFICES ASSUME NEW list \in Seq(DraftSection)
               PROVE  Enabled(list) = Arranged(list, Chosen(list, DOMAIN list, V), InList(list))
    OBVIOUS
  <2>1. Enabled(list) = Arranged(list, {i \in DOMAIN list : list[i].enabled}, InList(list))
    BY DEF Enabled, Filtered, InList
  <2>2. \A i \in DOMAIN list : list[i] \in V <=> list[i].enabled
    OBVIOUS
  <2>3. {i \in DOMAIN list : list[i].enabled} = Chosen(list, DOMAIN list, V)
    BY <2>2 DEF Chosen
  <2> QED BY <2>1, <2>3
<1>2. on \subseteq DOMAIN sections /\ Orders(InList(sections), on)
  BY InListOrders DEF Chosen
<1>3. Chosen(sections, on, V) = on
  BY DEF Chosen
<1> HIDE DEF V, on, t
<1>4. t = Arranged(sections, on, InList(sections))
  BY <1>1 DEF t, on
<1>5. IsFiniteSet(on) /\ t \in Seq(DraftSection)
  BY <1>2, <1>4, ArrangedTyped
<1>6. Enabled(t) = Arranged(t, Chosen(t, DOMAIN t, V), InList(t))
  BY <1>1, <1>5
<1>7. Arranged(t, Chosen(t, DOMAIN t, V), InList(t)) = Arranged(sections, Chosen(sections, on, V), InList(sections))
  BY <1>2, <1>4, <1>5, ThenFiltered
<1> QED BY <1>3, <1>4, <1>5, <1>6, <1>7 DEF t

\* What is published is drawn in the order in which the preview draws it, however the sorts of the
\* two leave events that they do not tell apart.
LEMMA SameDrawing ==
  ASSUME NEW events \in Seq(DraftEvent)
  PROVE  /\ EventsInOrder(Titled(BySortOrder(events))) = EventsInOrder(Titled(events))
         /\ \A list \in {Titled(BySortOrder(events)), Titled(events)} :
              /\ list \in Seq(DraftEvent) /\ Len(list) <= Len(events)
              /\ \A k \in DOMAIN list : list[k] \in WithTitle /\ \E i \in DOMAIN events : list[k] = events[i]
<1> DEFINE all == DOMAIN events
           some == Chosen(events, all, WithTitle)
           N == InList(events)
           O == SortOrder(events, all, N, Less)
           sorted == BySortOrder(events)
           a == Titled(sorted)
           b == Titled(events)
<1>1. \A i \in all : events[i] \in DraftEvent
  OBVIOUS
<1>2. some \subseteq all /\ Orders(N, all) /\ Orders(N, some)
  BY InListOrders DEF Chosen
<1>3. Orders(O, all) /\ Orders(O, some)
  <2>1. Orders(O, all)
    <3> HIDE DEF N, all
    <3> QED BY <1>1, <1>2, Comparisons, SortOrders
  <2> HIDE DEF O, all, some
  <2> QED BY <1>2, <2>1 DEF Orders
<1>4. IsFiniteSet(all) /\ IsFiniteSet(some)
  <2>1. all \subseteq DOMAIN events /\ some \subseteq DOMAIN events
    BY <1>2
  <2> HIDE DEF all, some, N
  <2> QED BY <1>2, <2>1, ArrangedTyped
<1>5. sorted = Arranged(events, all, O)
  BY SortsAre
<1>6. sorted \in Seq(DraftEvent)
  <2>1. all \subseteq DOMAIN events
    OBVIOUS
  <2> HIDE DEF all, O, sorted
  <2> QED BY <1>3, <1>5, <2>1, ArrangedTyped
<1>7. a = Arranged(events, some, O)
  <2>1. a = Arranged(sorted, Chosen(sorted, DOMAIN sorted, WithTitle), InList(sorted))
    BY <1>6, TitledIs
  <2> HIDE DEF a, all, O, sorted
  <2> QED BY <1>3, <1>4, <1>5, <2>1, ThenFiltered
<1>8. b = Arranged(events, some, N)
  BY TitledIs
<1>9. \A list \in {a, b} :
        /\ list \in Seq(DraftEvent) /\ Len(list) <= Len(events)
        /\ \A k \in DOMAIN list : list[k] \in WithTitle /\ \E i \in DOMAIN events : list[k] = events[i]
  <2>1. some \subseteq DOMAIN events /\ \A i \in some : events[i] \in WithTitle
    BY DEF Chosen
  <2>2. ASSUME NEW R, Orders(R, some), NEW list, list = Arranged(events, some, R)
        PROVE  /\ list \in Seq(DraftEvent) /\ Len(list) <= Len(events)
               /\ \A k \in DOMAIN list :
                    list[k] \in WithTitle /\ \E i \in DOMAIN events : list[k] = events[i]
    <3> HIDE DEF some
    <3>1. /\ Cardinality(some) <= Len(events)
          /\ list \in Seq(DraftEvent) /\ Len(list) = Cardinality(some)
          /\ \A k \in DOMAIN list : \E i \in some : list[k] = events[i]
      BY <2>1, <2>2, ArrangedTyped
    <3> QED BY <2>1, <3>1
  <2> HIDE DEF a, b, O, N, some
  <2> QED BY <1>2, <1>3, <1>7, <1>8, <2>2
<1>10. ASSUME NEW R, Orders(R, some), NEW list \in Seq(DraftEvent), list = Arranged(events, some, R)
       PROVE  EventsInOrder(list) = Arranged(events, some, SortOrder(events, some, R, DrawnFirst))
  <2>1. EventsInOrder(list) = Arranged(list, DOMAIN list, SortOrder(list, DOMAIN list, InList(list), DrawnFirst))
    BY SortsAre
  <2>2. \A i \in some : events[i] \in DraftEvent
    BY <1>2
  <2> HIDE DEF some
  <2> QED BY <1>4, <1>10, <2>1, <2>2, Comparisons, ThenSorted
<1>11. SortOrder(events, some, O, DrawnFirst) = SortOrder(events, some, N, DrawnFirst)
  <2>1. ASSUME NEW i \in some, NEW j \in some,
               ~(<<events[i], events[j]>> \in DrawnFirst), ~(<<events[j], events[i]>> \in DrawnFirst)
        PROVE  <<i, j>> \in O <=> <<i, j>> \in N
    <3>1. events[i] \in DraftEvent /\ events[j] \in DraftEvent /\ i \in all /\ j \in all
      BY <1>2
    <3>2. ~(<<events[i], events[j]>> \in Less) /\ ~(<<events[j], events[i]>> \in Less)
      BY <2>1, <3>1 DEF Less, DrawnFirst
    <3> HIDE DEF N, all
    <3> QED BY <3>1, <3>2 DEF SortOrder
  <2>2. \A i, j \in some : \/ <<events[i], events[j]>> \in DrawnFirst
                           \/ <<events[j], events[i]>> \in DrawnFirst
                           \/ <<i, j>> \in O <=> <<i, j>> \in N
    BY <2>1
  <2> HIDE DEF N, O, some
  <2>3. \A p \in some \X some : \/ <<events[p[1]], events[p[2]]>> \in DrawnFirst
                                \/ <<events[p[2]], events[p[1]]>> \in DrawnFirst
                                \/ p \in O <=> p \in N
    BY <2>2
  <2> QED BY <2>3 DEF SortOrder
<1>12. EventsInOrder(a) = EventsInOrder(b)
  <2>1. a \in Seq(DraftEvent) /\ b \in Seq(DraftEvent)
    BY <1>9
  <2> HIDE DEF a, b, O, N, some
  <2> QED BY <1>2, <1>3, <1>7, <1>8, <1>10, <1>11, <2>1
<1> QED BY <1>9, <1>12

\* What is filled in already stays as it is.
LEMMA FilledAlready ==
  ASSUME NEW text \in Text, ~Blank(text), NEW placeholder
  PROVE  Filled(text, placeholder) = text
BY NullAssumption DEF Filled

(* ------------------- publishing what is on the screen ------------------ *)

\* A draft that can be published, with these sections and some of its events, all titled.
Showing(d, events, sections) ==
  [content |-> d.content, events |-> events, gallery |-> d.gallery, sections |-> sections]

\* Such a document has no gap for the schema of a publication to refuse, or for the preview to fill.
LEMMA NoGap ==
  ASSUME NEW d \in Document, ParseDraftDocument(d), CanPublish(d),
         NEW events \in Seq(DraftEvent), Len(events) <= Len(d.events),
         \A k \in DOMAIN events : events[k] \in WithTitle /\ \E i \in DOMAIN d.events : events[k] = d.events[i],
         NEW sections \in Seq(DraftSection)
  PROVE  /\ Showing(d, events, sections) # Refused
         /\ CreateSnapshot(Showing(d, events, sections)) = Showing(d, events, sections)
         /\ ToPreviewSnapshot(Showing(d, events, sections)) = Showing(d, events, sections)
<1> DEFINE p == Showing(d, events, sections)
<1>1. /\ p.content = d.content /\ p.events = events /\ p.gallery = d.gallery /\ p.sections = sections
      /\ p = [content |-> p.content, events |-> p.events, gallery |-> p.gallery, sections |-> p.sections]
  BY DEF Showing
<1>2. /\ d.content \in DraftContent /\ d.events \in Seq(DraftEvent) /\ d.gallery \in Seq(Nat)
  BY Parts
<1>3. p \in Document /\ p # Refused
  <2>1. p \in Document
    BY <1>2 DEF Document, Showing
  <2> QED BY <2>1, NullAssumption
<1> HIDE DEF p
<1>4. ParseDraftDocument(p)
  <2>1. \A k \in DOMAIN events : events[k].date # ""
    BY DEF ParseDraftDocument
  <2>2. Len(d.events) <= MaxEvents
    BY DEF ParseDraftDocument
  <2>3. MaxEvents \in Nat /\ Len(events) \in Nat /\ Len(d.events) \in Nat
    BY <1>2, LimitsAssumption
  <2>4. Len(events) <= MaxEvents
    BY <2>2, <2>3
  <2> QED BY <1>1, <2>1, <2>4 DEF ParseDraftDocument
<1>5. \A k \in DOMAIN events : ~Blank(events[k].title) /\ events[k].title \in Text
  BY DEF WithTitle, DraftEvent
<1>6. CreateSnapshot(p) = p
  BY <1>1, <1>4, <1>5 DEF CreateSnapshot, CanPublish
<1> DEFINE filled == [f \in Fields |-> IF f \in Names \cup {"weddingDate"}
                                      THEN Filled(p.content[f], "placeholder") ELSE p.content[f]]
           named  == [i \in DOMAIN p.events |-> Named(p.events[i])]
<1>7. filled = p.content
  <2>1. p.content \in [Fields -> Text \cup {Null}] /\ \A f \in Fields : p.content[f] \in Values(f)
    BY <1>1, <1>2 DEF DraftContent
  <2>2. ASSUME NEW f \in Fields, f \in Names \cup {"weddingDate"}
        PROVE  Filled(p.content[f], "placeholder") = p.content[f]
    <3>1. p.content[f] \in Text /\ ~Blank(p.content[f])
      <4>1. CASE f \in Names
        BY <1>1, <2>1, <4>1 DEF Values, CanPublish
      <4>2. CASE f = "weddingDate" /\ f \notin Names
        BY <1>1, <2>1, <4>2 DEF Values, CanPublish
      <4> QED BY <2>2, <4>1, <4>2
    <3> QED BY <3>1, FilledAlready
  <2> QED BY <2>1, <2>2
<1>8. named = p.events
  <2>1. ASSUME NEW i \in DOMAIN events
        PROVE  Named(events[i]) = events[i]
    <3>1. Filled(events[i].title, "placeholder") = events[i].title
      BY <1>5, FilledAlready
    <3>2. events[i] \in DraftEvent
      OBVIOUS
    <3> QED BY <3>1, <3>2 DEF Named, DraftEvent
  <2> QED BY <1>1, <2>1
<1>9. [p EXCEPT !.content = filled, !.events = named] = p
  <2> HIDE DEF filled, named
  <2> QED BY <1>1, <1>7, <1>8
<1>10. ToPreviewSnapshot(p) = CreateSnapshot([p EXCEPT !.content = filled, !.events = named])
  BY DEF ToPreviewSnapshot
<1> HIDE DEF filled, named
<1>11. ToPreviewSnapshot(p) = p
  BY <1>6, <1>9, <1>10
<1> QED BY <1>3, <1>6, <1>11 DEF p

\* What the readiness panel passes is published, and drawn as the preview draws it.
LEMMA Publishable ==
  ASSUME NEW d \in Document, ParseDraftDocument(d), CanPublish(d)
  PROVE  /\ ResolveDocument(d) # Refused
         /\ Drawn(ResolveDocument(d)) = Drawn(ToPreviewSnapshot([d EXCEPT !.events = Titled(@)]))
<1> DEFINE a == Titled(BySortOrder(d.events))
           b == Titled(d.events)
           on == Enabled(d.sections)
           p == Showing(d, a, on)
           x == Showing(d, b, d.sections)
<1>1. /\ d = [content |-> d.content, events |-> d.events, gallery |-> d.gallery, sections |-> d.sections]
      /\ d.events \in Seq(DraftEvent) /\ d.sections \in Seq(DraftSection)
  BY Parts
<1>2. /\ EventsInOrder(a) = EventsInOrder(b)
      /\ \A list \in {a, b} :
           /\ list \in Seq(DraftEvent) /\ Len(list) <= Len(d.events)
           /\ \A k \in DOMAIN list : list[k] \in WithTitle /\ \E i \in DOMAIN d.events : list[k] = d.events[i]
  BY <1>1, SameDrawing
<1>3. on \in Seq(DraftSection) /\ Enabled(on) = on
  BY <1>1, EnabledOnce
<1>4. ResolveDocument(d) = CreateSnapshot([d EXCEPT !.sections = on, !.events = a])
  BY DEF ResolveDocument
<1> HIDE DEF a, b, on
<1>5. /\ [d EXCEPT !.sections = on, !.events = a] = p
      /\ [d EXCEPT !.events = b] = x
  <2> DEFINE q == [d EXCEPT !.sections = on]
  <2>1. [d EXCEPT !.sections = on, !.events = a] = [q EXCEPT !.events = a]
    OBVIOUS
  <2>2. q = Showing(d, d.events, on)
    BY <1>1 DEF Showing
  <2> HIDE DEF q
  <2>3. /\ q = [content |-> q.content, events |-> q.events, gallery |-> q.gallery,
               sections |-> q.sections]
        /\ q.content = d.content /\ q.gallery = d.gallery /\ q.sections = on
    BY <2>2 DEF Showing
  <2>4. [q EXCEPT !.events = a] = p
    BY <2>3 DEF Showing
  <2>5. [d EXCEPT !.events = b] = x
    BY <1>1 DEF Showing
  <2> QED BY <2>1, <2>4, <2>5
<1>6. [d EXCEPT !.events = Titled(@)] = x
  BY <1>5 DEF b
<1>7. p # Refused /\ CreateSnapshot(p) = p
  BY <1>2, <1>3, NoGap
<1>8. ToPreviewSnapshot(x) = x
  BY <1>1, <1>2, NoGap
<1>9. Drawn(p) = Drawn(x)
  <2> DEFINE e == EventsInOrder(b)
             s == SectionsInOrder(on)
  <2>1. Drawn(p) = [p EXCEPT !.sections = SectionsInOrder(Enabled(on)), !.events = EventsInOrder(a)]
    BY DEF Drawn, Showing
  <2>2. Drawn(x) = [x EXCEPT !.sections = SectionsInOrder(Enabled(d.sections)), !.events = EventsInOrder(b)]
    BY DEF Drawn, Showing
  <2>3. /\ Drawn(p) = [p EXCEPT !.sections = s, !.events = e]
        /\ Drawn(x) = [x EXCEPT !.sections = s, !.events = e]
    BY <1>2, <1>3, <2>1, <2>2 DEF on
  <2> HIDE DEF e, s
  <2>4. /\ Drawn(p) = [content |-> d.content, events |-> e, gallery |-> d.gallery, sections |-> s]
        /\ Drawn(x) = [content |-> d.content, events |-> e, gallery |-> d.gallery, sections |-> s]
    BY <2>3 DEF Showing
  <2> QED BY <2>4
<1> QED BY <1>4, <1>5, <1>6, <1>7, <1>8, <1>9

(* ------------------------------ the engine ----------------------------- *)

\* An entry of the history.
Entry == [forward : Seq(UserOperation), backward : Seq(Operation), before : Document, after : Document]

\* What conflictDetail may hold.
Prompts == [document : Document, version : Nat] \cup {NoPrompt}

\* The engine, its history and the document on the screen.
Tab == [document : Document, base : Document, version : Nat,
        pending : Seq(Operation), inFlight : Seq(Operation), saving : BOOLEAN,
        prompt : Prompts, shown : Document \cup {Null},
        undo : Seq(Entry), redo : Seq(Entry), moved : BOOLEAN, astray : BOOLEAN]

\* QueueRebuildsDocument, of any state of the engine.
Rebuilds(t) == ~t.astray => ApplyPatch(t.base, Queued(t)) = t.document

\* What parses is shown, and what is shown parses.
OnScreen(t) ==
  /\ ParseDraftDocument(t.document) => t.shown = t.document
  /\ t.shown # Null => ParseDraftDocument(t.shown)

\* An entry leads from its document to what it made of it, and back.
Reversible(entry) ==
  /\ ApplyPatch(entry.before, entry.forward) = entry.after
  /\ ApplyPatch(entry.after, entry.backward) = entry.before

\* Each edit that can be undone leads to where the next begins, the last one to the document;
\* each that can be redone begins where the one before it ends, the next one at the document.
Chained(undo, redo, document) ==
  /\ \A i \in DOMAIN undo : undo[i].after = IF i = Len(undo) THEN document ELSE undo[i + 1].before
  /\ \A i \in DOMAIN redo : redo[i].before = IF i = Len(redo) THEN document ELSE redo[i + 1].after

Remembers(t) ==
  /\ \A i \in DOMAIN t.undo : Reversible(t.undo[i])
  /\ \A i \in DOMAIN t.redo : Reversible(t.redo[i])
  /\ ~t.moved => Chained(t.undo, t.redo, t.document)

\* All of it.
Sound(t) == t \in Tab /\ Rebuilds(t) /\ OnScreen(t) /\ Remembers(t)

\* What an edit leaves as it was.
Steady(t, u) ==
  /\ u.base = t.base /\ u.version = t.version /\ u.inFlight = t.inFlight /\ u.saving = t.saving
  /\ u.astray = t.astray /\ u.moved = t.moved /\ u.prompt \in {t.prompt, NoPrompt}

\* What Append returns.
LEMMA AppendFacts ==
  ASSUME NEW S, NEW s \in Seq(S), NEW e \in S
  PROVE  LET r == Append(s, e) IN
         /\ r \in Seq(S) /\ Len(r) = Len(s) + 1 /\ DOMAIN r = 1..(Len(s) + 1) /\ r # <<>>
         /\ \A i \in 1..(Len(s) + 1) : r[i] = IF i = Len(s) + 1 THEN e ELSE s[i]
         /\ Last(r) = e
<1> DEFINE r == Append(s, e)
<1>1. r \in Seq(S) /\ Len(r) = Len(s) + 1 /\ r[Len(s) + 1] = e /\ \A i \in 1..Len(s) : r[i] = s[i]
  OBVIOUS
<1>2. Len(s) \in Nat
  OBVIOUS
<1> HIDE DEF r
<1>3. DOMAIN r = 1..(Len(s) + 1) /\ r # <<>> /\ Last(r) = e
  BY <1>1, <1>2 DEF Last
<1>4. \A i \in 1..(Len(s) + 1) : r[i] = IF i = Len(s) + 1 THEN e ELSE s[i]
  BY <1>1, <1>2
<1> QED BY <1>1, <1>3, <1>4 DEF r

\* What Front and Last return.
LEMMA FrontFacts ==
  ASSUME NEW S, NEW s \in Seq(S), s # <<>>
  PROVE  /\ Front(s) \in Seq(S) /\ Len(Front(s)) = Len(s) - 1 /\ DOMAIN Front(s) = 1..(Len(s) - 1)
         /\ \A i \in 1..(Len(s) - 1) : Front(s)[i] = s[i]
         /\ Len(s) \in Nat \ {0} /\ Last(s) \in S /\ Last(s) = s[Len(s)]
<1> DEFINE r == Front(s)
<1>1. Len(s) \in Nat \ {0}
  OBVIOUS
<1>2. r \in Seq(S) /\ Len(r) = Len(s) - 1 /\ \A i \in 1..(Len(s) - 1) : r[i] = s[i]
  <2> DEFINE n == Len(s) - 1
             u == SubSeq(s, 1, n)
  <2>1. n \in Nat /\ \A i \in 1..n : i \in 1..Len(s)
    BY <1>1
  <2>2. \A i \in 1..n : s[i] \in S
    BY <2>1
  <2>3. u \in Seq(S) /\ Len(u) = n /\ \A i \in 1..n : u[i] = s[i]
    <3> HIDE DEF n
    <3> QED BY <2>1, <2>2
  <2>4. r = u
    BY DEF Front
  <2> QED BY <2>3, <2>4
<1>3. Last(s) = s[Len(s)] /\ s[Len(s)] \in S
  BY <1>1 DEF Last
<1> HIDE DEF r
<1>4. DOMAIN r = 1..(Len(s) - 1)
  BY <1>2
<1> QED BY <1>1, <1>2, <1>3, <1>4 DEF r

\* What Tail and Head return.
LEMMA TailFacts ==
  ASSUME NEW S, NEW s \in Seq(S), s # <<>>
  PROVE  /\ Tail(s) \in Seq(S) /\ Len(Tail(s)) = Len(s) - 1 /\ DOMAIN Tail(s) = 1..(Len(s) - 1)
         /\ \A i \in 1..(Len(s) - 1) : Tail(s)[i] = s[i + 1]
         /\ Len(s) \in Nat \ {0} /\ Head(s) \in S /\ Head(s) = s[1]
<1> DEFINE r == Tail(s)
<1>1. r \in Seq(S) /\ Len(r) = Len(s) - 1 /\ \A i \in 1..Len(r) : r[i] = s[i + 1]
  BY HeadTailProperties
<1>2. Len(s) \in Nat \ {0} /\ Head(s) \in S /\ Head(s) = s[1]
  OBVIOUS
<1> HIDE DEF r
<1>3. DOMAIN r = 1..(Len(s) - 1)
  BY <1>1, <1>2
<1>4. \A i \in 1..(Len(s) - 1) : r[i] = s[i + 1]
  BY <1>1
<1> QED BY <1>1, <1>2, <1>3, <1>4 DEF r

\* A document is neither a refusal nor null.
LEMMA NotRefused == \A d \in Document : d # Refused /\ d # Null
BY NullAssumption

\* An engine just opened is sound.
LEMMA OpenedSound ==
  ASSUME NEW d \in Document, NEW version \in Nat
  PROVE  Sound(Opened(d, version))
<1> DEFINE t == Opened(d, version)
<1>1. t \in Tab
  BY DEF Opened, Tab, Prompts, Shown
<1>2. Rebuilds(t)
  <2>1. t.base = d /\ t.document = d /\ t.inFlight \o t.pending = <<>>
    BY DEF Opened
  <2> QED BY <2>1, ApplyNothing DEF Rebuilds, Queued
<1>3. OnScreen(t)
  BY DEF Opened, OnScreen, Shown
<1>4. Remembers(t)
  BY DEF Opened, Remembers, Chained
<1> QED BY <1>1, <1>2, <1>3, <1>4 DEF Sound

\* An edit, by the user or by an undo, of whatever operations fit the document.
LEMMA EditedFacts ==
  ASSUME NEW t \in Tab, Rebuilds(t), OnScreen(t), NEW q \in Seq(Operation)
  PROVE  LET u == Edited(t, q) IN
         /\ u \in Tab /\ Rebuilds(u) /\ OnScreen(u) /\ Steady(t, u)
         /\ u.undo = t.undo /\ u.redo = t.redo
         /\ u.document = IF ApplyPatch(t.document, q) = Refused THEN t.document
                         ELSE ApplyPatch(t.document, q)
         /\ t.shown # Null => u.shown # Null
<1> DEFINE u == Edited(t, q)
           e == ApplyPatch(t.document, q)
           more == Coalesce(t.pending \o q)
<1>1. CASE e = Refused
  <2>1. u = t
    BY <1>1 DEF Edited
  <2> QED BY <1>1, <2>1 DEF Steady
<1>2. CASE e # Refused
  <2>1. e \in Document
    <3>1. t.document \in Document
      BY DEF Tab
    <3> QED BY <1>2, <3>1, StepsTyped
  <2>2. /\ t.base \in Document /\ t.pending \in Seq(Operation) /\ t.inFlight \in Seq(Operation)
        /\ t.pending \o q \in Seq(Operation)
    BY DEF Tab
  <2>3. more \in Seq(Operation)
    BY <2>2, CoalescingKeepsTheEdits
  <2>4. u = [t EXCEPT !.document = e, !.pending = more, !.shown = Shown(e, t.shown), !.prompt = NoPrompt]
    BY <1>2 DEF Edited
  <2> HIDE DEF u, e, more
  <2>5. Shown(e, t.shown) \in Document \cup {Null} /\ (t.shown # Null => Shown(e, t.shown) # Null)
    BY <2>1, NotRefused DEF Shown, Tab
  <2>6. u \in Tab
    BY <2>1, <2>3, <2>4, <2>5 DEF Tab, Prompts
  <2>7. /\ u.document = e /\ u.pending = more /\ u.shown = Shown(e, t.shown) /\ u.prompt = NoPrompt
        /\ u.base = t.base /\ u.version = t.version /\ u.inFlight = t.inFlight /\ u.saving = t.saving
        /\ u.astray = t.astray /\ u.moved = t.moved /\ u.undo = t.undo /\ u.redo = t.redo
    BY <2>4 DEF Tab
  <2>8. OnScreen(u)
    BY <2>7 DEF OnScreen, Shown
  <2>9. Rebuilds(u)
    <3> SUFFICES ASSUME ~t.astray PROVE ApplyPatch(t.base, t.inFlight \o more) = e
      BY <2>7 DEF Rebuilds, Queued
    <3> DEFINE x == ApplyPatch(t.base, t.inFlight)
    <3>1. ApplyPatch(t.base, t.inFlight \o t.pending) = t.document /\ t.document \in Document
      BY DEF Rebuilds, Queued, Tab
    <3>2. x # Refused /\ ApplyPatch(x, t.pending) = t.document
      BY <2>2, <3>1, ApplyConcat, NotRefused
    <3>3. x \in Document
      BY <2>2, <3>2, StepsTyped
    <3> HIDE DEF x
    <3>4. ApplyPatch(x, t.pending \o q) = e
      BY <1>2, <2>2, <3>1, <3>2, ApplyConcat, NotRefused DEF e
    <3>5. ApplyPatch(x, more) = e
      BY <1>2, <2>2, <3>3, <3>4, CoalescingKeepsTheEdits DEF more
    <3>6. ApplyPatch(t.base, t.inFlight \o more) = IF x = Refused THEN Refused ELSE ApplyPatch(x, more)
      BY <2>2, <2>3, ApplyConcat DEF x
    <3> QED BY <3>2, <3>5, <3>6
  <2> QED BY <1>2, <2>5, <2>6, <2>7, <2>8, <2>9 DEF Steady, e, u
<1> QED BY <1>1, <1>2

\* An edit of the user keeps the engine sound: its entry leads there and back, and starts where the one before it ends.
LEMMA EditedByUserSound ==
  ASSUME NEW t, Sound(t), NEW q \in Seq(UserOperation)
  PROVE  LET u == EditedByUser(t, q) IN
         Sound(u) /\ Steady(t, u) /\ (t.shown # Null => u.shown # Null)
<1> DEFINE u == EditedByUser(t, q)
           e == ApplyPatch(t.document, q)
           w == Edited(t, q)
<1>1. CASE e = Refused
  BY <1>1 DEF EditedByUser, Steady
<1>2. CASE e # Refused
  <2>1. q \in Seq(Operation)
    BY OperationsInclude, SeqMonotonic
  <2>2. t \in Tab /\ Rebuilds(t) /\ OnScreen(t) /\ Remembers(t)
    BY DEF Sound
  <2>3. /\ w \in Tab /\ Rebuilds(w) /\ OnScreen(w) /\ Steady(t, w)
        /\ w.undo = t.undo /\ w.redo = t.redo /\ w.document = e /\ (t.shown # Null => w.shown # Null)
    BY <1>2, <2>1, <2>2, EditedFacts
  <2> DEFINE back == Invert(q, t.document)
             entry == [forward |-> q, backward |-> back, before |-> t.document, after |-> w.document]
             longer == Append(t.undo, entry)
             undo == IF Len(longer) > MaxHistory THEN Tail(longer) ELSE longer
  <2>4. t.document \in Document /\ e \in Document
    BY <2>2, <2>3 DEF Tab
  <2>5. back \in Seq(Operation) /\ ApplyPatch(e, back) = t.document
    BY <1>2, <2>4, InvertTakesBack
  <2>6. u = [w EXCEPT !.undo = undo, !.redo = <<>>]
    <3>1. [before |-> t.document].before = t.document
      OBVIOUS
    <3>2. u = Recorded(t, q, w)
      BY <1>2 DEF EditedByUser
    <3> HIDE DEF w, u
    <3> QED BY <3>2 DEF Recorded
  <2> HIDE DEF w, e, back, u
  <2>7. entry \in Entry /\ Reversible(entry) /\ entry.before = t.document /\ entry.after = w.document
    BY <2>3, <2>4, <2>5 DEF Entry, Reversible, e
  <2> HIDE DEF entry
  <2>8. t.undo \in Seq(Entry) /\ Len(t.undo) \in Nat
    BY <2>2 DEF Tab
  <2>9. /\ longer \in Seq(Entry) /\ Len(longer) = Len(t.undo) + 1 /\ DOMAIN longer = 1..(Len(t.undo) + 1)
        /\ longer # <<>>
        /\ \A i \in 1..(Len(t.undo) + 1) : longer[i] = IF i = Len(t.undo) + 1 THEN entry ELSE t.undo[i]
    BY <2>7, <2>8, AppendFacts
  <2>10. \A i \in DOMAIN longer : Reversible(longer[i])
    <3> SUFFICES ASSUME NEW i \in DOMAIN longer PROVE Reversible(longer[i])
      OBVIOUS
    <3>1. CASE i = Len(t.undo) + 1
      BY <2>7, <2>9, <3>1
    <3>2. CASE i # Len(t.undo) + 1
      <4>1. i \in DOMAIN t.undo
        BY <2>8, <2>9, <3>2
      <4> QED BY <2>2, <2>9, <3>2, <4>1 DEF Remembers
    <3> QED BY <3>1, <3>2
  <2>11. ~t.moved => \A i \in DOMAIN longer :
           longer[i].after = IF i = Len(longer) THEN w.document ELSE longer[i + 1].before
    <3> SUFFICES ASSUME ~t.moved, NEW i \in DOMAIN longer
                 PROVE  longer[i].after = IF i = Len(longer) THEN w.document ELSE longer[i + 1].before
      OBVIOUS
    <3>1. CASE i = Len(t.undo) + 1
      BY <2>7, <2>9, <3>1
    <3>2. CASE i # Len(t.undo) + 1
      <4>1. i \in DOMAIN t.undo /\ i \in 1..Len(t.undo) /\ i + 1 \in 1..(Len(t.undo) + 1)
        BY <2>8, <2>9, <3>2
      <4>2. t.undo[i].after = IF i = Len(t.undo) THEN t.document ELSE t.undo[i + 1].before
        BY <2>2, <4>1 DEF Remembers, Chained
      <4>3. CASE i = Len(t.undo)
        BY <2>7, <2>8, <2>9, <3>2, <4>1, <4>2, <4>3
      <4>4. CASE i # Len(t.undo)
        <5>1. i + 1 # Len(t.undo) + 1 /\ i # Len(longer)
          BY <2>8, <2>9, <4>1, <4>4
        <5> QED BY <2>9, <3>2, <4>1, <4>2, <4>4, <5>1
      <4> QED BY <4>3, <4>4
    <3> QED BY <3>1, <3>2
  <2> HIDE DEF longer
  <2>12. /\ undo \in Seq(Entry) /\ \A i \in DOMAIN undo : Reversible(undo[i])
         /\ ~t.moved => \A i \in DOMAIN undo :
              undo[i].after = IF i = Len(undo) THEN w.document ELSE undo[i + 1].before
    <3>1. CASE undo = longer
      BY <2>9, <2>10, <2>11, <3>1
    <3>2. CASE undo = Tail(longer)
      <4>1. /\ undo \in Seq(Entry) /\ Len(undo) = Len(t.undo) /\ DOMAIN undo = 1..Len(t.undo)
            /\ \A i \in 1..Len(t.undo) : undo[i] = longer[i + 1] /\ i + 1 \in DOMAIN longer
        <5>1. Tail(longer) \in Seq(Entry) /\ Len(Tail(longer)) = Len(longer) - 1
            /\ DOMAIN Tail(longer) = 1..(Len(longer) - 1)
            /\ \A i \in 1..(Len(longer) - 1) : Tail(longer)[i] = longer[i + 1]
      BY <2>9, TailFacts
    <5>2. Len(longer) - 1 = Len(t.undo) /\ \A i \in 1..Len(t.undo) : i + 1 \in DOMAIN longer
      BY <2>8, <2>9
    <5> QED BY <3>2, <5>1, <5>2
      <4>2. \A i \in 1..Len(t.undo) : /\ i + 1 = Len(longer) <=> i = Len(undo)
                                      /\ i # Len(undo) => i + 1 \in 1..Len(t.undo)
        BY <2>8, <2>9, <4>1
      <4> HIDE DEF undo
      <4>3. \A i \in DOMAIN undo : Reversible(undo[i])
        BY <2>10, <4>1
      <4>4. ASSUME ~t.moved, NEW i \in DOMAIN undo
            PROVE  undo[i].after = IF i = Len(undo) THEN w.document ELSE undo[i + 1].before
        <5>1. longer[i + 1].after = IF i + 1 = Len(longer) THEN w.document ELSE longer[(i + 1) + 1].before
          BY <2>11, <4>1, <4>4
        <5>2. CASE i = Len(undo)
          BY <4>1, <4>2, <5>1, <5>2
        <5>3. CASE i # Len(undo)
          BY <4>1, <4>2, <5>1, <5>3
        <5> QED BY <5>2, <5>3
      <4> QED BY <4>1, <4>3, <4>4
    <3> QED BY <3>1, <3>2
  <2> HIDE DEF undo
  <2>13. u \in Tab
    <3>1. <<>> \in Seq(Entry)
      OBVIOUS
    <3> QED BY <2>3, <2>6, <2>12, <3>1 DEF Tab
  <2>14. /\ u.undo = undo /\ u.redo = <<>> /\ u.document = w.document /\ u.base = w.base
         /\ u.version = w.version /\ u.pending = w.pending /\ u.inFlight = w.inFlight
         /\ u.saving = w.saving /\ u.prompt = w.prompt /\ u.shown = w.shown
         /\ u.moved = w.moved /\ u.astray = w.astray
    BY <2>3, <2>6 DEF Tab
  <2>15. Rebuilds(u) /\ OnScreen(u)
    BY <2>3, <2>14 DEF Rebuilds, OnScreen, Queued
  <2>16. Remembers(u)
    <3>1. w.moved = t.moved
      BY <2>3 DEF Steady
    <3> QED BY <2>12, <2>14, <3>1 DEF Remembers, Chained
  <2>17. Steady(t, u) /\ (t.shown # Null => u.shown # Null)
    BY <2>3, <2>14 DEF Steady
  <2> QED BY <2>13, <2>15, <2>16, <2>17 DEF Sound, u
<1> QED BY <1>1, <1>2

\* f is the function of which Performed takes the last value.
Performing(t, edits, n, f) ==
  f = [k \in 0..n |-> IF k = 0 THEN t ELSE EditedByUser(f[k - 1], edits[k])]

\* The edits of one action come to an end.
LEMMA PerformingExists == \A t, edits : \A n \in Nat : \E f : Performing(t, edits, n, f)
<1> SUFFICES ASSUME NEW t, NEW edits PROVE \A n \in Nat : \E f : Performing(t, edits, n, f)
  OBVIOUS
<1> DEFINE T == {n \in Nat : \E f : Performing(t, edits, n, f)}
<1>1. 0 \in T
  <2> DEFINE f == [k \in 0..0 |-> t]
  <2>1. Performing(t, edits, 0, f)
    BY DEF Performing
  <2> QED BY <2>1
<1>2. ASSUME NEW n \in T PROVE n + 1 \in T
  <2>1. PICK f : Performing(t, edits, n, f)
    OBVIOUS
  <2> DEFINE last == EditedByUser(f[n], edits[n + 1])
             g == [k \in 0..(n + 1) |-> IF k = n + 1 THEN last ELSE f[k]]
  <2>2. \A k \in 0..(n + 1) : g[k] = IF k = 0 THEN t ELSE EditedByUser(g[k - 1], edits[k])
    <3> TAKE k \in 0..(n + 1)
    <3>1. CASE k = n + 1
      BY <3>1
    <3>2. CASE k # n + 1
      <4>1. k \in 0..n /\ (k # 0 => k - 1 \in 0..n)
        BY <3>2
      <4>2. f[k] = IF k = 0 THEN t ELSE EditedByUser(f[k - 1], edits[k])
        BY <2>1, <4>1 DEF Performing
      <4> QED BY <4>1, <4>2
    <3> QED BY <3>1, <3>2
  <2>3. Performing(t, edits, n + 1, g)
    BY <2>2 DEF Performing
  <2> QED BY <2>3
<1>3. \A n \in Nat : n \in T
  BY <1>1, <1>2, FromZero
<1> QED BY <1>3

\* ... and keep the engine sound.
LEMMA PerformedSound ==
  ASSUME NEW t, Sound(t), NEW batches \in Batches
  PROVE  LET u == Performed(t, batches) IN
         Sound(u) /\ Steady(t, u) /\ (t.shown # Null => u.shown # Null)
<1> DEFINE n == Len(batches)
           f == CHOOSE f : Performing(t, batches, n, f)
           Fine(u) == Sound(u) /\ Steady(t, u) /\ (t.shown # Null => u.shown # Null)
           T == {k \in Nat : k <= n => Fine(f[k])}
<1>1. n \in Nat /\ \A k \in 1..n : batches[k] \in Seq(UserOperation)
  BY DEF Batches
<1>2. Performing(t, batches, n, f)
  BY <1>1, PerformingExists
<1>3. Performed(t, batches) = f[n]
  BY DEF Performed, Performing
<1> HIDE DEF f
<1>4. f[0] = t
  BY <1>1, <1>2 DEF Performing
<1>5. 0 \in T
  BY <1>4 DEF Steady
<1>6. ASSUME NEW k \in T PROVE k + 1 \in T
  <2> SUFFICES ASSUME k + 1 <= n PROVE Fine(f[k + 1])
    OBVIOUS
  <2>1. Fine(f[k]) /\ batches[k + 1] \in Seq(UserOperation)
    BY <1>1
  <2>2. f[k + 1] = EditedByUser(f[k], batches[k + 1])
    <3>1. k + 1 \in 0..n /\ k + 1 # 0 /\ (k + 1) - 1 = k
      BY <1>1
    <3> QED BY <1>2, <3>1 DEF Performing
  <2>3. /\ Sound(f[k + 1]) /\ Steady(f[k], f[k + 1])
        /\ f[k].shown # Null => f[k + 1].shown # Null
    BY <2>1, <2>2, EditedByUserSound
  <2>4. Steady(t, f[k + 1])
    BY <2>1, <2>3 DEF Steady
  <2> QED BY <2>1, <2>3, <2>4
<1>7. \A k \in Nat : k \in T
  <2>1. T \in SUBSET Nat
    OBVIOUS
  <2> HIDE DEF T
  <2> QED BY <1>5, <1>6, <2>1, FromZero
<1> QED BY <1>1, <1>3, <1>7

\* An undo keeps the engine sound, and gives the document of before its edit back.
LEMMA UndoneSound ==
  ASSUME NEW t, Sound(t), t.undo # <<>>
  PROVE  LET entry == Last(t.undo)
             u == [Edited(t, entry.backward) EXCEPT !.undo = Front(@), !.redo = Append(@, entry)]
         IN /\ Sound(u) /\ Steady(t, u) /\ (t.shown # Null => u.shown # Null)
            /\ ~t.moved => u.document = entry.before
<1> DEFINE entry == Last(t.undo)
           w == Edited(t, entry.backward)
           m == Len(t.undo)
           n == Len(t.redo)
           undo == Front(t.undo)
           redo == Append(t.redo, entry)
           u == [Edited(t, entry.backward) EXCEPT !.undo = Front(@), !.redo = Append(@, entry)]
<1>1. t \in Tab /\ Rebuilds(t) /\ OnScreen(t) /\ Remembers(t)
  BY DEF Sound
<1>2. t.undo \in Seq(Entry) /\ t.redo \in Seq(Entry) /\ n \in Nat
  BY <1>1 DEF Tab
<1>3. /\ undo \in Seq(Entry) /\ Len(undo) = m - 1 /\ DOMAIN undo = 1..(m - 1) /\ m \in Nat \ {0}
      /\ \A i \in 1..(m - 1) : undo[i] = t.undo[i]
      /\ entry \in Entry /\ entry = t.undo[m]
  BY <1>2, FrontFacts
<1>4. Reversible(entry)
  <2>1. m \in DOMAIN t.undo
    BY <1>2, <1>3
  <2> QED BY <1>1, <1>3, <2>1 DEF Remembers
<1> HIDE DEF entry
<1>5. /\ redo \in Seq(Entry) /\ Len(redo) = n + 1 /\ DOMAIN redo = 1..(n + 1)
      /\ \A i \in 1..(n + 1) : redo[i] = IF i = n + 1 THEN entry ELSE t.redo[i]
  BY <1>2, <1>3, AppendFacts
<1>6. entry.backward \in Seq(Operation) /\ entry.before \in Document
  BY <1>3 DEF Entry
<1>7. /\ w \in Tab /\ Rebuilds(w) /\ OnScreen(w) /\ Steady(t, w) /\ w.undo = t.undo /\ w.redo = t.redo
      /\ w.document = IF ApplyPatch(t.document, entry.backward) = Refused THEN t.document
                      ELSE ApplyPatch(t.document, entry.backward)
      /\ t.shown # Null => w.shown # Null
  BY <1>1, <1>6, EditedFacts
<1>8. u = [w EXCEPT !.undo = undo, !.redo = redo]
  BY <1>7
<1> HIDE DEF u, w, undo, redo
<1>9. u \in Tab
  BY <1>3, <1>5, <1>7, <1>8 DEF Tab
<1>10. /\ u.undo = undo /\ u.redo = redo /\ u.document = w.document /\ u.base = w.base
       /\ u.version = w.version /\ u.pending = w.pending /\ u.inFlight = w.inFlight
       /\ u.saving = w.saving /\ u.prompt = w.prompt /\ u.shown = w.shown
       /\ u.moved = w.moved /\ u.astray = w.astray
  BY <1>7, <1>8 DEF Tab
<1>11. Rebuilds(u) /\ OnScreen(u) /\ Steady(t, u) /\ (t.shown # Null => u.shown # Null)
  BY <1>7, <1>10 DEF Rebuilds, OnScreen, Queued, Steady
<1>12. ASSUME ~t.moved PROVE u.document = entry.before /\ Chained(undo, redo, entry.before)
  <2>1. Chained(t.undo, t.redo, t.document)
    BY <1>1, <1>12 DEF Remembers
  <2>2. m \in DOMAIN t.undo
    BY <1>2, <1>3
  <2>3. entry.after = t.document
    BY <1>3, <2>1, <2>2 DEF Chained
  <2>4. ApplyPatch(t.document, entry.backward) = entry.before /\ entry.before # Refused
    BY <1>4, <1>6, <2>3, NotRefused DEF Reversible
  <2>5. ASSUME NEW i \in DOMAIN undo
        PROVE  undo[i].after = IF i = Len(undo) THEN entry.before ELSE undo[i + 1].before
    <3>1. i \in DOMAIN t.undo /\ i # m /\ i \in 1..(m - 1) /\ i \in Int
      BY <1>2, <1>3
    <3>2. t.undo[i].after = t.undo[i + 1].before /\ undo[i] = t.undo[i]
      BY <1>3, <2>1, <3>1 DEF Chained
    <3>3. CASE i = m - 1
      <4>1. i + 1 = m
        BY <1>3, <3>3
      <4> QED BY <1>3, <3>2, <3>3, <4>1
    <3>4. CASE i # m - 1
      <4>1. i + 1 \in 1..(m - 1)
        BY <1>3, <3>1, <3>4
      <4> QED BY <1>3, <3>2, <3>4, <4>1
    <3> QED BY <3>3, <3>4
  <2>6. ASSUME NEW i \in DOMAIN redo
        PROVE  redo[i].before = IF i = Len(redo) THEN entry.before ELSE redo[i + 1].after
    <3>1. CASE i = n + 1
      BY <1>5, <3>1
    <3>2. CASE i # n + 1
      <4>1. i \in DOMAIN t.redo /\ i \in 1..n /\ i + 1 \in 1..(n + 1) /\ i \in 1..(n + 1)
        BY <1>2, <1>5, <3>2
      <4>2. t.redo[i].before = IF i = n THEN t.document ELSE t.redo[i + 1].after
        BY <2>1, <4>1 DEF Chained
      <4>3. CASE i = n
        <5>1. i + 1 = n + 1
          BY <4>3
        <5> QED BY <1>5, <2>3, <3>2, <4>1, <4>2, <4>3, <5>1
      <4>4. CASE i # n
        <5>1. i + 1 # n + 1
          BY <1>2, <4>1, <4>4
        <5> QED BY <1>5, <3>2, <4>1, <4>2, <4>4, <5>1
      <4> QED BY <4>3, <4>4
    <3> QED BY <3>1, <3>2
  <2> QED BY <1>7, <1>10, <2>4, <2>5, <2>6 DEF Chained
<1>13. Remembers(u)
  <2>1. \A i \in DOMAIN undo : Reversible(undo[i])
    <3>1. \A i \in DOMAIN undo : i \in DOMAIN t.undo /\ undo[i] = t.undo[i]
      BY <1>2, <1>3
    <3> QED BY <1>1, <3>1 DEF Remembers
  <2>2. \A i \in DOMAIN redo : Reversible(redo[i])
    <3>1. \A i \in DOMAIN redo : redo[i] = entry \/ (i \in DOMAIN t.redo /\ redo[i] = t.redo[i])
      BY <1>2, <1>5
    <3> QED BY <1>1, <1>4, <3>1 DEF Remembers
  <2>3. u.moved = t.moved
    BY <1>11 DEF Steady
  <2> QED BY <1>10, <1>12, <2>1, <2>2, <2>3 DEF Remembers
<1> QED BY <1>9, <1>11, <1>12, <1>13 DEF Sound, u, entry

\* A redo keeps the engine sound, and gives the document its edit made.
LEMMA RedoneSound ==
  ASSUME NEW t, Sound(t), t.redo # <<>>
  PROVE  LET entry == Last(t.redo)
             u == [Edited(t, entry.forward) EXCEPT !.redo = Front(@), !.undo = Append(@, entry)]
         IN /\ Sound(u) /\ Steady(t, u) /\ (t.shown # Null => u.shown # Null)
            /\ ~t.moved => u.document = entry.after
<1> DEFINE entry == Last(t.redo)
           w == Edited(t, entry.forward)
           m == Len(t.redo)
           n == Len(t.undo)
           redo == Front(t.redo)
           undo == Append(t.undo, entry)
           u == [Edited(t, entry.forward) EXCEPT !.redo = Front(@), !.undo = Append(@, entry)]
<1>1. t \in Tab /\ Rebuilds(t) /\ OnScreen(t) /\ Remembers(t)
  BY DEF Sound
<1>2. t.undo \in Seq(Entry) /\ t.redo \in Seq(Entry) /\ n \in Nat
  BY <1>1 DEF Tab
<1>3. /\ redo \in Seq(Entry) /\ Len(redo) = m - 1 /\ DOMAIN redo = 1..(m - 1) /\ m \in Nat \ {0}
      /\ \A i \in 1..(m - 1) : redo[i] = t.redo[i]
      /\ entry \in Entry /\ entry = t.redo[m]
  BY <1>2, FrontFacts
<1>4. Reversible(entry)
  <2>1. m \in DOMAIN t.redo
    BY <1>2, <1>3
  <2> QED BY <1>1, <1>3, <2>1 DEF Remembers
<1> HIDE DEF entry
<1>5. /\ undo \in Seq(Entry) /\ Len(undo) = n + 1 /\ DOMAIN undo = 1..(n + 1)
      /\ \A i \in 1..(n + 1) : undo[i] = IF i = n + 1 THEN entry ELSE t.undo[i]
  BY <1>2, <1>3, AppendFacts
<1>6. entry.forward \in Seq(Operation) /\ entry.after \in Document
  <2>1. entry.forward \in Seq(UserOperation) /\ entry.after \in Document
    BY <1>3 DEF Entry
  <2> QED BY <2>1, OperationsInclude, SeqMonotonic
<1>7. /\ w \in Tab /\ Rebuilds(w) /\ OnScreen(w) /\ Steady(t, w) /\ w.undo = t.undo /\ w.redo = t.redo
      /\ w.document = IF ApplyPatch(t.document, entry.forward) = Refused THEN t.document
                      ELSE ApplyPatch(t.document, entry.forward)
      /\ t.shown # Null => w.shown # Null
  BY <1>1, <1>6, EditedFacts
<1>8. u = [w EXCEPT !.redo = redo, !.undo = undo]
  BY <1>7
<1> HIDE DEF u, w, undo, redo
<1>9. u \in Tab
  BY <1>3, <1>5, <1>7, <1>8 DEF Tab
<1>10. /\ u.undo = undo /\ u.redo = redo /\ u.document = w.document /\ u.base = w.base
       /\ u.version = w.version /\ u.pending = w.pending /\ u.inFlight = w.inFlight
       /\ u.saving = w.saving /\ u.prompt = w.prompt /\ u.shown = w.shown
       /\ u.moved = w.moved /\ u.astray = w.astray
  BY <1>7, <1>8 DEF Tab
<1>11. Rebuilds(u) /\ OnScreen(u) /\ Steady(t, u) /\ (t.shown # Null => u.shown # Null)
  BY <1>7, <1>10 DEF Rebuilds, OnScreen, Queued, Steady
<1>12. ASSUME ~t.moved PROVE u.document = entry.after /\ Chained(undo, redo, entry.after)
  <2>1. Chained(t.undo, t.redo, t.document)
    BY <1>1, <1>12 DEF Remembers
  <2>2. m \in DOMAIN t.redo
    BY <1>2, <1>3
  <2>3. entry.before = t.document
    BY <1>3, <2>1, <2>2 DEF Chained
  <2>4. ApplyPatch(t.document, entry.forward) = entry.after /\ entry.after # Refused
    BY <1>4, <1>6, <2>3, NotRefused DEF Reversible
  <2>5. ASSUME NEW i \in DOMAIN redo
        PROVE  redo[i].before = IF i = Len(redo) THEN entry.after ELSE redo[i + 1].after
    <3>1. i \in DOMAIN t.redo /\ i # m /\ i \in 1..(m - 1) /\ i \in Int
      BY <1>2, <1>3
    <3>2. t.redo[i].before = t.redo[i + 1].after /\ redo[i] = t.redo[i]
      BY <1>3, <2>1, <3>1 DEF Chained
    <3>3. CASE i = m - 1
      <4>1. i + 1 = m
        BY <1>3, <3>3
      <4> QED BY <1>3, <3>2, <3>3, <4>1
    <3>4. CASE i # m - 1
      <4>1. i + 1 \in 1..(m - 1)
        BY <1>3, <3>1, <3>4
      <4> QED BY <1>3, <3>2, <3>4, <4>1
    <3> QED BY <3>3, <3>4
  <2>6. ASSUME NEW i \in DOMAIN undo
        PROVE  undo[i].after = IF i = Len(undo) THEN entry.after ELSE undo[i + 1].before
    <3>1. CASE i = n + 1
      BY <1>5, <3>1
    <3>2. CASE i # n + 1
      <4>1. i \in DOMAIN t.undo /\ i \in 1..n /\ i + 1 \in 1..(n + 1) /\ i \in 1..(n + 1)
        BY <1>2, <1>5, <3>2
      <4>2. t.undo[i].after = IF i = n THEN t.document ELSE t.undo[i + 1].before
        BY <2>1, <4>1 DEF Chained
      <4>3. CASE i = n
        <5>1. i + 1 = n + 1
          BY <4>3
        <5> QED BY <1>5, <2>3, <3>2, <4>1, <4>2, <4>3, <5>1
      <4>4. CASE i # n
        <5>1. i + 1 # n + 1
          BY <1>2, <4>1, <4>4
        <5> QED BY <1>5, <3>2, <4>1, <4>2, <4>4, <5>1
      <4> QED BY <4>3, <4>4
    <3> QED BY <3>1, <3>2
  <2> QED BY <1>7, <1>10, <2>4, <2>5, <2>6 DEF Chained
<1>13. Remembers(u)
  <2>1. \A i \in DOMAIN redo : Reversible(redo[i])
    <3>1. \A i \in DOMAIN redo : i \in DOMAIN t.redo /\ redo[i] = t.redo[i]
      BY <1>2, <1>3
    <3> QED BY <1>1, <3>1 DEF Remembers
  <2>2. \A i \in DOMAIN undo : Reversible(undo[i])
    <3>1. \A i \in DOMAIN undo : undo[i] = entry \/ (i \in DOMAIN t.undo /\ undo[i] = t.undo[i])
      BY <1>2, <1>5
    <3> QED BY <1>1, <1>4, <3>1 DEF Remembers
  <2>3. u.moved = t.moved
    BY <1>11 DEF Steady
  <2> QED BY <1>10, <1>12, <2>1, <2>2, <2>3 DEF Remembers
<1> QED BY <1>9, <1>11, <1>12, <1>13 DEF Sound, u, entry

(* -------------------------------- saving ------------------------------- *)

\* What a step of a save leaves as it was.
Alike(t, u) ==
  /\ u.document = t.document /\ u.shown = t.shown /\ u.undo = t.undo /\ u.redo = t.redo
  /\ u.moved = t.moved

\* What leaves the document and the history alone need only mind the queue.
LEMMA AlikeSound ==
  ASSUME NEW t, Sound(t), NEW u \in Tab, Alike(t, u), Rebuilds(u)
  PROVE  Sound(u)
BY DEF Sound, Alike, OnScreen, Remembers

\* What is queued is a patch.
LEMMA QueuedTyped == \A t \in Tab : Queued(t) \in Seq(Operation)
<1> SUFFICES ASSUME NEW t \in Tab PROVE Queued(t) \in Seq(Operation)
  OBVIOUS
<1>1. t.inFlight \in Seq(Operation) /\ t.pending \in Seq(Operation)
  BY DEF Tab
<1> QED BY <1>1, ConcatProperties DEF Queued

\* Nothing, before or after a patch.
LEMMA NothingAfter == \A q \in Seq(Operation) : q \o <<>> = q /\ <<>> \o q = q
BY ConcatEmptySeq

\* flush() moves what is pending in flight.
LEMMA SendingFacts ==
  ASSUME NEW t, Sound(t)
  PROVE  LET u == Sending(t) IN
         /\ Sound(u) /\ Alike(t, u) /\ u.saving /\ u.pending = <<>> /\ u.prompt = NoPrompt
         /\ u.inFlight = Queued(t) /\ u.version = t.version /\ u.base = t.base
         /\ u.astray = t.astray /\ Queued(u) = Queued(t)
<1> DEFINE u == Sending(t)
           none == <<>>
           queued == Queued(t)
<1>1. t \in Tab /\ Rebuilds(t)
  BY DEF Sound
<1>2. queued \in Seq(Operation) /\ none \in Seq(Operation) /\ queued \o none = queued
  BY <1>1, QueuedTyped, NothingAfter
<1>3. u = [t EXCEPT !.inFlight = queued, !.pending = none, !.saving = TRUE, !.prompt = NoPrompt]
  BY DEF Sending
<1> HIDE DEF u, none, queued
<1>4. u \in Tab
  BY <1>1, <1>2, <1>3 DEF Tab, Prompts
<1>5. /\ u.inFlight = queued /\ u.pending = none /\ u.saving /\ u.prompt = NoPrompt
      /\ u.base = t.base /\ u.version = t.version /\ u.astray = t.astray /\ Alike(t, u)
  BY <1>1, <1>3 DEF Tab, Alike
<1>6. Queued(u) = queued
  BY <1>2, <1>5 DEF Queued
<1>7. Rebuilds(u)
  BY <1>1, <1>5, <1>6 DEF Rebuilds, Alike, queued
<1> QED BY <1>4, <1>5, <1>6, <1>7, AlikeSound DEF u, none, queued

\* 'saved': what was in flight is in the base now.
LEMMA AcknowledgedFacts ==
  ASSUME NEW t, Sound(t)
  PROVE  LET u == Acknowledged(t) IN
         /\ Sound(u) /\ Alike(t, u) /\ ~u.saving /\ u.inFlight = <<>> /\ u.pending = t.pending
         /\ u.version = t.version + 1 /\ u.prompt = t.prompt /\ u.astray = t.astray
         /\ ApplyPatch(t.base, t.inFlight) # Refused => u.base = ApplyPatch(t.base, t.inFlight)
<1> DEFINE u == Acknowledged(t)
           none == <<>>
           x == ApplyPatch(t.base, t.inFlight)
           base == IF x = Refused THEN t.base ELSE x
<1>1. t \in Tab /\ Rebuilds(t)
  BY DEF Sound
<1>2. /\ t.base \in Document /\ t.inFlight \in Seq(Operation) /\ t.pending \in Seq(Operation)
      /\ t.document \in Document /\ none \in Seq(Operation) /\ none \o t.pending = t.pending
  BY <1>1, NothingAfter DEF Tab
<1>3. base \in Document
  BY <1>2, StepsTyped
<1>4. u = [t EXCEPT !.inFlight = none, !.version = t.version + 1, !.saving = FALSE, !.base = base]
  BY DEF Acknowledged
<1> HIDE DEF u, none, base
<1>5. u \in Tab
  <2> DEFINE version == t.version + 1
  <2>1. version \in Nat
    BY <1>1 DEF Tab
  <2> HIDE DEF version, x
  <2>2. u = [t EXCEPT !.inFlight = none, !.version = version, !.saving = FALSE, !.base = base]
    BY <1>4 DEF version
  <2> QED BY <1>1, <1>2, <1>3, <2>1, <2>2 DEF Tab
<1>6. /\ u.inFlight = none /\ u.pending = t.pending /\ ~u.saving /\ u.prompt = t.prompt
      /\ u.base = base /\ u.version = t.version + 1 /\ u.astray = t.astray /\ Alike(t, u)
  BY <1>1, <1>4 DEF Tab, Alike
<1>7. Queued(u) = t.pending
  BY <1>2, <1>6 DEF Queued
<1>8. ASSUME ~t.astray PROVE ApplyPatch(base, t.pending) = t.document
  <2>1. ApplyPatch(t.base, t.inFlight \o t.pending) = t.document
    BY <1>1, <1>8 DEF Rebuilds, Queued
  <2>2. x # Refused /\ ApplyPatch(x, t.pending) = t.document
    BY <1>2, <2>1, ApplyConcat, NotRefused
  <2> QED BY <2>2 DEF base
<1>9. Rebuilds(u)
  BY <1>6, <1>7, <1>8 DEF Rebuilds, Alike
<1>10. x # Refused => base = x
  BY DEF base
<1> QED BY <1>5, <1>6, <1>9, <1>10, AlikeSound DEF u, none

\* 'conflict' in a field: only the prompt is new.
LEMMA AskingFacts ==
  ASSUME NEW t, Sound(t), server.document \in Document, server.version \in Nat
  PROVE  LET u == Asking(t) IN
         /\ Sound(u) /\ Alike(t, u) /\ ~u.saving /\ u.version = t.version /\ u.base = t.base
         /\ u.prompt = [document |-> server.document, version |-> server.version]
<1> DEFINE u == Asking(t)
           prompt == [document |-> server.document, version |-> server.version]
<1>1. t \in Tab /\ Rebuilds(t)
  BY DEF Sound
<1>2. u = [t EXCEPT !.saving = FALSE, !.prompt = prompt]
  BY DEF Asking
<1>3. prompt \in Prompts
  BY DEF Prompts
<1> HIDE DEF u, prompt
<1>4. u \in Tab
  BY <1>1, <1>2, <1>3 DEF Tab
<1>5. /\ ~u.saving /\ u.prompt = prompt /\ u.inFlight = t.inFlight /\ u.pending = t.pending
      /\ u.base = t.base /\ u.version = t.version /\ u.astray = t.astray /\ Alike(t, u)
  BY <1>1, <1>2 DEF Tab, Alike
<1>6. Rebuilds(u)
  BY <1>1, <1>5 DEF Rebuilds, Alike, Queued
<1> QED BY <1>4, <1>5, <1>6, AlikeSound DEF u, prompt

\* No answer: what is in flight stays there.
LEMMA UnansweredFacts ==
  ASSUME NEW t, Sound(t)
  PROVE  LET u == [t EXCEPT !.saving = FALSE] IN
         /\ Sound(u) /\ Alike(t, u) /\ ~u.saving /\ u.version = t.version /\ u.base = t.base
         /\ u.prompt = t.prompt
<1> DEFINE u == [t EXCEPT !.saving = FALSE]
<1>1. t \in Tab /\ Rebuilds(t)
  BY DEF Sound
<1>2. u \in Tab
  BY <1>1 DEF Tab
<1>3. /\ ~u.saving /\ u.prompt = t.prompt /\ u.inFlight = t.inFlight /\ u.pending = t.pending
      /\ u.base = t.base /\ u.version = t.version /\ u.astray = t.astray /\ Alike(t, u)
  BY <1>1 DEF Tab, Alike
<1>4. Rebuilds(u)
  BY <1>1, <1>3 DEF Rebuilds, Alike, Queued
<1> HIDE DEF u
<1> QED BY <1>2, <1>3, <1>4, AlikeSound DEF u

\* 'rejected': the document keeps what the queue does not.
LEMMA DroppedFacts ==
  ASSUME NEW t, Sound(t)
  PROVE  LET u == Dropped(t) IN
         /\ Sound(u) /\ Alike(t, u) /\ ~u.saving /\ u.version = t.version /\ u.base = t.base
         /\ u.prompt = t.prompt
<1> DEFINE u == Dropped(t)
           none == <<>>
<1>1. t \in Tab /\ none \in Seq(Operation)
  BY DEF Sound
<1>2. u = [t EXCEPT !.inFlight = none, !.saving = FALSE, !.astray = TRUE]
  BY DEF Dropped
<1> HIDE DEF u, none
<1>3. u \in Tab
  BY <1>1, <1>2 DEF Tab
<1>4. /\ ~u.saving /\ u.prompt = t.prompt /\ u.base = t.base /\ u.version = t.version /\ u.astray
      /\ Alike(t, u)
  BY <1>1, <1>2 DEF Tab, Alike
<1>5. Rebuilds(u)
  BY <1>4 DEF Rebuilds
<1> QED BY <1>3, <1>4, <1>5, AlikeSound DEF u

\* A document put in the place of the one edited here, by the answer to a conflict.
Moved(t, d, q, base, version, saving, prompt, astray) ==
  [t EXCEPT !.document = d, !.base = base, !.version = version, !.inFlight = <<>>, !.pending = q,
            !.saving = saving, !.prompt = prompt, !.shown = Shown(d, @), !.moved = TRUE,
            !.astray = astray]

\* Such an engine is sound if what it queues makes its document.
LEMMA MovedSound ==
  ASSUME NEW t, Sound(t), NEW d \in Document, NEW q \in Seq(Operation), NEW base \in Document,
         NEW version \in Nat, NEW saving \in BOOLEAN, NEW astray \in BOOLEAN,
         NEW prompt \in Prompts,
         ~astray => ApplyPatch(base, q) = d
  PROVE  LET u == Moved(t, d, q, base, version, saving, prompt, astray)
         IN /\ Sound(u) /\ u.version = version /\ u.base = base /\ u.prompt = prompt
            /\ u.saving = saving /\ (t.shown # Null => u.shown # Null)
<1> DEFINE none == <<>>
           shown == Shown(d, t.shown)
           u == Moved(t, d, q, base, version, saving, prompt, astray)
<1>1. t \in Tab /\ OnScreen(t) /\ Remembers(t) /\ none \in Seq(Operation) /\ none \o q = q
  BY NothingAfter DEF Sound
<1>2. shown \in Document \cup {Null} /\ (t.shown # Null => shown # Null)
  BY <1>1, NotRefused DEF Shown, Tab
<1>3. /\ ParseDraftDocument(d) => shown = d
      /\ shown # Null => ParseDraftDocument(shown)
  BY <1>1 DEF OnScreen, Shown
<1>8. u = [t EXCEPT !.document = d, !.base = base, !.version = version, !.inFlight = none,
                    !.pending = q, !.saving = saving, !.prompt = prompt,
                    !.shown = shown, !.moved = TRUE, !.astray = astray]
  BY DEF Moved
<1> HIDE DEF none, shown, u
<1>4. u \in Tab
  BY <1>1, <1>2, <1>8 DEF Tab
<1>5. /\ u.document = d /\ u.base = base /\ u.version = version /\ u.inFlight = none
      /\ u.pending = q /\ u.saving = saving /\ u.prompt = prompt /\ u.shown = shown /\ u.moved
      /\ u.astray = astray /\ u.undo = t.undo /\ u.redo = t.redo
  BY <1>1, <1>8 DEF Tab
<1>6. Rebuilds(u)
  BY <1>1, <1>5 DEF Rebuilds, Queued
<1>7. OnScreen(u) /\ Remembers(u)
  BY <1>1, <1>3, <1>5 DEF OnScreen, Remembers
<1> QED BY <1>2, <1>4, <1>5, <1>6, <1>7 DEF Sound, u, none, shown

\* 'conflict' elsewhere: the engine is at the server's version.
LEMMA RebasedFacts ==
  ASSUME NEW t, Sound(t), server.document \in Document, server.version \in Nat,
         ApplyPatch(server.document, t.inFlight) # Refused
  PROVE  LET u == Rebased(t) IN
         /\ Sound(u) /\ ~u.saving /\ u.version = server.version /\ u.base = server.document
         /\ u.prompt = t.prompt /\ (t.shown # Null => u.shown # Null)
<1> DEFINE d == ApplyPatch(server.document, t.inFlight)
           q == Coalesce(t.inFlight \o t.pending)
           astray == t.pending # <<>>
           no == FALSE
           u == Moved(t, d, q, server.document, server.version, no, t.prompt, astray)
<1>1. t \in Tab /\ t.inFlight \in Seq(Operation) /\ t.pending \in Seq(Operation) /\ t.prompt \in Prompts
  BY DEF Sound, Tab
<1>2. d \in Document
  BY <1>1, StepsTyped
<1>3. q \in Seq(Operation)
  BY <1>1, CoalescingKeepsTheEdits, ConcatProperties
<1>4. ~astray => ApplyPatch(server.document, q) = d
  <2> SUFFICES ASSUME t.pending = <<>> PROVE ApplyPatch(server.document, q) = d
    OBVIOUS
  <2>1. q = Coalesce(t.inFlight)
    BY <1>1, NothingAfter
  <2> QED BY <1>1, <2>1, CoalescingKeepsTheEdits
<1>5. Rebased(t) = u
  BY <1>1 DEF Rebased, Moved, Tab
<1>6. astray \in BOOLEAN /\ no \in BOOLEAN
  OBVIOUS
<1> HIDE DEF d, q, astray, no
<1>7. /\ Sound(u) /\ u.saving = no /\ u.version = server.version /\ u.base = server.document
      /\ u.prompt = t.prompt /\ (t.shown # Null => u.shown # Null)
  BY <1>1, <1>2, <1>3, <1>4, <1>6, MovedSound
<1> HIDE DEF u
<1> QED BY <1>5, <1>7 DEF no

\* 'mine': the engine is at the version its prompt was about.
LEMMA KeptMineFacts ==
  ASSUME NEW t, Sound(t), t.prompt # NoPrompt
  PROVE  LET u == KeptMine(t) IN
         /\ Sound(u) /\ u.saving = t.saving /\ u.version = t.prompt.version
         /\ u.base = t.prompt.document /\ u.prompt = NoPrompt /\ (t.shown # Null => u.shown # Null)
<1> DEFINE base == t.prompt.document
           version == t.prompt.version
           d == ApplyPatch(base, Queued(t))
           kept == IF d = Refused THEN t.document ELSE d
           q == Coalesce(Queued(t))
           astray == d = Refused
           saving == t.saving
           none == NoPrompt
           u == Moved(t, kept, q, base, version, saving, none, astray)
<1>1. t \in Tab /\ t.document \in Document /\ saving \in BOOLEAN
  BY DEF Sound, Tab
<1>2. base \in Document /\ version \in Nat
  BY <1>1 DEF Tab, Prompts
<1>3. Queued(t) \in Seq(Operation)
  BY <1>1, QueuedTyped
<1>4. kept \in Document
  BY <1>1, <1>2, <1>3, StepsTyped
<1>5. q \in Seq(Operation) /\ (~astray => ApplyPatch(base, q) = kept)
  BY <1>2, <1>3, CoalescingKeepsTheEdits
<1>6. KeptMine(t) = u
  BY <1>1 DEF KeptMine, Moved, Tab
<1>7. astray \in BOOLEAN /\ none \in Prompts
  BY DEF Prompts
<1> HIDE DEF d, q, astray, kept, base, version, saving, none
<1>8. /\ Sound(u) /\ u.saving = saving /\ u.version = version /\ u.base = base
      /\ u.prompt = none /\ (t.shown # Null => u.shown # Null)
  BY <1>1, <1>2, <1>4, <1>5, <1>7, MovedSound
<1> HIDE DEF u
<1> QED BY <1>6, <1>8 DEF base, version, saving, none

\* 'theirs': likewise, with nothing queued.
LEMMA TookTheirsFacts ==
  ASSUME NEW t, Sound(t), t.prompt # NoPrompt
  PROVE  LET u == TookTheirs(t) IN
         /\ Sound(u) /\ u.saving = t.saving /\ u.version = t.prompt.version
         /\ u.base = t.prompt.document /\ u.prompt = NoPrompt /\ (t.shown # Null => u.shown # Null)
<1> DEFINE base == t.prompt.document
           version == t.prompt.version
           none == <<>>
           no == FALSE
           u == Moved(t, base, none, base, version, t.saving, NoPrompt, no)
<1>1. t \in Tab /\ t.saving \in BOOLEAN
  BY DEF Sound, Tab
<1>2. base \in Document /\ version \in Nat
  BY <1>1 DEF Tab, Prompts
<1>3. none \in Seq(Operation) /\ ApplyPatch(base, none) = base
  BY ApplyNothing
<1>4. TookTheirs(t) = u
  BY <1>1 DEF TookTheirs, Moved, Tab
<1>5. NoPrompt \in Prompts /\ no \in BOOLEAN
  BY DEF Prompts
<1> HIDE DEF base, version, none, no
<1>6. /\ Sound(u) /\ u.saving = t.saving /\ u.version = version /\ u.base = base
      /\ u.prompt = NoPrompt /\ (t.shown # Null => u.shown # Null)
  BY <1>1, <1>2, <1>3, <1>5, MovedSound
<1> HIDE DEF u
<1> QED BY <1>4, <1>6 DEF base, version

(* ------------------------------- the state ----------------------------- *)

\* The preview frame and the channel to it.
View == [hydrated : BOOLEAN, listening : BOOLEAN, shows : Document \cup {Null},
         wire : Seq(Document), announced : BOOLEAN, load : BOOLEAN, ready : BOOLEAN,
         queue : Seq(Document), heard : BOOLEAN]

\* Where a publication is.
Publishes == [at : {"idle", "waiting", "sending", "posting"}, calm : BOOLEAN]

\* Every variable's type; what is published is whatever a publication made.
TypeOK ==
  /\ server = [document |-> server.document, version |-> server.version,
               published |-> server.published]
  /\ server.document \in Document /\ server.version \in Nat
  /\ tab \in Tab
  /\ preview \in View
  /\ publish \in Publishes
  /\ ids \in Nat
  /\ left \in Bounds

\* The engine is never ahead of the server, and at its version it has its document.
InStep ==
  /\ tab.version <= server.version
  /\ tab.version = server.version => tab.base = server.document
  /\ tab.prompt # NoPrompt =>
       /\ tab.prompt.version <= server.version
       /\ tab.prompt.version = server.version => tab.prompt.document = server.document

\* A publication that waits or sends has a save running; while it is calm, the engine is up to
\* date and what it waits for is all there is to save.
Calm ==
  /\ publish.at \in {"waiting", "sending"} => tab.saving
  /\ publish.calm =>
       /\ publish.at # "idle"
       /\ UpToDate
       /\ publish.at = "sending" => tab.pending = <<>>
       /\ publish.at = "posting" => Queued(tab) = <<>>

\* The last document on its way to the frame, or else the one it shows, is that on the screen.
InFrame ==
  /\ ~left.frame => preview = Hidden
  /\ preview.heard => preview.hydrated /\ preview.ready
  /\ preview.heard /\ tab.shown # Null =>
       /\ preview.wire # <<>> => Last(preview.wire) = tab.shown
       /\ preview.wire = <<>> /\ preview.listening /\ ~preview.announced =>
            preview.shows = tab.shown

\* The inductive invariant.
IInv == TypeOK /\ Sound(tab) /\ InStep /\ Calm /\ InFrame

(* ------------------------------ the preview ---------------------------- *)

\* What is sent to a ready frame is the last thing on its wire.
LEMMA SentFacts ==
  ASSUME NEW view \in View, NEW d \in Document
  PROVE  LET v == Sent(view, d) IN
         /\ v \in View
         /\ v.hydrated = view.hydrated /\ v.listening = view.listening /\ v.shows = view.shows
         /\ v.announced = view.announced /\ v.ready = view.ready /\ v.heard = view.heard
         /\ view.ready => v.wire # <<>> /\ Last(v.wire) = d
<1> DEFINE v == Sent(view, d)
           wire == Append(view.wire, d)
           queue == Append(view.queue, d)
<1>1. view.wire \in Seq(Document) /\ view.queue \in Seq(Document)
  BY DEF View
<1>2. wire \in Seq(Document) /\ wire # <<>> /\ Last(wire) = d /\ queue \in Seq(Document)
  BY <1>1, AppendFacts
<1>3. v = IF view.ready THEN [view EXCEPT !.wire = wire] ELSE [view EXCEPT !.queue = queue]
  BY DEF Sent
<1> HIDE DEF v, wire, queue
<1>4. CASE view.ready
  BY <1>2, <1>3, <1>4 DEF View, v
<1>5. CASE ~view.ready
  BY <1>2, <1>3, <1>5 DEF View, v
<1> QED BY <1>4, <1>5

\* Attaching to the frame leaves the document on the screen last on its wire.
LEMMA AttachFacts ==
  ASSUME NEW view \in View, tab \in Tab
  PROVE  LET v == AttachToFrame(view) IN
         /\ v \in View
         /\ v.hydrated = view.hydrated /\ v.listening = view.listening /\ v.shows = view.shows
         /\ v.announced = view.announced /\ v.ready /\ v.heard
         /\ tab.shown # Null => v.wire # <<>> /\ Last(v.wire) = tab.shown
<1> DEFINE v == AttachToFrame(view)
           wire == view.wire \o view.queue
           none == <<>>
           w == [view EXCEPT !.ready = TRUE, !.heard = TRUE, !.wire = wire, !.queue = none]
<1>1. wire \in Seq(Document) /\ none \in Seq(Document)
  BY ConcatProperties DEF View
<1>2. v = IF tab.shown = Null THEN w ELSE Sent(w, tab.shown)
  BY DEF AttachToFrame
<1> HIDE DEF v, wire, none
<1>3. /\ w \in View /\ w.ready /\ w.heard /\ w.hydrated = view.hydrated
      /\ w.listening = view.listening /\ w.shows = view.shows /\ w.announced = view.announced
  BY <1>1 DEF View
<1> HIDE DEF w
<1>4. CASE tab.shown = Null
  BY <1>2, <1>3, <1>4 DEF v
<1>5. CASE tab.shown # Null
  <2>1. tab.shown \in Document
    BY <1>5 DEF Tab
  <2> QED BY <1>2, <1>3, <1>5, <2>1, SentFacts DEF v
<1> QED BY <1>4, <1>5

\* Whatever the builder renders, the frame is sent what the screen shows.
LEMMA RenderFacts ==
  ASSUME TypeOK, InFrame, NEW t \in Tab, tab.shown # Null => t.shown # Null,
         Render(t), left'.frame = left.frame
  PROVE  tab' = t /\ preview' \in View /\ InFrame'
<1>1. tab' = t /\ preview \in View /\ tab \in Tab
  BY DEF Render, TypeOK
<1>2. CASE left.frame /\ t.shown # tab.shown
  <2>1. t.shown \in Document
    BY <1>2 DEF Tab
  <2>2. preview' = Sent(preview, t.shown)
    BY <1>2 DEF Render
  <2>3. /\ preview' \in View /\ preview'.hydrated = preview.hydrated
        /\ preview'.ready = preview.ready /\ preview'.heard = preview.heard
        /\ preview.ready => preview'.wire # <<>> /\ Last(preview'.wire) = t.shown
    BY <1>1, <2>1, <2>2, SentFacts
  <2> QED BY <1>1, <1>2, <2>3 DEF InFrame
<1>3. CASE ~(left.frame /\ t.shown # tab.shown)
  <2>1. preview' = preview
    BY <1>3 DEF Render
  <2>2. CASE ~left.frame
    <3>1. ~preview.heard
      BY <2>2 DEF InFrame, Hidden
    <3> QED BY <1>1, <2>1, <2>2, <3>1 DEF InFrame, Hidden
  <2>3. CASE t.shown = tab.shown
    BY <1>1, <2>1, <2>3 DEF InFrame
  <2> QED BY <1>3, <2>2, <2>3 
<1> QED BY <1>2, <1>3

\* A bound that is spent stays a bound, and no other changes.
LEMMA SpendFacts ==
  ASSUME left \in Bounds,
         NEW bound \in {"edits", "undos", "others", "losses", "loads", "presses"}, Spend(bound)
  PROVE  left' \in Bounds /\ left'.frame = left.frame
<1>1. left' = [left EXCEPT ![bound] = left[bound] - 1] /\ left[bound] > 0
  BY DEF Spend
<1>2. CASE bound = "edits"
  BY <1>1, <1>2 DEF Bounds
<1>3. CASE bound = "undos"
  BY <1>1, <1>3 DEF Bounds
<1>4. CASE bound = "others"
  BY <1>1, <1>4 DEF Bounds
<1>5. CASE bound = "losses"
  BY <1>1, <1>5 DEF Bounds
<1>6. CASE bound = "loads"
  BY <1>1, <1>6 DEF Bounds
<1>7. CASE bound = "presses"
  BY <1>1, <1>7 DEF Bounds
<1> QED BY <1>2, <1>3, <1>4, <1>5, <1>6, <1>7

\* What only the frame's steps change.
LEMMA FrameOnly ==
  ASSUME IInv, UNCHANGED <<server, tab, publish, ids>>, left' \in Bounds, preview' \in View, InFrame'
  PROVE  IInv'
<1>1. TypeOK'
  BY DEF IInv, TypeOK
<1>2. Sound(tab)' /\ InStep' /\ Calm'
  BY DEF IInv, Sound, InStep, Calm, UpToDate, Queued
<1> QED BY <1>1, <1>2 DEF IInv

\* Nothing was heard before the builder's script runs.
LEMMA HydrateStep == IInv /\ Hydrate => IInv'
<1> SUFFICES ASSUME IInv, Hydrate PROVE IInv'
  OBVIOUS
<1>1. preview \in View /\ tab \in Tab /\ left \in Bounds /\ InFrame
  BY DEF IInv, TypeOK
<1>2. ~preview.hydrated /\ ~preview.heard
  BY <1>1 DEF Hydrate, InFrame
<1>3. left.frame
  BY <1>1, <1>2 DEF InFrame, Hidden
<1> DEFINE view == [preview EXCEPT !.hydrated = TRUE]
<1>4. view \in View /\ ~view.heard
  BY <1>1, <1>2 DEF View
<1>5. preview' = IF tab.shown = Null THEN view ELSE Sent(view, tab.shown)
  BY DEF Hydrate
<1> HIDE DEF view
<1>6. preview' \in View /\ ~preview'.heard
  <2>1. CASE tab.shown = Null
    BY <1>4, <1>5, <2>1
  <2>2. CASE tab.shown # Null
    <3>1. tab.shown \in Document
      BY <1>1, <2>2 DEF Tab
    <3> QED BY <1>4, <1>5, <2>2, <3>1, SentFacts
  <2> QED BY <2>1, <2>2
<1>7. InFrame'
  BY <1>3, <1>6 DEF InFrame, Hydrate
<1> QED BY <1>1, <1>6, <1>7, FrameOnly DEF Hydrate

\* The frame announces that it listens: it is not caught up before that is heard.
LEMMA FrameListensStep == IInv /\ FrameListens => IInv'
<1> SUFFICES ASSUME IInv, FrameListens PROVE IInv'
  OBVIOUS
<1>1. preview \in View /\ left \in Bounds /\ InFrame
  BY DEF IInv, TypeOK
<1>2. preview' \in View
  BY <1>1 DEF FrameListens, View
<1>3. /\ preview'.announced /\ preview'.hydrated = preview.hydrated /\ preview'.ready = preview.ready
      /\ preview'.heard = preview.heard /\ preview'.wire = preview.wire
  BY <1>1 DEF FrameListens, View
<1>4. InFrame'
  BY <1>1, <1>3 DEF InFrame, FrameListens
<1> QED BY <1>1, <1>2, <1>4, FrameOnly DEF FrameListens

\* Both signals: what they find in the frame, they bring up to date.
LEMMA SignalFacts ==
  ASSUME IInv, UNCHANGED <<server, tab, publish, ids, left>>, left.frame,
         NEW view \in View, view.hydrated = preview.hydrated, ~preview.hydrated => ~view.heard,
         preview' = IF preview.hydrated THEN AttachToFrame(view) ELSE view
  PROVE  IInv'
<1>1. preview \in View /\ tab \in Tab /\ left \in Bounds
  BY DEF IInv, TypeOK
<1>2. CASE preview.hydrated
  <2>1. /\ preview' \in View /\ preview'.hydrated /\ preview'.ready
        /\ tab.shown # Null => preview'.wire # <<>> /\ Last(preview'.wire) = tab.shown
    BY <1>1, <1>2, AttachFacts
  <2>2. InFrame'
    BY <2>1 DEF InFrame
  <2> QED BY <1>1, <2>1, <2>2, FrameOnly
<1>3. CASE ~preview.hydrated
  <2>1. preview' = view /\ InFrame'
    BY <1>3 DEF InFrame
  <2> QED BY <1>1, <2>1, FrameOnly
<1> QED BY <1>2, <1>3

\* The announcement brings the frame up to date, or comes too early.
LEMMA ReceiveAnnouncementStep == IInv /\ ReceiveAnnouncement => IInv'
<1> SUFFICES ASSUME IInv, ReceiveAnnouncement PROVE IInv'
  OBVIOUS
<1> DEFINE view == [preview EXCEPT !.announced = FALSE]
<1>1. preview \in View /\ InFrame
  BY DEF IInv, TypeOK
<1>2. view \in View /\ view.hydrated = preview.hydrated /\ view.heard = preview.heard
  BY <1>1 DEF View
<1>3. left.frame /\ (~preview.hydrated => ~preview.heard)
  BY <1>1 DEF InFrame, Hidden, ReceiveAnnouncement
<1>4. preview' = IF preview.hydrated THEN AttachToFrame(view) ELSE view
  BY DEF ReceiveAnnouncement
<1> HIDE DEF view
<1> QED BY <1>2, <1>3, <1>4, SignalFacts DEF ReceiveAnnouncement

\* So does the load event.
LEMMA FrameLoadedStep == IInv /\ FrameLoaded => IInv'
<1> SUFFICES ASSUME IInv, FrameLoaded PROVE IInv'
  OBVIOUS
<1> DEFINE view == [preview EXCEPT !.load = FALSE]
<1>1. preview \in View /\ InFrame
  BY DEF IInv, TypeOK
<1>2. view \in View /\ view.hydrated = preview.hydrated /\ view.heard = preview.heard
  BY <1>1 DEF View
<1>3. left.frame /\ (~preview.hydrated => ~preview.heard)
  BY <1>1 DEF InFrame, Hidden, FrameLoaded
<1>4. preview' = IF preview.hydrated THEN AttachToFrame(view) ELSE view
  BY DEF FrameLoaded, OnLoad
<1> HIDE DEF view
<1> QED BY <1>2, <1>3, <1>4, SignalFacts DEF FrameLoaded

\* The last message on the wire is the document on the screen.
LEMMA FrameReceivesStep == IInv /\ FrameReceives => IInv'
<1> SUFFICES ASSUME IInv, FrameReceives PROVE IInv'
  OBVIOUS
<1> DEFINE head == Head(preview.wire)
           rest == Tail(preview.wire)
           shows == IF preview.listening THEN Shown(head, preview.shows) ELSE preview.shows
<1>1. preview \in View /\ left \in Bounds /\ InFrame /\ tab \in Tab /\ OnScreen(tab)
  BY DEF IInv, TypeOK, Sound
<1>2. preview.wire \in Seq(Document) /\ preview.wire # <<>>
  BY <1>1 DEF View, FrameReceives
<1>3. /\ rest \in Seq(Document) /\ Len(rest) = Len(preview.wire) - 1
      /\ \A i \in 1..(Len(preview.wire) - 1) : rest[i] = preview.wire[i + 1]
      /\ Len(preview.wire) \in Nat \ {0} /\ head \in Document /\ head = preview.wire[1]
  BY <1>2, TailFacts
<1>4. preview' = [preview EXCEPT !.wire = rest, !.shows = shows]
  BY DEF FrameReceives
<1>5. shows \in Document \cup {Null} /\ (ParseDraftDocument(head) /\ preview.listening => shows = head)
  BY <1>1, <1>3 DEF View, Shown
<1>12. (rest = <<>> <=> Len(rest) = 0)
  <2> HIDE DEF rest
  <2> QED BY <1>3, EmptySeq
<1>6. rest # <<>> => Last(rest) = Last(preview.wire)
  <2> SUFFICES ASSUME rest # <<>> PROVE Last(rest) = Last(preview.wire)
    OBVIOUS
  <2>1. Len(rest) # 0
    BY <1>12
  <2>2. Len(rest) \in 1..(Len(preview.wire) - 1) /\ Len(rest) + 1 = Len(preview.wire)
    BY <1>3, <2>1
  <2> HIDE DEF rest
  <2> QED BY <1>3, <2>2 DEF Last
<1>7. rest = <<>> => head = Last(preview.wire)
  <2> SUFFICES ASSUME rest = <<>> PROVE head = Last(preview.wire)
    OBVIOUS
  <2>1. Len(rest) = 0 /\ Len(rest) = Len(preview.wire) - 1 /\ Len(preview.wire) \in Nat
    BY <1>3, <1>12
  <2> HIDE DEF rest, head
  <2>2. Len(preview.wire) = 1
    BY <2>1
  <2> QED BY <1>3, <2>2 DEF Last
<1> HIDE DEF rest, head, shows
<1>8. preview' \in View
  BY <1>1, <1>3, <1>4, <1>5 DEF View
<1>9. /\ preview'.wire = rest /\ preview'.shows = shows /\ preview'.hydrated = preview.hydrated
      /\ preview'.ready = preview.ready /\ preview'.heard = preview.heard
      /\ preview'.listening = preview.listening /\ preview'.announced = preview.announced
  BY <1>1, <1>4 DEF View
<1>10. left.frame
  BY <1>1, <1>2 DEF InFrame, Hidden
<1>11. InFrame'
  <2> SUFFICES ASSUME preview.heard, tab.shown # Null
               PROVE  /\ rest # <<>> => Last(rest) = tab.shown
                      /\ rest = <<>> /\ preview.listening => shows = tab.shown
    BY <1>1, <1>9, <1>10 DEF InFrame, FrameReceives
  <2>1. Last(preview.wire) = tab.shown /\ ParseDraftDocument(tab.shown)
    BY <1>1, <1>2 DEF InFrame, OnScreen
  <2> QED BY <1>5, <1>6, <1>7, <2>1
<1> QED BY <1>1, <1>8, <1>11, FrameOnly DEF FrameReceives

\* A reloaded frame does not listen.
LEMMA FrameReloadsStep == IInv /\ FrameReloads => IInv'
<1> SUFFICES ASSUME IInv, FrameReloads PROVE IInv'
  OBVIOUS
<1> DEFINE shows == Shown(server.document, Null)
<1>1. preview \in View /\ left \in Bounds /\ InFrame /\ server.document \in Document
  BY DEF IInv, TypeOK
<1>2. shows \in Document \cup {Null}
  BY <1>1 DEF Shown
<1>3. preview' = [preview EXCEPT !.listening = FALSE, !.shows = shows, !.load = TRUE]
  BY DEF FrameReloads
<1> HIDE DEF shows
<1>4. preview' \in View
  BY <1>1, <1>2, <1>3 DEF View
<1>5. /\ ~preview'.listening /\ preview'.hydrated = preview.hydrated /\ preview'.wire = preview.wire
      /\ preview'.ready = preview.ready /\ preview'.heard = preview.heard
  BY <1>1, <1>3 DEF View
<1>6. left' \in Bounds /\ left'.frame = left.frame
  BY <1>1, SpendFacts DEF FrameReloads
<1>7. InFrame'
  BY <1>1, <1>5, <1>6 DEF InFrame, FrameReloads
<1> QED BY <1>4, <1>6, <1>7, FrameOnly DEF FrameReloads

(* --------------------------- steps of the tab -------------------------- *)

\* The server's part of TypeOK.
ServerOK ==
  /\ server = [document |-> server.document, version |-> server.version,
               published |-> server.published]
  /\ server.document \in Document /\ server.version \in Nat

\* A step that ends in a tab that is sound, and is rendered.
LEMMA Rendered ==
  ASSUME IInv, NEW t, Sound(t), tab.shown # Null => t.shown # Null, Render(t),
         left' \in Bounds, left'.frame = left.frame, ServerOK', publish' \in Publishes, ids' \in Nat,
         InStep', Calm'
  PROVE  IInv'
<1>1. TypeOK /\ InFrame /\ t \in Tab
  BY DEF IInv, Sound
<1>2. tab' = t /\ preview' \in View /\ InFrame'
  BY <1>1, RenderFacts
<1> QED BY <1>1, <1>2 DEF IInv, TypeOK, ServerOK, Sound

\* What is disturbed is not calm any more, and still where it was.
LEMMA DisturbedFacts ==
  ASSUME publish \in Publishes, Disturbed
  PROVE  publish' \in Publishes /\ publish'.at = publish.at /\ ~publish'.calm
BY DEF Disturbed, Publishes

\* An edit, by a control, an undo or a redo.
LEMMA EditingStep ==
  ASSUME IInv, NEW t, Sound(t), Steady(tab, t), tab.shown # Null => t.shown # Null, Render(t),
         left' \in Bounds, left'.frame = left.frame, UNCHANGED server, Disturbed, ids' \in Nat
  PROVE  IInv'
<1>1. publish' \in Publishes /\ publish'.at = publish.at /\ ~publish'.calm
  BY DisturbedFacts DEF IInv, TypeOK
<1>2. tab' = t
  BY DEF Render
<1>3. InStep'
  BY <1>2 DEF IInv, InStep, Steady
<1>4. Calm'
  BY <1>1, <1>2 DEF IInv, Calm, Steady
<1>5. ServerOK'
  BY DEF ServerOK, IInv, TypeOK
<1> QED BY <1>1, <1>3, <1>4, <1>5, Rendered

\* An edit keeps the invariant.
LEMMA EditStep == IInv /\ Edit => IInv'
<1> SUFFICES ASSUME IInv, Edit PROVE IInv'
  OBVIOUS
<1>1. Sound(tab) /\ tab \in Tab /\ left \in Bounds /\ ids \in Nat
  BY DEF IInv, TypeOK
<1>2. tab.shown \in Document
  BY <1>1 DEF Edit, Editing, Tab
<1>3. PICK batches \in Offered(tab.shown, ids) : Render(Performed(tab, batches))
  BY DEF Edit
<1>4. batches \in Batches
  BY <1>1, <1>2, <1>3, OfferedTyped
<1> DEFINE t == Performed(tab, batches)
<1>5. Sound(t) /\ Steady(tab, t) /\ (tab.shown # Null => t.shown # Null)
  BY <1>1, <1>4, PerformedSound
<1>6. left' \in Bounds /\ left'.frame = left.frame
  BY <1>1, SpendFacts DEF Edit
<1>7. ids' \in Nat /\ UNCHANGED server /\ Disturbed /\ Render(t)
  BY <1>1, <1>3 DEF Edit
<1> HIDE DEF t
<1> QED BY <1>5, <1>6, <1>7, EditingStep

\* An undo keeps the invariant, and travels back.
LEMMA UndoStep == IInv /\ Undo => IInv' /\ (~tab.moved => tab'.document = Last(tab.undo).before)
<1> SUFFICES ASSUME IInv, Undo PROVE IInv' /\ (~tab.moved => tab'.document = Last(tab.undo).before)
  OBVIOUS
<1> DEFINE entry == Last(tab.undo)
           t == [Edited(tab, entry.backward) EXCEPT !.undo = Front(@), !.redo = Append(@, entry)]
<1>1. Sound(tab) /\ left \in Bounds /\ ids \in Nat /\ tab.undo # <<>>
  BY DEF IInv, TypeOK, Undo
<1>2. /\ Sound(t) /\ Steady(tab, t) /\ (tab.shown # Null => t.shown # Null)
      /\ ~tab.moved => t.document = entry.before
  BY <1>1, UndoneSound
<1>3. left' \in Bounds /\ left'.frame = left.frame
  BY <1>1, SpendFacts DEF Undo
<1>4. ids' \in Nat /\ UNCHANGED server /\ Disturbed /\ Render(t)
  BY <1>1 DEF Undo
<1> HIDE DEF t
<1>5. tab' = t
  BY <1>4 DEF Render
<1> QED BY <1>2, <1>3, <1>4, <1>5, EditingStep

\* A redo keeps the invariant, and travels forth.
LEMMA RedoStep == IInv /\ Redo => IInv' /\ (~tab.moved => tab'.document = Last(tab.redo).after)
<1> SUFFICES ASSUME IInv, Redo PROVE IInv' /\ (~tab.moved => tab'.document = Last(tab.redo).after)
  OBVIOUS
<1> DEFINE entry == Last(tab.redo)
           t == [Edited(tab, entry.forward) EXCEPT !.redo = Front(@), !.undo = Append(@, entry)]
<1>1. Sound(tab) /\ left \in Bounds /\ ids \in Nat /\ tab.redo # <<>>
  BY DEF IInv, TypeOK, Redo
<1>2. /\ Sound(t) /\ Steady(tab, t) /\ (tab.shown # Null => t.shown # Null)
      /\ ~tab.moved => t.document = entry.after
  BY <1>1, RedoneSound
<1>3. left' \in Bounds /\ left'.frame = left.frame
  BY <1>1, SpendFacts DEF Redo
<1>4. ids' \in Nat /\ UNCHANGED server /\ Disturbed /\ Render(t)
  BY <1>1 DEF Redo
<1> HIDE DEF t
<1>5. tab' = t
  BY <1>4 DEF Render
<1> QED BY <1>2, <1>3, <1>4, <1>5, EditingStep

\* A step that leaves the screen alone, and with it the frame.
LEMMA BehindTheScreen ==
  ASSUME IInv, Sound(tab'), tab'.shown = tab.shown, UNCHANGED preview,
         left' \in Bounds, left'.frame = left.frame, ServerOK', publish' \in Publishes, ids' \in Nat,
         InStep', Calm'
  PROVE  IInv'
<1>1. InFrame'
  BY DEF IInv, InFrame
<1>2. TypeOK'
  BY DEF IInv, TypeOK, ServerOK, Sound
<1> QED BY <1>1, <1>2 DEF IInv

\* What a publication calm by then posts leaves nothing to send.
LEMMA SendStep == IInv /\ Send => IInv'
<1> SUFFICES ASSUME IInv, Send PROVE IInv'
  OBVIOUS
<1>1. Sound(tab) /\ left \in Bounds /\ ids \in Nat /\ publish \in Publishes /\ InStep /\ Calm
  BY DEF IInv, TypeOK
<1>2. tab' = Sending(tab) /\ UNCHANGED <<server, preview, publish, ids, left>>
  BY DEF Send
<1>3. /\ Sound(tab') /\ Alike(tab, tab') /\ tab'.saving /\ tab'.prompt = NoPrompt
      /\ tab'.version = tab.version /\ tab'.base = tab.base
  BY <1>1, <1>2, SendingFacts
<1>4. ServerOK'
  BY <1>2 DEF ServerOK, IInv, TypeOK
<1>5. InStep'
  BY <1>1, <1>2, <1>3 DEF InStep
<1>6. Calm'
  <2>1. publish.at \notin {"waiting", "sending"} /\ Queued(tab) # <<>>
    BY <1>1 DEF Calm, Send
  <2>2. ~publish.calm
    BY <1>1, <2>1 DEF Calm, Publishes
  <2> QED BY <1>2, <2>1, <2>2 DEF Calm
<1> QED BY <1>1, <1>2, <1>3, <1>4, <1>5, <1>6, BehindTheScreen DEF Alike

\* The end of a save, and of the flush that waited for it.
LEMMA ResumeFacts ==
  ASSUME IInv, NEW t, Sound(t), tab.shown # Null => t.shown # Null, NEW calm \in BOOLEAN,
         Resume(t, calm)
  PROVE  /\ Sound(tab') /\ (tab.shown # Null => tab'.shown # Null) /\ Render(tab')
         /\ tab'.version = t.version /\ tab'.base = t.base /\ tab'.astray = t.astray
         /\ tab'.prompt \in {t.prompt, NoPrompt}
         /\ publish' \in Publishes /\ (publish'.calm => publish.calm /\ calm)
         /\ publish'.at \in {"waiting", "sending"} => tab'.saving
         /\ publish'.at = "idle" => publish.at = "idle"
         /\ publish'.at = "sending" => tab'.pending = <<>>
         /\ publish'.at = "posting" => tab' = t /\ (publish.at = "waiting" => Queued(t) = <<>>)
<1> DEFINE c == publish.calm /\ calm
           at == IF publish.at \in {"waiting", "sending"} THEN "posting" ELSE publish.at
<1>1. publish \in Publishes
  BY DEF IInv, TypeOK
<1>2. c \in BOOLEAN /\ (c => publish.calm /\ calm)
  BY <1>1 DEF Publishes
<1>3. CASE publish.at = "waiting" /\ Queued(t) # <<>>
  <2>1. Render(Sending(t)) /\ publish' = [at |-> "sending", calm |-> c]
    BY <1>3 DEF Resume
  <2>2. tab' = Sending(t)
    BY <2>1 DEF Render
  <2>3. /\ Sound(tab') /\ Alike(t, tab') /\ tab'.saving /\ tab'.pending = <<>>
        /\ tab'.prompt = NoPrompt /\ tab'.version = t.version /\ tab'.base = t.base
        /\ tab'.astray = t.astray
    BY <2>2, SendingFacts
  <2> HIDE DEF c
  <2>4. publish' \in Publishes /\ publish'.at = "sending" /\ publish'.calm = c
    BY <1>2, <2>1 DEF Publishes
  <2> QED BY <1>2, <2>1, <2>2, <2>3, <2>4 DEF Alike
<1>4. CASE ~(publish.at = "waiting" /\ Queued(t) # <<>>)
  <2>1. Render(t) /\ publish' = [at |-> at, calm |-> c]
    BY <1>4 DEF Resume
  <2>2. tab' = t
    BY <2>1 DEF Render
  <2>3. /\ at \in {"idle", "posting"} /\ (at = "idle" => publish.at = "idle")
    BY <1>1 DEF Publishes
  <2> HIDE DEF c, at
  <2>4. publish' \in Publishes /\ publish'.at = at /\ publish'.calm = c
    BY <1>2, <2>1, <2>3 DEF Publishes
  <2> QED BY <1>2, <1>4, <2>1, <2>2, <2>3, <2>4
<1> QED BY <1>3, <1>4

\* What the server stores of a batch is a document.
LEMMA SavedFacts ==
  ASSUME IInv, Saved # Refused
  PROVE  /\ Saved \in Document /\ server.version = tab.version
         /\ Saved = ApplyPatch(tab.base, tab.inFlight)
         /\ Accepted => /\ ServerOK' /\ server'.version = server.version + 1
                        /\ server'.document = Saved /\ server'.published = server.published
<1>1. /\ tab \in Tab /\ InStep /\ server.document \in Document /\ server.version \in Nat
      /\ server = [document |-> server.document, version |-> server.version,
                   published |-> server.published]
  BY DEF IInv, TypeOK
<1>2. server.version = tab.version /\ Saved = ApplyPatch(server.document, tab.inFlight)
  BY DEF Saved
<1>3. tab.base = server.document /\ tab.inFlight \in Seq(Operation)
  BY <1>1, <1>2 DEF InStep, Tab
<1>4. Saved \in Document
  BY <1>1, <1>2, <1>3, StepsTyped
<1>5. ASSUME Accepted
      PROVE  /\ ServerOK' /\ server'.version = server.version + 1
             /\ server'.document = Saved /\ server'.published = server.published
  <2>1. server' = [server EXCEPT !.document = Saved, !.version = server.version + 1]
    BY <1>5 DEF Accepted
  <2>2. server' = [document |-> Saved, version |-> server.version + 1, published |-> server.published]
    BY <1>1, <2>1
  <2>3. server.version + 1 \in Nat
    BY <1>1
  <2> QED BY <1>4, <2>2, <2>3 DEF ServerOK
<1> QED BY <1>2, <1>3, <1>4, <1>5

\* An acknowledged save: the server made of its document what the engine makes of its base.
LEMMA AnswerSavedStep == IInv /\ AnswerSaved => IInv'
<1> SUFFICES ASSUME IInv, AnswerSaved PROVE IInv'
  OBVIOUS
<1> DEFINE t == Acknowledged(tab)
<1>1. /\ Sound(tab) /\ tab \in Tab /\ left \in Bounds /\ ids \in Nat /\ publish \in Publishes
      /\ InStep /\ Calm /\ tab.version \in Nat
  BY DEF IInv, TypeOK, Tab
<1>2. /\ ServerOK' /\ server'.version = server.version + 1 /\ server'.document = Saved
      /\ server.version = tab.version /\ Saved = ApplyPatch(tab.base, tab.inFlight) /\ Saved # Refused
  BY SavedFacts DEF AnswerSaved
<1>3. /\ Sound(t) /\ Alike(tab, t) /\ t.inFlight = <<>> /\ t.pending = tab.pending
      /\ t.version = tab.version + 1 /\ t.prompt = tab.prompt /\ t.astray = tab.astray
      /\ t.base = Saved
  BY <1>1, <1>2, AcknowledgedFacts
<1>4. tab.shown # Null => t.shown # Null
  BY <1>3 DEF Alike
<1>5. Queued(t) = tab.pending
  <2>1. tab.pending \in Seq(Operation)
    BY <1>1 DEF Tab
  <2> QED BY <1>3, <2>1, NothingAfter DEF Queued
<1> HIDE DEF t
<1>6. Resume(t, TRUE) /\ UNCHANGED <<ids, left>>
  BY DEF AnswerSaved, t
<1> DEFINE calm == TRUE
<1>7. calm \in BOOLEAN /\ Resume(t, calm)
  BY <1>6
<1> HIDE DEF calm
<1>8. /\ Sound(tab') /\ (tab.shown # Null => tab'.shown # Null) /\ Render(tab')
      /\ tab'.version = t.version /\ tab'.base = t.base /\ tab'.astray = t.astray
      /\ tab'.prompt \in {t.prompt, NoPrompt}
      /\ publish' \in Publishes /\ (publish'.calm => publish.calm /\ calm)
      /\ publish'.at \in {"waiting", "sending"} => tab'.saving
      /\ publish'.at = "idle" => publish.at = "idle"
      /\ publish'.at = "sending" => tab'.pending = <<>>
      /\ publish'.at = "posting" => tab' = t /\ (publish.at = "waiting" => Queued(t) = <<>>)
  BY <1>3, <1>4, <1>7, ResumeFacts
<1>9. InStep'
  <2>1. tab.prompt # NoPrompt => tab.prompt.version \in Nat /\ tab.prompt.version <= server.version
    BY <1>1 DEF InStep, Tab, Prompts
  <2>2. tab'.prompt # NoPrompt =>
          /\ tab'.prompt.version <= server'.version /\ tab'.prompt.version # server'.version
    BY <1>1, <1>2, <1>3, <1>8, <2>1
  <2> QED BY <1>1, <1>2, <1>3, <1>8, <2>2 DEF InStep
<1>10. Calm'
  <2> SUFFICES ASSUME publish'.calm
               PROVE  /\ publish'.at # "idle" /\ UpToDate'
                      /\ publish'.at = "posting" => Queued(tab') = <<>>
    BY <1>8 DEF Calm
  <2>1. publish.calm /\ publish.at # "idle" /\ UpToDate
    BY <1>1, <1>8 DEF Calm
  <2>2. UpToDate'
    BY <1>2, <1>3, <1>8, <2>1 DEF UpToDate
  <2>3. ASSUME publish'.at = "posting" PROVE Queued(tab') = <<>>
    <3>1. CASE publish.at = "waiting"
      BY <1>8, <2>3, <3>1
    <3>2. CASE publish.at = "sending"
      BY <1>1, <1>5, <1>8, <2>1, <2>3, <3>2 DEF Calm
    <3>3. CASE publish.at = "posting"
      <4>1. tab.inFlight \o tab.pending = <<>> /\ tab.inFlight \in Seq(Operation)
            /\ tab.pending \in Seq(Operation)
        BY <1>1, <2>1, <3>3 DEF Calm, Queued, Tab
      <4>2. tab.pending = <<>>
        BY <4>1, ConcatEqualIffEmpty
      <4> QED BY <1>5, <1>8, <2>3, <4>2
    <3> QED BY <1>1, <2>1, <3>1, <3>2, <3>3 DEF Publishes
  <2> QED BY <1>8, <2>1, <2>2, <2>3
<1> QED BY <1>1, <1>2, <1>6, <1>8, <1>9, <1>10, Rendered

\* The other ends of a save, after which a publication cannot be calm.
LEMMA AnsweredStep ==
  ASSUME IInv, NEW t, Sound(t), tab.shown # Null => t.shown # Null, Resume(t, FALSE), ServerOK',
         left' \in Bounds, left'.frame = left.frame, UNCHANGED ids,
         t.version <= server'.version,
         t.version = server'.version => t.base = server'.document,
         t.prompt # NoPrompt =>
           /\ t.prompt.version <= server'.version
           /\ t.prompt.version = server'.version => t.prompt.document = server'.document
  PROVE  IInv'
<1> DEFINE calm == FALSE
<1>1. calm \in BOOLEAN /\ Resume(t, calm) /\ ids \in Nat
  BY DEF IInv, TypeOK
<1>2. ~calm
  OBVIOUS
<1> HIDE DEF calm
<1>3. /\ Sound(tab') /\ (tab.shown # Null => tab'.shown # Null) /\ Render(tab')
      /\ tab'.version = t.version /\ tab'.base = t.base
      /\ tab'.prompt \in {t.prompt, NoPrompt}
      /\ publish' \in Publishes /\ (publish'.calm => calm)
      /\ publish'.at \in {"waiting", "sending"} => tab'.saving
  BY <1>1, ResumeFacts
<1>4. InStep'
  BY <1>3 DEF InStep
<1>5. Calm'
  BY <1>2, <1>3 DEF Calm
<1> QED BY <1>1, <1>3, <1>4, <1>5, Rendered

\* A conflict: rebased or asked about, the engine knows the server's version.
LEMMA AnswerConflictStep == IInv /\ AnswerConflict => IInv'
<1> SUFFICES ASSUME IInv, AnswerConflict PROVE IInv'
  OBVIOUS
<1>1. /\ Sound(tab) /\ left \in Bounds /\ InStep /\ server.document \in Document
      /\ server.version \in Nat /\ ServerOK
  BY DEF IInv, TypeOK, ServerOK
<1>2. /\ ServerOK' /\ UNCHANGED ids /\ left' \in Bounds /\ left'.frame = left.frame
      /\ server'.version = server.version /\ server'.document = server.document
      /\ server.version <= server.version
  BY <1>1 DEF AnswerConflict, ServerOK
<1>3. CASE Rebases
  <2> DEFINE t == Rebased(tab)
  <2>1. /\ Sound(t) /\ t.version = server.version /\ t.base = server.document
        /\ t.prompt = tab.prompt /\ (tab.shown # Null => t.shown # Null)
    BY <1>1, <1>3, RebasedFacts DEF Rebases
  <2>2. Resume(t, FALSE)
    BY <1>3 DEF AnswerConflict
  <2> HIDE DEF t
  <2>3. t.version <= server'.version /\ t.base = server'.document
    BY <1>2, <2>1
  <2>4. t.prompt # NoPrompt =>
          /\ t.prompt.version <= server'.version
          /\ t.prompt.version = server'.version => t.prompt.document = server'.document
    BY <1>1, <1>2, <2>1 DEF InStep
  <2> QED BY <1>2, <2>1, <2>2, <2>3, <2>4, AnsweredStep
<1>4. CASE ~Rebases
  <2> DEFINE t == Asking(tab)
             prompt == [document |-> server.document, version |-> server.version]
  <2>1. /\ Sound(t) /\ Alike(tab, t) /\ t.version = tab.version /\ t.base = tab.base
        /\ t.prompt = prompt
    BY <1>1, AskingFacts
  <2>2. Resume(t, FALSE)
    BY <1>4 DEF AnswerConflict
  <2>3. prompt.version = server.version /\ prompt.document = server.document
    OBVIOUS
  <2> HIDE DEF t, prompt
  <2>4. /\ t.version <= server'.version
        /\ t.version = server'.version => t.base = server'.document
    BY <1>1, <1>2, <2>1 DEF InStep
  <2>5. t.prompt.version <= server'.version /\ t.prompt.document = server'.document
    BY <1>2, <2>1, <2>3
  <2> QED BY <1>2, <2>1, <2>2, <2>4, <2>5, AnsweredStep DEF Alike
<1> QED BY <1>3, <1>4

\* A rejected save.
LEMMA AnswerRejectedStep == IInv /\ AnswerRejected => IInv'
<1> SUFFICES ASSUME IInv, AnswerRejected PROVE IInv'
  OBVIOUS
<1> DEFINE t == Dropped(tab)
<1>1. Sound(tab) /\ left \in Bounds /\ InStep /\ ServerOK
  BY DEF IInv, TypeOK, ServerOK
<1>2. UNCHANGED <<server, ids, left>> /\ ServerOK' /\ Resume(t, FALSE)
  BY <1>1 DEF AnswerRejected, ServerOK
<1>3. /\ Sound(t) /\ Alike(tab, t) /\ t.version = tab.version /\ t.base = tab.base
      /\ t.prompt = tab.prompt
  BY <1>1, DroppedFacts
<1> HIDE DEF t
<1> QED BY <1>1, <1>2, <1>3, AnsweredStep DEF InStep, Alike

\* A lost answer: the server may be a version ahead now.
LEMMA LoseAnswerStep == IInv /\ LoseAnswer => IInv'
<1> SUFFICES ASSUME IInv, LoseAnswer PROVE IInv'
  OBVIOUS
<1> DEFINE t == [tab EXCEPT !.saving = FALSE]
<1>1. /\ Sound(tab) /\ left \in Bounds /\ InStep /\ ServerOK /\ server.version \in Nat
      /\ tab.version \in Nat /\ tab.prompt \in Prompts
  BY DEF IInv, TypeOK, ServerOK, Tab
<1>2. UNCHANGED ids /\ Resume(t, FALSE) /\ left' \in Bounds /\ left'.frame = left.frame
  BY <1>1, SpendFacts DEF LoseAnswer
<1>3. /\ Sound(t) /\ Alike(tab, t) /\ t.version = tab.version /\ t.base = tab.base
      /\ t.prompt = tab.prompt
  BY <1>1, UnansweredFacts
<1> HIDE DEF t
<1>4. CASE UNCHANGED server
  <2>1. ServerOK'
    BY <1>1, <1>4 DEF ServerOK
  <2> QED BY <1>1, <1>2, <1>3, <1>4, <2>1, AnsweredStep DEF InStep, Alike
<1>5. CASE Saved # Refused /\ Accepted
  <2>1. ServerOK' /\ server'.version = server.version + 1
    BY <1>5, SavedFacts
  <2>2. t.version <= server'.version /\ t.version # server'.version
    BY <1>1, <1>3, <2>1 DEF InStep
  <2>3. t.prompt # NoPrompt =>
          t.prompt.version <= server'.version /\ t.prompt.version # server'.version
    <3> SUFFICES ASSUME t.prompt # NoPrompt
                 PROVE  t.prompt.version <= server'.version /\ t.prompt.version # server'.version
      OBVIOUS
    <3>1. t.prompt.version \in Nat /\ t.prompt.version <= server.version
      BY <1>1, <1>3 DEF InStep, Prompts
    <3> QED BY <1>1, <2>1, <3>1
  <2> QED BY <1>2, <1>3, <2>1, <2>2, <2>3, AnsweredStep DEF Alike
<1> QED BY <1>4, <1>5 DEF LoseAnswer

\* An answer to the prompt, which may be about a version gone by.
LEMMA ResolveStep == IInv /\ Resolve => IInv'
<1> SUFFICES ASSUME IInv, Resolve PROVE IInv'
  OBVIOUS
<1>1. /\ Sound(tab) /\ left \in Bounds /\ ids \in Nat /\ InStep /\ ServerOK /\ Calm
      /\ tab.prompt # NoPrompt /\ publish \in Publishes
  BY DEF IInv, TypeOK, ServerOK, Resolve
<1>2. UNCHANGED <<server, ids, left>> /\ ServerOK' /\ Disturbed
  BY <1>1 DEF Resolve, ServerOK
<1>3. PICK t \in {KeptMine(tab), TookTheirs(tab)} : Render(t)
  BY DEF Resolve
<1>4. /\ Sound(t) /\ t.saving = tab.saving /\ t.version = tab.prompt.version
      /\ t.base = tab.prompt.document /\ t.prompt = NoPrompt /\ (tab.shown # Null => t.shown # Null)
  BY <1>1, <1>3, KeptMineFacts, TookTheirsFacts
<1>5. publish' \in Publishes /\ publish'.at = publish.at /\ ~publish'.calm
  BY <1>1, <1>2, DisturbedFacts
<1>6. tab' = t
  BY <1>3 DEF Render
<1>7. InStep'
  BY <1>1, <1>2, <1>4, <1>6 DEF InStep
<1>8. Calm'
  BY <1>1, <1>4, <1>5, <1>6 DEF Calm
<1> QED BY <1>1, <1>2, <1>3, <1>4, <1>5, <1>7, <1>8, Rendered

\* The other device's save: the server is ahead, with a document that fits.
LEMMA OtherSavesStep == IInv /\ OtherSaves => IInv'
<1> SUFFICES ASSUME IInv, OtherSaves PROVE IInv'
  OBVIOUS
<1>1. /\ Sound(tab) /\ left \in Bounds /\ ids \in Nat /\ InStep /\ ServerOK /\ Calm
      /\ publish \in Publishes /\ server.document \in Document /\ server.version \in Nat
      /\ tab.version \in Nat /\ tab.prompt \in Prompts
  BY DEF IInv, TypeOK, ServerOK, Tab
<1>2. /\ UNCHANGED <<tab, preview>> /\ Disturbed /\ ids' \in Nat
      /\ left' \in Bounds /\ left'.frame = left.frame
  BY <1>1, SpendFacts DEF OtherSaves
<1>3. PICK batches \in Offered(server.document, ids) :
        server' = [server EXCEPT !.document = Performed(Opened(server.document, 1), batches).document,
                                 !.version = server.version + 1]
  BY DEF OtherSaves
<1> DEFINE opened == Opened(server.document, 1)
           made == Performed(opened, batches).document
           next == server.version + 1
<1>4. made \in Document
  <2>1. Sound(opened)
    BY <1>1, OpenedSound
  <2>2. batches \in Batches
    BY <1>1, <1>3, OfferedTyped
  <2> HIDE DEF opened
  <2>3. Sound(Performed(opened, batches))
    BY <2>1, <2>2, PerformedSound
  <2> QED BY <2>3 DEF Sound, Tab
<1>5. server' = [server EXCEPT !.document = made, !.version = next]
  BY <1>3
<1>6. next \in Nat /\ next > server.version
  BY <1>1
<1> HIDE DEF made, next
<1>7. ServerOK' /\ server'.version = next
  <2>1. server' = [document |-> made, version |-> next, published |-> server.published]
    BY <1>1, <1>5 DEF ServerOK
  <2> QED BY <1>4, <1>6, <2>1 DEF ServerOK
<1>8. publish' \in Publishes /\ publish'.at = publish.at /\ ~publish'.calm
  BY <1>1, <1>2, DisturbedFacts
<1>9. InStep'
  <2>1. tab.version <= next /\ tab.version # next
    BY <1>1, <1>6 DEF InStep
  <2>2. tab.prompt # NoPrompt => tab.prompt.version <= next /\ tab.prompt.version # next
    <3> SUFFICES ASSUME tab.prompt # NoPrompt
                 PROVE  tab.prompt.version <= next /\ tab.prompt.version # next
      OBVIOUS
    <3>1. tab.prompt.version \in Nat /\ tab.prompt.version <= server.version
      BY <1>1 DEF InStep, Prompts
    <3> QED BY <1>1, <1>6, <3>1
  <2> QED BY <1>2, <1>7, <2>1, <2>2 DEF InStep
<1>10. Calm'
  BY <1>1, <1>2, <1>8 DEF Calm
<1> QED BY <1>1, <1>2, <1>7, <1>8, <1>9, <1>10, BehindTheScreen

\* A loading frame is one.
LEMMA LoadingTyped == \A d \in Document : Loading(d) \in View
<1> SUFFICES ASSUME NEW d \in Document PROVE Loading(d) \in View
  OBVIOUS
<1> DEFINE shows == Shown(d, Null)
           none == <<>>
<1>1. shows \in Document \cup {Null} /\ none \in Seq(Document)
  BY DEF Shown
<1>2. Loading(d) = [hydrated |-> FALSE, listening |-> FALSE, shows |-> shows, wire |-> none,
                    announced |-> FALSE, load |-> TRUE, ready |-> FALSE, queue |-> none,
                    heard |-> FALSE]
  BY DEF Loading
<1> HIDE DEF shows, none
<1> QED BY <1>1, <1>2 DEF View

\* The hidden frame is one.
LEMMA HiddenTyped == Hidden \in View
<1> DEFINE none == <<>>
<1>1. none \in Seq(Document)
  OBVIOUS
<1>2. Hidden = [hydrated |-> TRUE, listening |-> FALSE, shows |-> Null, wire |-> none,
                announced |-> FALSE, load |-> FALSE, ready |-> FALSE, queue |-> none,
                heard |-> FALSE]
  BY DEF Hidden
<1> HIDE DEF none
<1> QED BY <1>1, <1>2 DEF View

\* A page just opened has the server's document.
LEMMA ReloadStep == IInv /\ Reload => IInv'
<1> SUFFICES ASSUME IInv, Reload PROVE IInv'
  OBVIOUS
<1> DEFINE t == Opened(server.document, server.version)
<1>1. /\ left \in Bounds /\ ids \in Nat /\ ServerOK /\ Calm /\ publish \in Publishes
      /\ server.document \in Document /\ server.version \in Nat
  BY DEF IInv, TypeOK, ServerOK
<1>2. /\ tab' = t /\ UNCHANGED <<server, publish, ids>> /\ publish.at = "idle"
      /\ left' \in Bounds /\ left'.frame = left.frame
  BY <1>1, SpendFacts DEF Reload
<1>3. Sound(tab')
  BY <1>1, <1>2, OpenedSound
<1>4. tab'.version = server.version /\ tab'.base = server.document /\ tab'.prompt = NoPrompt
  BY <1>2 DEF Opened
<1>5. InStep'
  BY <1>1, <1>2, <1>4 DEF InStep
<1>6. Calm'
  BY <1>1, <1>2 DEF Calm
<1>7. preview' = IF left.frame THEN Loading(server.document) ELSE Hidden
  BY DEF Reload
<1>8. preview' \in View
  BY <1>1, <1>7, LoadingTyped, HiddenTyped
<1>9. InFrame'
  BY <1>2, <1>7 DEF InFrame, Loading, Hidden
<1>10. TypeOK'
  BY <1>1, <1>2, <1>3, <1>8 DEF TypeOK, Sound, ServerOK
<1> QED BY <1>3, <1>5, <1>6, <1>9, <1>10 DEF IInv

\* A press of the button finds what is queued sent, being sent, or nothing to send.
LEMMA PressStep == IInv /\ Press => IInv'
<1> SUFFICES ASSUME IInv, Press PROVE IInv'
  OBVIOUS
<1> DEFINE calm == UpToDate
<1>1. /\ Sound(tab) /\ left \in Bounds /\ ids \in Nat /\ InStep /\ ServerOK /\ tab.saving \in BOOLEAN
  BY DEF IInv, TypeOK, ServerOK, Tab
<1>2. /\ UNCHANGED <<server, preview, ids>> /\ left' \in Bounds /\ left'.frame = left.frame
  BY <1>1, SpendFacts DEF Press
<1>3. calm \in BOOLEAN /\ (calm => UpToDate)
  BY DEF UpToDate
<1>4. ServerOK'
  BY <1>1, <1>2 DEF ServerOK
<1> HIDE DEF calm
<1>5. CASE ~tab.saving /\ Queued(tab) # <<>>
  <2>1. tab' = Sending(tab) /\ publish' = [at |-> "sending", calm |-> calm]
    BY <1>5 DEF Press, calm
  <2>2. /\ Sound(tab') /\ Alike(tab, tab') /\ tab'.saving /\ tab'.pending = <<>>
        /\ tab'.prompt = NoPrompt /\ tab'.version = tab.version /\ tab'.base = tab.base
        /\ tab'.astray = tab.astray
    BY <1>1, <2>1, SendingFacts
  <2>3. publish' \in Publishes /\ publish'.at = "sending" /\ publish'.calm = calm
    BY <1>3, <2>1 DEF Publishes
  <2>4. InStep'
    BY <1>1, <1>2, <2>2 DEF InStep
  <2>5. Calm'
    BY <1>2, <1>3, <2>2, <2>3 DEF Calm, UpToDate
  <2> QED BY <1>1, <1>2, <1>4, <2>2, <2>3, <2>4, <2>5, BehindTheScreen DEF Alike
<1>6. CASE ~(~tab.saving /\ Queued(tab) # <<>>)
  <2> DEFINE at == IF tab.saving THEN "waiting" ELSE "posting"
  <2>1. UNCHANGED tab /\ publish' = [at |-> at, calm |-> calm]
    BY <1>6 DEF Press, calm, Awaiting
  <2>2. /\ at \in {"waiting", "posting"} /\ (at = "waiting" => tab.saving)
        /\ at = "posting" => Queued(tab) = <<>>
    BY <1>6
  <2> HIDE DEF at
  <2>3. publish' \in Publishes /\ publish'.at = at /\ publish'.calm = calm
    BY <1>3, <2>1, <2>2 DEF Publishes
  <2>4. InStep'
    BY <1>1, <1>2, <2>1 DEF InStep
  <2>5. Calm'
    <3>1. Queued(tab') = Queued(tab)
      BY <2>1
    <3>2. at \notin {"idle", "sending"}
      BY <2>2
    <3> QED BY <1>2, <1>3, <2>1, <2>2, <2>3, <3>1, <3>2 DEF Calm, UpToDate
  <2> QED BY <1>1, <1>2, <1>4, <2>1, <2>3, <2>4, <2>5, BehindTheScreen
<1> QED BY <1>5, <1>6

\* A publication changes no document.
LEMMA PostStep == IInv /\ Post => IInv'
<1> SUFFICES ASSUME IInv, Post PROVE IInv'
  OBVIOUS
<1>1. /\ Sound(tab) /\ left \in Bounds /\ ids \in Nat /\ InStep /\ ServerOK
  BY DEF IInv, TypeOK, ServerOK
<1>2. UNCHANGED <<tab, preview, ids, left>>
  BY DEF Post
<1>3. ServerOK' /\ server'.document = server.document /\ server'.version = server.version
  <2> DEFINE made == ResolveDocument(server.document)
  <2>1. server' = server \/ server' = [server EXCEPT !.published = made]
    BY DEF Post
  <2> HIDE DEF made
  <2> QED BY <1>1, <2>1 DEF ServerOK
<1>4. publish' \in Publishes /\ publish'.at = "idle" /\ ~publish'.calm
  BY DEF Post, NotPublishing, Publishes
<1>5. InStep'
  BY <1>1, <1>2, <1>3 DEF InStep
<1>6. Calm'
  BY <1>4 DEF Calm
<1> QED BY <1>1, <1>2, <1>3, <1>4, <1>5, <1>6, BehindTheScreen

(* ----------------------------- the theorems ---------------------------- *)

\* A page as it opens.
LEMMA InitIInv == Init => IInv
<1> SUFFICES ASSUME Init PROVE IInv
  OBVIOUS
<1>1. PICK document \in Drafts :
        /\ server = [document |-> document, version |-> 1, published |-> Null]
        /\ tab = Opened(document, 1)
        /\ left \in Sittings
        /\ preview = IF left.frame THEN Loading(document) ELSE Hidden
  BY DEF Init
<1>2. document \in Document /\ left \in Bounds
  BY <1>1, SittingsAssumption
<1>3. Sound(tab)
  BY <1>1, <1>2, OpenedSound
<1>4. tab.version = 1 /\ tab.base = document /\ tab.prompt = NoPrompt
  BY <1>1 DEF Opened
<1>5. InStep
  BY <1>1, <1>4 DEF InStep
<1>6. publish \in Publishes /\ publish.at = "idle" /\ ~publish.calm /\ ids \in Nat
  BY DEF Init, NotPublishing, Publishes
<1>7. Calm
  BY <1>6 DEF Calm
<1>8. preview \in View
  BY <1>1, <1>2, LoadingTyped, HiddenTyped
<1>9. InFrame
  BY <1>1 DEF InFrame, Loading, Hidden
<1>10. TypeOK
  BY <1>1, <1>2, <1>3, <1>6, <1>8 DEF TypeOK, Sound
<1> QED BY <1>3, <1>5, <1>7, <1>9, <1>10 DEF IInv

\* Every step keeps the invariant.
LEMMA NextIInv == IInv /\ [Next]_vars => IInv'
<1> SUFFICES ASSUME IInv, [Next]_vars PROVE IInv'
  OBVIOUS
<1>1. CASE Next
  BY <1>1, HydrateStep, FrameListensStep, ReceiveAnnouncementStep, FrameLoadedStep,
     FrameReceivesStep, FrameReloadsStep, EditStep, UndoStep, RedoStep, SendStep,
     AnswerSavedStep, AnswerConflictStep, AnswerRejectedStep, LoseAnswerStep, ResolveStep,
     OtherSavesStep, ReloadStep, PressStep, PostStep
     DEF Next
<1>2. CASE UNCHANGED vars
  <2>1. preview \in View /\ left \in Bounds /\ InFrame
    BY DEF IInv, TypeOK
  <2>2. preview' \in View /\ left' \in Bounds /\ UNCHANGED <<server, tab, publish, ids>>
    BY <1>2, <2>1 DEF vars
  <2>3. InFrame'
    BY <1>2, <2>1 DEF vars, InFrame
  <2> QED BY <2>2, <2>3, FrameOnly
<1> QED BY <1>1, <1>2

\* The invariant holds throughout.
THEOREM Invariance == Spec => []IInv
BY InitIInv, NextIInv, PTL DEF Spec

\* Every variable keeps its type: whatever is edited, undone, rebased and saved, the documents are
\* documents, the queues patches made of the builder's operations.
THEOREM TypesHold == Spec => []TypeOK
<1>1. IInv => TypeOK
  BY DEF IInv
<1> QED BY <1>1, Invariance, PTL

\* QueueRebuildsDocument, for any drafts, however many edits and however they are interleaved
\* with saves: what is queued turns the document last acknowledged into the one edited here.
THEOREM QueueRebuilds == Spec => []QueueRebuildsDocument
<1>1. IInv => QueueRebuildsDocument
  BY DEF IInv, Sound, Rebuilds, QueueRebuildsDocument
<1> QED BY <1>1, Invariance, PTL

\* FrameCatchesUp, for any number of edits, reloads and signals in any order: a listening frame
\* with nothing on its way shows the document on the screen.
THEOREM FrameIsCaughtUp == Spec => []FrameCatchesUp
<1>1. IInv => FrameCatchesUp
  BY DEF IInv, InFrame, FrameCatchesUp
<1> QED BY <1>1, Invariance, PTL

\* UndoIsTimeTravel, for histories of any length: an undo gives back exactly the document its
\* edit was made on, a redo the one it made, until a conflict puts another in place.
THEOREM UndoTravels == Spec => UndoIsTimeTravel
<1> DEFINE Travels == ~tab.moved => /\ Undo => tab'.document = Last(tab.undo).before
                                    /\ Redo => tab'.document = Last(tab.redo).after
<1>1. IInv /\ [Next]_vars => [Travels]_vars
  BY UndoStep, RedoStep
<1>2. Spec => [][Travels]_vars
  BY <1>1, Invariance, PTL DEF Spec
<1> QED BY <1>2 DEF UndoIsTimeTravel

\* PublishTakesTheScreen, for any queue and any save under way: a publication that nothing
\* disturbs takes what the screen showed when its button was pressed.
THEOREM PublicationTakesTheScreen == Spec => PublishTakesTheScreen
<1> DEFINE Takes == publish.calm /\ server'.published # server.published =>
                      server'.published = ResolveDocument(tab.shown)
<1>1. ASSUME IInv, Next PROVE Takes
  <2> SUFFICES ASSUME publish.calm, server'.published # server.published
               PROVE  server'.published = ResolveDocument(tab.shown)
    OBVIOUS
  <2>1. /\ ServerOK /\ Calm /\ InStep /\ publish \in Publishes /\ tab \in Tab
        /\ Rebuilds(tab) /\ OnScreen(tab)
    BY <1>1 DEF IInv, TypeOK, ServerOK, Sound
  <2>2. Post
    <3>1. server' # server
      OBVIOUS
    <3>2. ~AnswerSaved /\ ~LoseAnswer
      <4>1. Saved # Refused /\ Accepted => server'.published = server.published
        BY <1>1, SavedFacts
      <4> QED BY <3>1, <4>1 DEF AnswerSaved, LoseAnswer
    <3>3. ~OtherSaves
      <4> SUFFICES ASSUME OtherSaves PROVE server'.published = server.published
        OBVIOUS
      <4>1. PICK batches \in Offered(server.document, ids) :
              server' = [server EXCEPT
                           !.document = Performed(Opened(server.document, 1), batches).document,
                           !.version = server.version + 1]
        BY DEF OtherSaves
      <4> DEFINE made == Performed(Opened(server.document, 1), batches).document
                 next == server.version + 1
      <4>2. server' = [server EXCEPT !.document = made, !.version = next]
        BY <4>1
      <4> HIDE DEF made, next
      <4> QED BY <2>1, <4>2 DEF ServerOK
    <3>4. UNCHANGED server \/ AnswerSaved \/ LoseAnswer \/ OtherSaves \/ Post
      BY <1>1 DEF Next, Hydrate, FrameListens, ReceiveAnnouncement, FrameLoaded, FrameReceives,
         FrameReloads, Edit, Undo, Redo, Send, AnswerConflict, AnswerRejected, Resolve, Reload, Press
    <3> QED BY <3>1, <3>2, <3>3, <3>4
  <2>3. publish.at = "posting"
    BY <2>2 DEF Post
  <2>4. tab.base = server.document /\ ~tab.astray /\ Queued(tab) = <<>>
    BY <2>1, <2>3 DEF Calm, UpToDate, InStep
  <2>5. tab.document = server.document
    BY <2>1, <2>4, ApplyNothing DEF Rebuilds
  <2> DEFINE made == ResolveDocument(server.document)
  <2>6. /\ ParseDraftDocument(server.document)
        /\ server' = [server EXCEPT !.published = made]
    BY <2>2 DEF Post
  <2>7. tab.shown = server.document
    BY <2>1, <2>5, <2>6 DEF OnScreen
  <2>8. server'.published = made
    <3> HIDE DEF made
    <3> QED BY <2>1, <2>6 DEF ServerOK
  <2> QED BY <2>7, <2>8
<1>2. IInv /\ [Next]_vars => [Takes]_vars
  BY <1>1
<1> HIDE DEF Takes
<1>3. Spec => [][Takes]_vars
  BY <1>2, Invariance, PTL DEF Spec
<1> QED BY <1>3 DEF PublishTakesTheScreen, Takes

\* ReadyMeansPublishable, for documents of any size: the document on the screen, if its readiness
\* panel finds it complete, is published without a refusal and drawn as the preview draws it.
THEOREM ReadyIsPublishable == Spec => []ReadyMeansPublishable
<1>1. ASSUME IInv, tab.shown # Null, CanPublish(tab.shown)
      PROVE  tab.shown \in Document /\ ParseDraftDocument(tab.shown)
  BY <1>1 DEF IInv, TypeOK, Sound, OnScreen, Tab
<1>2. IInv => ReadyMeansPublishable
  BY <1>1, Publishable DEF ReadyMeansPublishable
<1> QED BY <1>2, Invariance, PTL

=============================================================================
