------------------------ MODULE EditorSaves_proofs -------------------------
(***************************************************************************)
(* Theorems about the designer's saves, for any projects, any undo limit   *)
(* and any number of acts, saves of others, lost calls and expired leases. *)
(***************************************************************************)
EXTENDS EditorSaves, SequenceTheorems, TLAPS

\* the documents of the editor
Docs == {doc} \cup {undo[n] : n \in DOMAIN undo} \cup {redo[n] : n \in DOMAIN redo}

\* Every document has an origin, and every armed autosave an act behind it.
Rooted ==
    /\ \A d \in Docs : d.origin \in DOMAIN origins
    /\ \A i \in DOMAIN saves : saves[i].sent.origin \in DOMAIN origins

Counted == Len(saves) + (IF timer THEN 1 ELSE 0) <= acts

TypeInv == TypeOK /\ Rooted /\ Counted

\* since the revision it began with, o wrote all of p up to revision n
Own(p, o, n) == \A m \in (origins[o].at + 1)..n : versions[p][m] = o

\* What a document claims is true, unless it got what another one earned.
Based(d) ==
    IF d.id = None
    THEN origins[d.origin].project = None /\ origins[d.origin].at = 0 /\ d.revision = 0
    ELSE /\ d.revision <= Len(versions[d.id])
         /\ d.origin \notin stamped => /\ origins[d.origin].project \in {d.id, None}
                                       /\ Own(d.id, d.origin, d.revision)

\* What a save sends and what it is told is true in the same sense.
Sound(s) ==
    /\ s.revision <= Len(versions[s.id])
    /\ (s.stage = "creating" \/ s.revision > 0) => s.sent.id = s.id
    /\ (s.sent.origin \notin stamped /\ s.sent.id = s.id) =>
          /\ origins[s.sent.origin].project \in {s.id, None}
          /\ s.sent.revision <= Len(versions[s.id])
          /\ Own(s.id, s.sent.origin, s.sent.revision)
          /\ Own(s.id, s.sent.origin, s.revision)

Sent  == {saves[i] : i \in DOMAIN saves}
Reads == {reads[n] : n \in DOMAIN reads}

DocsInv  == \A d \in Docs : Based(d)
SavesInv == \A s \in Sent : Sound(s)
ReadsInv == \A r \in Reads : r.at <= Len(versions[r.project])

\* revision n of p replaced nothing but what its author's document contains
Earned(p, n) == versions[p][n] \notin {Others} \cup stamped => BuiltUpon(p, n)

\* the inductive invariants
ClaimsInv == TypeInv /\ DocsInv /\ SavesInv /\ ReadsInv /\ NothingOverwritten

\* a lease belongs to a save of its project
LeaseInv == \A p \in Ids : leases[p] # 0 => saves[leases[p]].id = p

LeasesInv == TypeInv /\ LeaseInv /\ LeaseReturned

-----------------------------------------------------------------------------
(* Lemmas about sequences *)

LEMMA Appended ==
  ASSUME NEW S, NEW s \in Seq(S), NEW x \in S
  PROVE  /\ Append(s, x) \in Seq(S) /\ Len(Append(s, x)) = Len(s) + 1
         /\ DOMAIN s = 1..Len(s) /\ DOMAIN Append(s, x) = 1..(Len(s) + 1)
         /\ \A n \in DOMAIN s : Append(s, x)[n] = s[n]
         /\ Append(s, x)[Len(s) + 1] = x
         /\ Len(s) \in Nat
BY AppendProperties, LenProperties

LEMMA Single ==
  ASSUME NEW S, NEW x \in S
  PROVE  <<x>> \in Seq(S) /\ Len(<<x>>) = 1 /\ <<x>>[1] = x /\ DOMAIN <<x>> = {1}
<1>1. <<x>> \in Seq(S) /\ Len(<<x>>) = 1 /\ <<x>>[1] = x
  OBVIOUS
<1>2. DOMAIN <<x>> = 1..1
  BY <1>1, LenProperties
<1> QED BY <1>1, <1>2

LEMMA Fronted ==
  ASSUME NEW S, NEW s \in Seq(S), s # <<>>
  PROVE  /\ Front(s) \in Seq(S) /\ Len(Front(s)) = Len(s) - 1
         /\ Last(s) \in {s[n] : n \in DOMAIN s} /\ Last(s) \in S
         /\ {Front(s)[n] : n \in DOMAIN Front(s)} \subseteq {s[n] : n \in DOMAIN s}
<1>1. Len(s) \in Nat \ {0} /\ DOMAIN s = 1..Len(s)
  BY EmptySeq, LenProperties
<1>2. \A n \in 1..Len(s) : s[n] \in S
  BY ElementOfSeq
<1>3. /\ SubSeq(s, 1, Len(s) - 1) \in Seq(S)
      /\ Len(SubSeq(s, 1, Len(s) - 1)) = Len(s) - 1
      /\ \A n \in 1..(Len(s) - 1) : SubSeq(s, 1, Len(s) - 1)[n] = s[n]
  <2>1. CASE Len(s) = 1
    <3>1. SubSeq(s, 1, 0) = <<>>
      BY <1>1, <2>1, SubSeqProperties
    <3> QED BY <2>1, <3>1, EmptySeq
  <2>2. CASE Len(s) > 1
    <3>1. \A n \in 1..(Len(s) - 1) : s[n] \in S
      BY <1>1, <1>2
    <3>2. 1 \in Int /\ Len(s) - 1 \in Int /\ 1 <= Len(s) - 1
      BY <1>1, <2>2
    <3> QED BY <1>1, <3>1, <3>2, SubSeqProperties
  <2> QED BY <1>1, <2>1, <2>2
<1>4. DOMAIN Front(s) = 1..(Len(s) - 1)
  BY <1>1, <1>3, LenProperties DEF Front
<1> QED BY <1>1, <1>2, <1>3, <1>4 DEF Front, Last

LEMMA Tailed ==
  ASSUME NEW S, NEW s \in Seq(S), s # <<>>
  PROVE  /\ Tail(s) \in Seq(S) /\ Len(Tail(s)) = Len(s) - 1
         /\ Head(s) \in S
         /\ {Tail(s)[n] : n \in DOMAIN Tail(s)} \subseteq {s[n] : n \in DOMAIN s}
<1>1. Len(s) \in Nat \ {0} /\ DOMAIN s = 1..Len(s)
  BY EmptySeq, LenProperties
<1>2. /\ Head(s) \in S /\ Tail(s) \in Seq(S) /\ Len(Tail(s)) = Len(s) - 1
      /\ \A n \in 1..Len(Tail(s)) : Tail(s)[n] = s[n + 1]
  BY HeadTailProperties
<1>3. DOMAIN Tail(s) = 1..(Len(s) - 1)
  BY <1>2, LenProperties
<1> QED BY <1>1, <1>2, <1>3

-----------------------------------------------------------------------------
(* What the steps do *)

\* Edit, Undo and Redo put no document in place that was not there
LEMMA Shuffled ==
  ASSUME TypeOK, Edit \/ Undo \/ Redo
  PROVE  /\ doc' \in Doc /\ undo' \in Seq(Doc) /\ redo' \in Seq(Doc)
         /\ Len(undo') + Len(redo') <= UndoLimit
         /\ doc' \in Docs /\ Docs' \subseteq Docs
<1>1. /\ doc \in Doc /\ undo \in Seq(Doc) /\ redo \in Seq(Doc)
      /\ Len(undo) \in Nat /\ Len(redo) \in Nat /\ UndoLimit \in Nat \ {0}
      /\ Len(undo) + Len(redo) <= UndoLimit
  BY LenProperties, EditorAssumption DEF TypeOK
<1>2. CASE Edit
  <2> DEFINE s == Append(undo, doc)
  <2>1. /\ s \in Seq(Doc) /\ Len(s) = Len(undo) + 1
        /\ {s[n] : n \in DOMAIN s} \subseteq Docs
    <3>1. /\ s \in Seq(Doc) /\ Len(s) = Len(undo) + 1
          /\ DOMAIN undo = 1..Len(undo) /\ DOMAIN s = 1..(Len(undo) + 1)
          /\ \A n \in DOMAIN undo : s[n] = undo[n]
          /\ s[Len(undo) + 1] = doc
      BY <1>1, Appended
    <3>2. ASSUME NEW n \in DOMAIN s
          PROVE  s[n] \in Docs
      <4>1. n \in DOMAIN undo \/ n = Len(undo) + 1
        BY <1>1, <3>1
      <4> QED BY <3>1, <4>1 DEF Docs
    <3> QED BY <3>1, <3>2
  <2>2. s # <<>>
    BY <1>1, <2>1, EmptySeq
  <2> HIDE DEF s
  <2>3. /\ Tail(s) \in Seq(Doc) /\ Len(Tail(s)) = Len(s) - 1
        /\ {Tail(s)[n] : n \in DOMAIN Tail(s)} \subseteq {s[n] : n \in DOMAIN s}
    BY <2>1, <2>2, Tailed
  <2>4. undo' = (IF Len(s) > UndoLimit THEN Tail(s) ELSE s) /\ redo' = <<>> /\ doc' = doc
    BY <1>2 DEF Edit, Remembered, s
  <2>5. undo' \in Seq(Doc) /\ Len(undo') <= UndoLimit
        /\ {undo'[n] : n \in DOMAIN undo'} \subseteq Docs
    BY <1>1, <2>1, <2>3, <2>4
  <2>6. redo' \in Seq(Doc) /\ Len(redo') = 0 /\ DOMAIN redo' = {}
    <3>1. Len(redo') = 0 /\ redo' \in Seq(Doc)
      BY <2>4, EmptySeq
    <3>2. DOMAIN redo' = 1..0
      BY <3>1, LenProperties
    <3> QED BY <3>1, <3>2
  <2>7. Len(undo') \in Nat
    BY <2>5, LenProperties
  <2>8. doc \in Docs
    BY DEF Docs
  <2>9. Docs' \subseteq Docs
    BY <2>4, <2>5, <2>6, <2>8 DEF Docs
  <2> QED BY <1>1, <2>4, <2>5, <2>6, <2>7, <2>8, <2>9
<1>3. CASE Undo
  <2>1. /\ undo # <<>> /\ doc' = Last(undo)
        /\ undo' = Front(undo) /\ redo' = Append(redo, doc)
    BY <1>3 DEF Undo
  <2>2. /\ Front(undo) \in Seq(Doc) /\ Len(Front(undo)) = Len(undo) - 1
        /\ Last(undo) \in {undo[n] : n \in DOMAIN undo} /\ Last(undo) \in Doc
        /\ {Front(undo)[n] : n \in DOMAIN Front(undo)} \subseteq {undo[n] : n \in DOMAIN undo}
    BY <1>1, <2>1, Fronted
  <2>3. /\ redo' \in Seq(Doc) /\ Len(redo') = Len(redo) + 1
        /\ DOMAIN redo = 1..Len(redo) /\ DOMAIN redo' = 1..(Len(redo) + 1)
        /\ \A n \in DOMAIN redo : redo'[n] = redo[n]
        /\ redo'[Len(redo) + 1] = doc
    BY <1>1, <2>1, Appended
  <2>4. {redo'[n] : n \in DOMAIN redo'} \subseteq Docs
    <3> SUFFICES ASSUME NEW n \in DOMAIN redo'
                 PROVE  redo'[n] \in Docs
      OBVIOUS
    <3>1. n \in DOMAIN redo \/ n = Len(redo) + 1
      BY <1>1, <2>3
    <3> QED BY <2>3, <3>1 DEF Docs
  <2>5. doc' \in Docs /\ {undo'[n] : n \in DOMAIN undo'} \subseteq Docs
    BY <2>1, <2>2 DEF Docs
  <2>6. Docs' \subseteq Docs
    BY <2>4, <2>5 DEF Docs
  <2> QED BY <1>1, <2>1, <2>2, <2>3, <2>5, <2>6
<1>4. CASE Redo
  <2>1. /\ redo # <<>> /\ doc' = Last(redo)
        /\ redo' = Front(redo) /\ undo' = Append(undo, doc)
    BY <1>4 DEF Redo
  <2>2. /\ Front(redo) \in Seq(Doc) /\ Len(Front(redo)) = Len(redo) - 1
        /\ Last(redo) \in {redo[n] : n \in DOMAIN redo} /\ Last(redo) \in Doc
        /\ {Front(redo)[n] : n \in DOMAIN Front(redo)} \subseteq {redo[n] : n \in DOMAIN redo}
    BY <1>1, <2>1, Fronted
  <2>3. /\ undo' \in Seq(Doc) /\ Len(undo') = Len(undo) + 1
        /\ DOMAIN undo = 1..Len(undo) /\ DOMAIN undo' = 1..(Len(undo) + 1)
        /\ \A n \in DOMAIN undo : undo'[n] = undo[n]
        /\ undo'[Len(undo) + 1] = doc
    BY <1>1, <2>1, Appended
  <2>4. {undo'[n] : n \in DOMAIN undo'} \subseteq Docs
    <3> SUFFICES ASSUME NEW n \in DOMAIN undo'
                 PROVE  undo'[n] \in Docs
      OBVIOUS
    <3>1. n \in DOMAIN undo \/ n = Len(undo) + 1
      BY <1>1, <2>3
    <3> QED BY <2>3, <3>1 DEF Docs
  <2>5. doc' \in Docs /\ {redo'[n] : n \in DOMAIN redo'} \subseteq Docs
    BY <2>1, <2>2 DEF Docs
  <2>6. Docs' \subseteq Docs
    BY <2>4, <2>5 DEF Docs
  <2> QED BY <1>1, <2>1, <2>2, <2>3, <2>5, <2>6
<1> QED BY <1>2, <1>3, <1>4

\* A save goes on: nothing but its stage and result changes.
GoesOn(i) ==
    /\ saves' \in Seq(Save) /\ Len(saves') = Len(saves) /\ DOMAIN saves' = DOMAIN saves
    /\ \A j \in DOMAIN saves \ {i} : saves'[j] = saves[j]
    /\ saves'[i].id = saves[i].id /\ saves'[i].sent = saves[i].sent

LEMMA Moved ==
  ASSUME TypeOK, NEW i \in DOMAIN saves, NEW s \in Stages, NEW r \in Nat,
         \/ saves' = [saves EXCEPT ![i].stage = s, ![i].revision = r]
         \/ r = saves[i].revision /\ saves' = [saves EXCEPT ![i].stage = s]
  PROVE  GoesOn(i) /\ saves'[i].stage = s /\ saves'[i].revision = r
<1>1. saves \in Seq(Save) /\ DOMAIN saves = 1..Len(saves) /\ saves[i] \in Save
  BY LenProperties, ElementOfSeq DEF TypeOK
<1> DEFINE e == [saves[i] EXCEPT !.stage = s, !.revision = r]
<1>2. /\ e \in Save /\ e.stage = s /\ e.revision = r
      /\ e.id = saves[i].id /\ e.sent = saves[i].sent
  BY <1>1 DEF Save
<1>3. saves' = [saves EXCEPT ![i] = e]
  <2>1. CASE saves' = [saves EXCEPT ![i].stage = s, ![i].revision = r]
    BY <2>1
  <2>2. CASE r = saves[i].revision /\ saves' = [saves EXCEPT ![i].stage = s]
    <3>1. e = [saves[i] EXCEPT !.stage = s]
      BY <1>1, <2>2 DEF Save
    <3> QED BY <2>2, <3>1
  <2> QED BY <2>1, <2>2
<1> HIDE DEF e
<1>4. /\ saves' \in Seq(Save) /\ Len(saves') = Len(saves)
      /\ \A j \in 1..Len(saves) : saves'[j] = IF j = i THEN e ELSE saves[j]
  BY <1>1, <1>2, <1>3, ExceptSeq
<1>5. DOMAIN saves' = DOMAIN saves
  BY <1>1, <1>4, LenProperties
<1> QED BY <1>1, <1>2, <1>4, <1>5 DEF GoesOn

\* the stages a step of the server or its answer leads to
LEMMA Moves ==
  ASSUME TypeOK, NEW i \in DOMAIN saves
  PROVE  /\ (AutoAnswered(i) \/ ManualAnswered(i) \/ CopyAnswered(i)) =>
              /\ GoesOn(i) /\ saves[i].stage = "answered"
              /\ saves'[i].stage = "over" /\ saves'[i].revision = saves[i].revision
         /\ Refused(i) =>
              /\ GoesOn(i) /\ saves[i].stage \in {"acquiring", "saving", "creating"}
              /\ saves'[i].stage = (IF saves[i].stage = "saving" THEN "releasing" ELSE "answered")
              /\ saves'[i].revision = saves[i].revision
         /\ Acquired(i) =>
              GoesOn(i) /\ saves'[i].stage = "saving" /\ saves'[i].revision = saves[i].revision
         /\ Committed(i) =>
              /\ GoesOn(i) /\ saves[i].stage \in {"saving", "creating"}
              /\ saves'[i].stage = (IF saves[i].stage = "saving" THEN "releasing" ELSE "answered")
              /\ saves'[i].revision = Len(versions[saves[i].id]) + 1
         /\ Released(i) =>
              /\ GoesOn(i) /\ saves[i].stage = "releasing" /\ saves'[i].stage = "answered"
              /\ saves'[i].revision \in {saves[i].revision, 0}
         /\ ConnectionLost(i) =>
              /\ GoesOn(i)
              /\ saves[i].stage \in {"acquiring", "saving", "creating", "releasing"}
              /\ saves'[i].stage = (IF saves[i].stage = "saving" THEN "releasing" ELSE "answered")
              /\ saves'[i].revision = 0
<1>1. /\ saves[i] \in Save /\ saves[i].stage \in Stages /\ saves[i].revision \in Nat
      /\ saves[i].id \in Ids /\ Len(versions[saves[i].id]) \in Nat
  <2>1. saves[i] \in Save
    BY LenProperties, ElementOfSeq DEF TypeOK
  <2>2. saves[i].id \in Ids
    BY <2>1 DEF Save
  <2>3. Len(versions[saves[i].id]) \in Nat
    BY <2>2, LenProperties DEF TypeOK
  <2> QED BY <2>1, <2>2, <2>3 DEF Save
<1> DEFINE next == IF saves[i].stage = "saving" THEN "releasing" ELSE "answered"
<1>2. {"over", "saving", "answered", next} \subseteq Stages
  BY DEF Stages
<1>3. ASSUME AutoAnswered(i) \/ ManualAnswered(i) \/ CopyAnswered(i)
      PROVE  /\ GoesOn(i) /\ saves[i].stage = "answered"
             /\ saves'[i].stage = "over" /\ saves'[i].revision = saves[i].revision
  <2>1. saves' = [saves EXCEPT ![i].stage = "over"] /\ saves[i].stage = "answered"
    BY <1>3 DEF AutoAnswered, ManualAnswered, CopyAnswered, MoveTo, At
  <2> QED BY <1>1, <1>2, <2>1, Moved
<1>4. ASSUME Refused(i)
      PROVE  /\ GoesOn(i) /\ saves[i].stage \in {"acquiring", "saving", "creating"}
             /\ saves'[i].stage = next /\ saves'[i].revision = saves[i].revision
  <2>1. saves' = [saves EXCEPT ![i].stage = next]
        /\ saves[i].stage \in {"acquiring", "saving", "creating"}
    BY <1>4 DEF Refused, Fails, At
  <2> HIDE DEF next
  <2> QED BY <1>1, <1>2, <2>1, Moved
<1>5. ASSUME Acquired(i)
      PROVE  GoesOn(i) /\ saves'[i].stage = "saving" /\ saves'[i].revision = saves[i].revision
  <2>1. saves' = [saves EXCEPT ![i].stage = "saving"]
    BY <1>5 DEF Acquired, MoveTo
  <2> QED BY <1>1, <1>2, <2>1, Moved
<1>6. ASSUME Committed(i)
      PROVE  /\ GoesOn(i) /\ saves[i].stage \in {"saving", "creating"}
             /\ saves'[i].stage = next
             /\ saves'[i].revision = Len(versions[saves[i].id]) + 1
  <2>1. saves' = [saves EXCEPT ![i].stage = next, ![i].revision = Len(versions[saves[i].id]) + 1]
        /\ saves[i].stage \in {"saving", "creating"}
    BY <1>6 DEF Committed, MayCommit, At
  <2>2. Len(versions[saves[i].id]) + 1 \in Nat
    BY <1>1
  <2> HIDE DEF next
  <2> QED BY <1>1, <1>2, <2>1, <2>2, Moved
<1>7. ASSUME Released(i)
      PROVE  /\ GoesOn(i) /\ saves[i].stage = "releasing" /\ saves'[i].stage = "answered"
             /\ saves'[i].revision \in {saves[i].revision, 0}
  <2> DEFINE r == IF leases[saves[i].id] = i THEN saves[i].revision ELSE 0
  <2>1. saves' = [saves EXCEPT ![i].stage = "answered", ![i].revision = r]
        /\ saves[i].stage = "releasing"
    BY <1>7 DEF Released, At
  <2>2. r \in Nat /\ r \in {saves[i].revision, 0}
    BY <1>1
  <2> HIDE DEF r
  <2> QED BY <1>1, <1>2, <2>1, <2>2, Moved
<1>8. ASSUME ConnectionLost(i)
      PROVE  /\ GoesOn(i)
             /\ saves[i].stage \in {"acquiring", "saving", "creating", "releasing"}
             /\ saves'[i].stage = next /\ saves'[i].revision = 0
  <2>1. saves' = [saves EXCEPT ![i].stage = next, ![i].revision = 0]
        /\ saves[i].stage \in {"acquiring", "saving", "creating", "releasing"}
    BY <1>8 DEF ConnectionLost, At
  <2> HIDE DEF next
  <2> QED BY <1>1, <1>2, <2>1, Moved
<1> QED BY <1>3, <1>4, <1>5, <1>6, <1>7, <1>8

\* A new save goes to the end of the list.
Added(s) ==
    /\ saves' \in Seq(Save) /\ Len(saves') = Len(saves) + 1
    /\ DOMAIN saves' = DOMAIN saves \cup {Len(saves) + 1}
    /\ \A j \in DOMAIN saves : saves'[j] = saves[j]
    /\ saves'[Len(saves) + 1] = s

LEMMA Called ==
  ASSUME TypeOK, NEW s \in Save, saves' = Append(saves, s)
  PROVE  Added(s) /\ Len(saves) + 1 \notin DOMAIN saves
<1>1. saves \in Seq(Save)
  BY DEF TypeOK
<1>2. /\ saves' \in Seq(Save) /\ Len(saves') = Len(saves) + 1
      /\ DOMAIN saves = 1..Len(saves) /\ DOMAIN saves' = 1..(Len(saves) + 1)
      /\ \A n \in DOMAIN saves : saves'[n] = saves[n]
      /\ saves'[Len(saves) + 1] = s /\ Len(saves) \in Nat
  BY <1>1, Appended
<1> QED BY <1>2 DEF Added

\* A new origin goes to the end of the list, and the older ones stay.
Began(o) ==
    /\ origins' \in Seq([project : Ids \cup {None}, at : Nat])
    /\ DOMAIN origins' = DOMAIN origins \cup {Len(origins) + 1}
    /\ \A j \in DOMAIN origins : origins'[j] = origins[j]
    /\ origins'[Len(origins) + 1] = o

LEMMA Begins ==
  ASSUME TypeOK, NEW o \in [project : Ids \cup {None}, at : Nat],
         origins' = Append(origins, o)
  PROVE  Began(o) /\ Len(origins) + 1 \in Nat \ {0}
<1>1. origins \in Seq([project : Ids \cup {None}, at : Nat])
  BY DEF TypeOK
<1>2. /\ origins' \in Seq([project : Ids \cup {None}, at : Nat])
      /\ DOMAIN origins = 1..Len(origins) /\ DOMAIN origins' = 1..(Len(origins) + 1)
      /\ \A n \in DOMAIN origins : origins'[n] = origins[n]
      /\ origins'[Len(origins) + 1] = o /\ Len(origins) \in Nat
  BY <1>1, Appended
<1> QED BY <1>2 DEF Began

LEMMA AuthorsStay ==
  ASSUME TypeOK, DOMAIN origins \subseteq DOMAIN origins', UNCHANGED versions
  PROVE  versions' \in [Ids -> Seq({Others} \cup DOMAIN origins')]
<1>1. \A p \in Ids : versions[p] \in Seq({Others} \cup DOMAIN origins')
  BY SeqMonotonic DEF TypeOK
<1> QED BY <1>1 DEF TypeOK

\* One project gets one more revision.
Grown(p, o) ==
    /\ DOMAIN versions' = Ids
    /\ \A q \in Ids \ {p} : versions'[q] = versions[q]
    /\ versions'[p] \in Seq({Others} \cup DOMAIN origins)
    /\ Len(versions'[p]) = Len(versions[p]) + 1
    /\ \A n \in 1..Len(versions[p]) : versions'[p][n] = versions[p][n]
    /\ versions'[p][Len(versions[p]) + 1] = o

LEMMA Grows ==
  ASSUME TypeOK, NEW p \in Ids, NEW o \in {Others} \cup DOMAIN origins,
         versions' = [versions EXCEPT ![p] = Append(@, o)]
  PROVE  /\ Grown(p, o)
         /\ versions' \in [Ids -> Seq({Others} \cup DOMAIN origins)]
<1>1. versions[p] \in Seq({Others} \cup DOMAIN origins)
  BY DEF TypeOK
<1> DEFINE s == Append(versions[p], o)
<1>2. /\ s \in Seq({Others} \cup DOMAIN origins) /\ Len(s) = Len(versions[p]) + 1
      /\ DOMAIN versions[p] = 1..Len(versions[p])
      /\ \A n \in DOMAIN versions[p] : s[n] = versions[p][n]
      /\ s[Len(versions[p]) + 1] = o
  BY <1>1, Appended
<1>3. DOMAIN versions = Ids /\ versions' = [versions EXCEPT ![p] = s]
  BY DEF TypeOK
<1> HIDE DEF s
<1> QED BY <1>2, <1>3 DEF Grown, TypeOK

-----------------------------------------------------------------------------
(* Types *)

LEMMA Ranges ==
  ASSUME TypeOK
  PROVE  /\ MaxActs \in Nat /\ MaxOthers \in Nat /\ MaxLost \in Nat /\ UndoLimit \in Nat \ {0}
         /\ Len(saves) \in Nat /\ Len(origins) \in Nat /\ Len(undo) \in Nat /\ Len(redo) \in Nat
         /\ DOMAIN saves = 1..Len(saves) /\ DOMAIN origins = 1..Len(origins)
         /\ \A i \in DOMAIN saves : saves[i] \in Save
         /\ \A p \in Ids : versions[p] \in Seq({Others} \cup DOMAIN origins)
                           /\ Len(versions[p]) \in Nat /\ DOMAIN versions[p] = 1..Len(versions[p])
         /\ None \notin Ids /\ Shared \subseteq Ids /\ New \subseteq Ids
<1>1. \A i \in DOMAIN saves : saves[i] \in Save
  BY LenProperties, ElementOfSeq DEF TypeOK
<1>2. \A p \in Ids : /\ versions[p] \in Seq({Others} \cup DOMAIN origins)
                     /\ Len(versions[p]) \in Nat /\ DOMAIN versions[p] = 1..Len(versions[p])
  BY LenProperties DEF TypeOK
<1>3. /\ Len(saves) \in Nat /\ Len(origins) \in Nat /\ Len(undo) \in Nat /\ Len(redo) \in Nat
      /\ DOMAIN saves = 1..Len(saves) /\ DOMAIN origins = 1..Len(origins)
  BY LenProperties DEF TypeOK
<1>4. None \notin Ids /\ Shared \subseteq Ids /\ New \subseteq Ids
  BY EditorAssumption DEF Ids
<1> QED BY <1>1, <1>2, <1>3, <1>4, EditorAssumption

LEMMA ShuffleTypes ==
  ASSUME TypeInv, Edit \/ Undo \/ Redo
  PROVE  TypeInv'
<1>1. /\ doc' \in Doc /\ undo' \in Seq(Doc) /\ redo' \in Seq(Doc)
      /\ Len(undo') + Len(redo') <= UndoLimit
      /\ doc' \in Docs /\ Docs' \subseteq Docs
  BY Shuffled DEF TypeInv
<1>2. /\ acts' = acts + 1 /\ acts < MaxActs /\ timer' = TRUE /\ unsaved' = TRUE
      /\ dropped' = FALSE
      /\ UNCHANGED <<pid, open, reads, saves, versions, leases, origins, stamped, lost, others>>
  BY DEF Edit, Undo, Redo, Act, Emit, server
<1>3. Len(saves) \in Nat /\ MaxActs \in Nat
  BY Ranges DEF TypeInv
<1>4. Rooted'
  BY <1>1, <1>2 DEF TypeInv, Rooted
<1>5. doc'.origin \in DOMAIN origins'
  BY <1>1, <1>2 DEF TypeInv, Rooted
<1>6. acts' \in 0..MaxActs
  BY <1>2, <1>3 DEF TypeInv, TypeOK
<1>7. Counted'
  BY <1>2, <1>3 DEF TypeInv, TypeOK, Counted
<1>8. TypeOK'
  BY <1>1, <1>2, <1>5, <1>6 DEF TypeInv, TypeOK
<1> QED BY <1>4, <1>7, <1>8 DEF TypeInv

\* a step that adds a save and leaves the stacks alone
LEMMA CallTypes ==
  ASSUME TypeInv, NEW s \in Save, Added(s), s.sent.origin \in DOMAIN origins,
         DOMAIN origins \subseteq DOMAIN origins',
         UNCHANGED <<undo, redo, open, reads, versions, leases, lost, others>>,
         origins' \in Seq([project : Ids \cup {None}, at : Nat]),
         doc' \in Doc, pid' \in Ids \cup {None}, timer' \in BOOLEAN,
         unsaved' \in BOOLEAN, dropped' \in BOOLEAN, stamped' \subseteq DOMAIN origins',
         doc'.origin \in DOMAIN origins',
         \A j \in DOMAIN origins : origins'[j] = origins[j],
         acts' \in 0..MaxActs, Counted'
  PROVE  TypeInv'
<1>1. /\ Len(saves) \in Nat /\ MaxActs \in Nat
      /\ saves' \in Seq(Save) /\ Len(saves') = Len(saves) + 1
      /\ DOMAIN saves' = DOMAIN saves \cup {Len(saves) + 1}
      /\ \A j \in DOMAIN saves : saves'[j] = saves[j]
      /\ saves'[Len(saves) + 1] = s
  BY Ranges DEF TypeInv, Added
<1>2. versions' \in [Ids -> Seq({Others} \cup DOMAIN origins')]
  BY AuthorsStay DEF TypeInv
<1>3. Rooted'
  <2>1. \A d \in Docs' : d \in Docs \/ d = doc'
    BY DEF Docs
  <2> QED BY <1>1, <2>1 DEF TypeInv, Rooted
<1>4. Len(saves') <= MaxActs
  BY <1>1 DEF Counted
<1>5. leases' \in [Ids -> {0} \cup DOMAIN saves'] /\ lost' \subseteq DOMAIN saves'
  BY <1>1 DEF TypeInv, TypeOK
<1>6. TypeOK'
  BY <1>1, <1>2, <1>4, <1>5 DEF TypeInv, TypeOK
<1> QED BY <1>3, <1>6 DEF TypeInv

\* the origins that a save by hand puts another identity on
MarkedByHand(id) == IF doc.id \in {None, id} THEN stamped ELSE stamped \cup {doc.origin}

LEMMA ByHandTypes ==
  ASSUME TypeInv, SaveByHand
  PROVE  /\ TypeInv'
         /\ \E id \in Ids, st \in Stages :
               Added([kind |-> "manual", id |-> id, sent |-> [doc EXCEPT !.id = id],
                      stage |-> st, revision |-> 0])
               /\ stamped' = MarkedByHand(id)
<1>0. PICK id \in IF CurrentId = None THEN New \ Taken ELSE {CurrentId} :
         \E listed \in {(id \in Shared), versions[id] # <<>>} :
            /\ Call("manual", id, [doc EXCEPT !.id = id],
                    IF ~listed /\ doc.revision = 0 THEN "creating" ELSE "acquiring")
            /\ stamped' = MarkedByHand(id)
  BY DEF SaveByHand, MarkedByHand
<1>1. PICK listed :
         /\ Call("manual", id, [doc EXCEPT !.id = id],
                 IF ~listed /\ doc.revision = 0 THEN "creating" ELSE "acquiring")
         /\ stamped' = MarkedByHand(id)
  BY <1>0
<1>2. doc \in Doc /\ doc.id \in Ids \cup {None} /\ pid \in Ids \cup {None}
  BY DEF TypeInv, TypeOK, Doc
<1>3. id \in Ids
  BY <1>0, <1>2, Ranges DEF CurrentId, TypeInv
<1> DEFINE st   == IF ~listed /\ doc.revision = 0 THEN "creating" ELSE "acquiring"
           sent == [doc EXCEPT !.id = id]
           s    == [kind |-> "manual", id |-> id, sent |-> sent, stage |-> st, revision |-> 0]
<1>4. st \in Stages /\ sent \in Doc /\ sent.origin = doc.origin
  BY <1>2, <1>3 DEF Stages, Doc
<1>5. s \in Save /\ s.sent = sent
  BY <1>3, <1>4 DEF Save
<1>6. saves' = Append(saves, s)
  BY <1>1 DEF Call
<1> HIDE DEF s, sent, st
<1>7. Added(s)
  BY <1>5, <1>6, Called DEF TypeInv
<1>8. /\ UNCHANGED <<doc, pid, undo, redo, timer, open, reads, versions, leases, origins,
                     dropped, lost, others>>
      /\ unsaved' = FALSE /\ acts < MaxActs /\ acts' = acts + 1
  BY DEF SaveByHand, browser, server, Act
<1>9. acts' \in 0..MaxActs /\ Counted'
  <2>1. Len(saves) \in Nat /\ MaxActs \in Nat /\ acts \in 0..MaxActs /\ timer \in BOOLEAN
    BY Ranges DEF TypeInv, TypeOK
  <2> QED BY <1>7, <1>8, <2>1 DEF TypeInv, Counted, Added
<1>10. TypeInv'
  <2>1. doc.origin \in DOMAIN origins /\ timer \in BOOLEAN /\ dropped \in BOOLEAN
        /\ stamped \subseteq DOMAIN origins
        /\ origins \in Seq([project : Ids \cup {None}, at : Nat])
    BY DEF TypeInv, TypeOK
  <2>2. stamped' \subseteq DOMAIN origins'
    BY <1>1, <1>8, <2>1 DEF MarkedByHand
  <2> QED BY <1>2, <1>4, <1>5, <1>7, <1>8, <1>9, <2>1, <2>2, CallTypes
<1> QED BY <1>1, <1>3, <1>4, <1>7, <1>10 DEF s, sent

LEMMA CopyTypes ==
  ASSUME TypeInv, SaveCopy
  PROVE  /\ TypeInv'
         /\ \E id \in Ids : LET copy == [id |-> id, revision |-> 0, origin |-> Len(origins) + 1] IN
               /\ doc' = copy /\ Began([project |-> id, at |-> 0])
               /\ Added([kind |-> "copy", id |-> id, sent |-> copy,
                         stage |-> "acquiring", revision |-> 0])
<1>1. PICK id \in New \ Taken :
         /\ doc' = [id |-> id, revision |-> 0, origin |-> Len(origins) + 1] /\ pid' = id
         /\ origins' = Append(origins, [project |-> id, at |-> 0])
         /\ Call("copy", id, [id |-> id, revision |-> 0, origin |-> Len(origins) + 1], "acquiring")
  BY DEF SaveCopy
<1>2. id \in Ids
  BY Ranges DEF TypeInv
<1>3. Began([project |-> id, at |-> 0]) /\ Len(origins) + 1 \in Nat \ {0}
  BY <1>1, <1>2, Begins DEF TypeInv
<1> DEFINE copy == [id |-> id, revision |-> 0, origin |-> Len(origins) + 1]
           s    == [kind |-> "copy", id |-> id, sent |-> copy, stage |-> "acquiring", revision |-> 0]
<1>4. copy \in Doc /\ copy.origin = Len(origins) + 1
  BY <1>2, <1>3 DEF Doc
<1>5. s \in Save /\ s.sent = copy
  BY <1>2, <1>4 DEF Save, Stages
<1>6. saves' = Append(saves, s) /\ doc' = copy
  BY <1>1 DEF Call
<1> HIDE DEF s, copy
<1>7. Added(s)
  BY <1>5, <1>6, Called DEF TypeInv
<1>8. /\ UNCHANGED <<undo, redo, timer, open, reads, versions, leases, dropped, stamped, lost, others>>
      /\ unsaved' = FALSE /\ acts < MaxActs /\ acts' = acts + 1
  BY DEF SaveCopy, server, Act
<1>9. /\ Len(saves) \in Nat /\ MaxActs \in Nat /\ acts \in 0..MaxActs /\ timer \in BOOLEAN
      /\ DOMAIN saves = 1..Len(saves)
  BY Ranges DEF TypeInv, TypeOK
<1>10. acts' \in 0..MaxActs /\ Counted' /\ Len(saves') <= MaxActs
  BY <1>7, <1>8, <1>9 DEF TypeInv, Counted, Added
<1>11. versions' \in [Ids -> Seq({Others} \cup DOMAIN origins')]
  BY <1>3, <1>8, AuthorsStay DEF TypeInv, Began
<1>12. Rooted'
  <2>1. \A d \in Docs' : d \in Docs \/ d = copy
    BY <1>6, <1>8 DEF Docs
  <2> QED BY <1>3, <1>4, <1>5, <1>7, <2>1 DEF TypeInv, Rooted, Began, Added
<1>13. leases' \in [Ids -> {0} \cup DOMAIN saves'] /\ lost' \subseteq DOMAIN saves'
  BY <1>7, <1>8 DEF TypeInv, TypeOK, Added
<1>14. TypeOK'
  BY <1>1, <1>2, <1>3, <1>4, <1>6, <1>7, <1>8, <1>10, <1>11, <1>13
     DEF TypeInv, TypeOK, Began, Added
<1> QED BY <1>2, <1>3, <1>6, <1>7, <1>10, <1>12, <1>14 DEF TypeInv, s, copy

LEMMA TimerTypes ==
  ASSUME TypeInv, TimerFires
  PROVE  /\ TypeInv'
         /\ \/ UNCHANGED saves
            \/ \E id \in Ids : Added([kind |-> "auto", id |-> id, sent |-> doc,
                                      stage |-> "acquiring", revision |-> 0])
<1>1. /\ timer /\ timer' = FALSE
      /\ unsaved' \in {unsaved, FALSE} /\ dropped' \in {dropped, dropped \/ open}
      /\ UNCHANGED <<doc, pid, undo, redo, open, reads, versions, leases, origins, stamped,
                     lost, acts, others>>
  BY DEF TimerFires, server
<1>2. /\ Len(saves) \in Nat /\ MaxActs \in Nat /\ acts \in 0..MaxActs /\ timer \in BOOLEAN
      /\ doc \in Doc /\ doc.origin \in DOMAIN origins /\ unsaved \in BOOLEAN
      /\ origins \in Seq([project : Ids \cup {None}, at : Nat]) /\ pid \in Ids \cup {None}
      /\ stamped \subseteq DOMAIN origins /\ dropped \in BOOLEAN /\ open \in BOOLEAN
  BY Ranges DEF TypeInv, TypeOK
<1>3. unsaved' \in BOOLEAN /\ dropped' \in BOOLEAN
  BY <1>1, <1>2
<1>4. CASE UNCHANGED saves
  <2>1. Counted'
    BY <1>1, <1>2, <1>4 DEF TypeInv, Counted
  <2>2. Rooted'
    <3>1. Docs' = Docs
      BY <1>1 DEF Docs
    <3> QED BY <1>1, <1>4, <3>1 DEF TypeInv, Rooted
  <2>3. TypeOK'
    BY <1>1, <1>3, <1>4 DEF TypeInv, TypeOK
  <2> QED BY <1>4, <2>1, <2>2, <2>3 DEF TypeInv
<1>5. CASE open /\ CurrentId # None /\ Call("auto", CurrentId, doc, "acquiring")
  <2> DEFINE s == [kind |-> "auto", id |-> CurrentId, sent |-> doc,
                   stage |-> "acquiring", revision |-> 0]
  <2>1. CurrentId \in Ids
    BY <1>2, <1>5 DEF CurrentId, Doc
  <2>2. s \in Save /\ s.sent = doc
    BY <1>2, <2>1 DEF Save, Stages
  <2>3. saves' = Append(saves, s)
    BY <1>5 DEF Call
  <2> HIDE DEF s
  <2>4. Added(s)
    BY <2>2, <2>3, Called DEF TypeInv
  <2>5. Counted' /\ acts' \in 0..MaxActs
    BY <1>1, <1>2, <2>4 DEF TypeInv, Counted, Added
  <2>6. TypeInv'
    BY <1>1, <1>2, <1>3, <2>2, <2>4, <2>5, CallTypes
  <2> QED BY <2>1, <2>4, <2>6 DEF s
<1> QED BY <1>4, <1>5 DEF TimerFires

LEMMA LoadTypes ==
  ASSUME TypeInv, NEW p \in Ids, Load(p)
  PROVE  TypeInv' /\ Docs' = Docs
<1> DEFINE r == [project |-> p, at |-> Len(versions[p])]
<1>1. /\ versions[p] # <<>> /\ acts < MaxActs /\ acts' = acts + 1 /\ reads' = Append(reads, r)
      /\ UNCHANGED <<doc, pid, undo, redo, timer, open, saves, versions, leases, origins,
                     unsaved, dropped, stamped, lost, others>>
  BY DEF Load, Act, server, history
<1>2. Len(versions[p]) \in Nat \ {0}
  <2>1. versions[p] \in Seq({Others} \cup DOMAIN origins) /\ Len(versions[p]) \in Nat
    BY Ranges DEF TypeInv
  <2> QED BY <1>1, <2>1, EmptySeq
<1>3. reads' \in Seq([project : Ids, at : Nat \ {0}])
  <2>1. reads \in Seq([project : Ids, at : Nat \ {0}]) /\ r \in [project : Ids, at : Nat \ {0}]
    BY <1>2 DEF TypeInv, TypeOK
  <2> QED BY <1>1, <2>1, Appended
<1>4. Docs' = Docs
  BY <1>1 DEF Docs
<1>5. Len(saves) \in Nat /\ MaxActs \in Nat /\ acts \in 0..MaxActs
  BY Ranges DEF TypeInv, TypeOK
<1>6. Counted' /\ acts' \in 0..MaxActs
  BY <1>1, <1>5 DEF TypeInv, Counted
<1>7. Rooted'
  BY <1>1, <1>4 DEF TypeInv, Rooted
<1>8. TypeOK'
  BY <1>1, <1>3, <1>6 DEF TypeInv, TypeOK
<1> QED BY <1>4, <1>6, <1>7, <1>8 DEF TypeInv

LEMMA LoadedTypes ==
  ASSUME TypeInv, Loaded
  PROVE  /\ TypeInv'
         /\ \E p \in Ids, n \in Nat \ {0} :
               /\ Head(reads) = [project |-> p, at |-> n]
               /\ doc' = [id |-> p, revision |-> n, origin |-> Len(origins) + 1]
               /\ Began([project |-> p, at |-> n])
<1>1. reads \in Seq([project : Ids, at : Nat \ {0}]) /\ reads # <<>>
  BY DEF Loaded, TypeInv, TypeOK
<1>2. Head(reads) \in [project : Ids, at : Nat \ {0}]
      /\ Tail(reads) \in Seq([project : Ids, at : Nat \ {0}])
  BY <1>1, Tailed
<1>3. PICK p \in Ids, n \in Nat \ {0} : Head(reads) = [project |-> p, at |-> n]
  BY <1>2
<1>4. /\ doc' = [id |-> p, revision |-> n, origin |-> Len(origins) + 1]
      /\ pid' = p /\ origins' = Append(origins, [project |-> p, at |-> n])
      /\ reads' = Tail(reads) /\ timer' = FALSE /\ dropped' \in BOOLEAN
      /\ UNCHANGED <<undo, redo, open, saves, versions, leases, unsaved, stamped, lost,
                     acts, others>>
  <2>1. Head(reads).project = p /\ Head(reads).at = n
    BY <1>3
  <2>2. /\ doc' = [id |-> Head(reads).project, revision |-> Head(reads).at,
                   origin |-> Len(origins) + 1]
        /\ pid' = Head(reads).project /\ origins' = Append(origins, Head(reads))
        /\ reads' = Tail(reads) /\ timer' = FALSE /\ dropped' = (dropped \/ timer)
        /\ UNCHANGED <<undo, redo, open, saves, versions, leases, unsaved, stamped, lost,
                       acts, others>>
    BY DEF Loaded, server
  <2>3. dropped \in BOOLEAN /\ timer \in BOOLEAN
    BY DEF TypeInv, TypeOK
  <2> QED BY <1>3, <2>1, <2>2, <2>3
<1>5. Began([project |-> p, at |-> n]) /\ Len(origins) + 1 \in Nat \ {0}
  BY <1>4, Begins DEF TypeInv
<1>6. doc' \in Doc /\ doc'.origin = Len(origins) + 1
  BY <1>4, <1>5 DEF Doc
<1>7. versions' \in [Ids -> Seq({Others} \cup DOMAIN origins')]
  BY <1>4, <1>5, AuthorsStay DEF TypeInv, Began
<1>8. Rooted'
  <2>1. \A d \in Docs' : d \in Docs \/ d = doc'
    BY <1>4 DEF Docs
  <2> QED BY <1>4, <1>5, <1>6, <2>1 DEF TypeInv, Rooted, Began
<1>9. Counted'
  <2>1. Len(saves) \in Nat /\ acts \in Nat
    BY Ranges DEF TypeInv, TypeOK
  <2> QED BY <1>4, <2>1 DEF TypeInv, Counted
<1>10. TypeOK'
  BY <1>2, <1>4, <1>5, <1>6, <1>7 DEF TypeInv, TypeOK, Began
<1> QED BY <1>3, <1>4, <1>5, <1>8, <1>9, <1>10 DEF TypeInv

\* a save that goes on keeps the types, whatever else its step does
LEMMA GoOnTypes ==
  ASSUME TypeInv, NEW i \in DOMAIN saves, GoesOn(i),
         UNCHANGED <<undo, redo, open, reads, origins, unsaved, acts, others>>,
         doc' \in Doc, doc'.origin = doc.origin, pid' \in Ids \cup {None},
         timer' \in BOOLEAN, timer' => timer,
         dropped' \in BOOLEAN, stamped' \subseteq DOMAIN origins,
         versions' \in [Ids -> Seq({Others} \cup DOMAIN origins)],
         leases' \in [Ids -> {0} \cup DOMAIN saves],
         lost' \subseteq DOMAIN saves
  PROVE  TypeInv'
<1>1. Rooted'
  <2>1. \A d \in Docs' : d \in Docs \/ d = doc'
    BY DEF Docs
  <2>2. doc.origin \in DOMAIN origins
    BY DEF TypeInv, TypeOK
  <2>3. \A j \in DOMAIN saves' : saves'[j].sent = saves[j].sent
    BY DEF GoesOn
  <2> QED BY <2>1, <2>2, <2>3 DEF TypeInv, Rooted, GoesOn
<1>2. Counted'
  <2>1. Len(saves) \in Nat /\ acts \in Nat /\ timer \in BOOLEAN
    BY Ranges DEF TypeInv, TypeOK
  <2> QED BY <2>1 DEF TypeInv, Counted, GoesOn
<1>3. TypeOK'
  BY DEF TypeInv, TypeOK, GoesOn
<1> QED BY <1>1, <1>2, <1>3 DEF TypeInv

LEMMA AnswerTypes ==
  ASSUME TypeInv, NEW i \in DOMAIN saves,
         AutoAnswered(i) \/ ManualAnswered(i) \/ CopyAnswered(i)
  PROVE  TypeInv'
<1>1. GoesOn(i)
  BY Moves DEF TypeInv
<1>2. /\ saves[i] \in Save /\ doc \in Doc /\ pid \in Ids \cup {None} /\ timer \in BOOLEAN
      /\ dropped \in BOOLEAN /\ stamped \subseteq DOMAIN origins /\ doc.origin \in DOMAIN origins
      /\ versions \in [Ids -> Seq({Others} \cup DOMAIN origins)]
      /\ leases \in [Ids -> {0} \cup DOMAIN saves] /\ lost \subseteq DOMAIN saves
  BY Ranges DEF TypeInv, TypeOK
<1>3. UNCHANGED <<undo, redo, open, reads, versions, leases, origins, unsaved, lost, acts, others>>
  BY DEF AutoAnswered, ManualAnswered, CopyAnswered, browser, server, history
<1>4. /\ [doc EXCEPT !.revision = saves[i].revision] \in Doc
      /\ [doc EXCEPT !.revision = saves[i].revision].origin = doc.origin
      /\ [doc EXCEPT !.id = saves[i].id, !.revision = saves[i].revision] \in Doc
      /\ [doc EXCEPT !.id = saves[i].id, !.revision = saves[i].revision].origin = doc.origin
      /\ saves[i].id \in Ids
  BY <1>2 DEF Doc, Save
<1>5. /\ doc' \in Doc /\ doc'.origin = doc.origin /\ pid' \in Ids \cup {None}
      /\ timer' \in BOOLEAN /\ (timer' => timer)
      /\ dropped' \in BOOLEAN /\ stamped' \subseteq DOMAIN origins
  <2>1. CASE AutoAnswered(i)
    BY <1>2, <1>4, <2>1 DEF AutoAnswered, Marked
  <2>2. CASE ManualAnswered(i)
    BY <1>2, <1>4, <2>2 DEF ManualAnswered, Marked
  <2>3. CASE CopyAnswered(i)
    BY <1>2, <2>3 DEF CopyAnswered, browser, history
  <2> QED BY <2>1, <2>2, <2>3
<1> QED BY <1>1, <1>2, <1>3, <1>5, GoOnTypes

LEMMA CommitTypes ==
  ASSUME TypeInv, NEW i \in DOMAIN saves, Commits(i)
  PROVE  /\ saves[i].id \in Ids /\ Grown(saves[i].id, saves[i].sent.origin)
         /\ versions' \in [Ids -> Seq({Others} \cup DOMAIN origins)]
<1>1. saves[i].id \in Ids
  BY Ranges DEF TypeInv, Save
<1>2. saves[i].sent.origin \in {Others} \cup DOMAIN origins
  BY DEF TypeInv, Rooted
<1> QED BY <1>1, <1>2, Grows DEF Commits, TypeInv

LEMMA ServerTypes ==
  ASSUME TypeInv, NEW i \in DOMAIN saves,
         Refused(i) \/ Acquired(i) \/ Committed(i) \/ Released(i) \/ ConnectionLost(i)
  PROVE  TypeInv'
<1>1. GoesOn(i)
  BY Moves DEF TypeInv
<1>2. /\ saves[i].id \in Ids /\ doc \in Doc /\ pid \in Ids \cup {None} /\ timer \in BOOLEAN
      /\ dropped \in BOOLEAN /\ stamped \subseteq DOMAIN origins /\ doc.origin \in DOMAIN origins
      /\ versions \in [Ids -> Seq({Others} \cup DOMAIN origins)]
      /\ leases \in [Ids -> {0} \cup DOMAIN saves] /\ lost \subseteq DOMAIN saves
  BY Ranges DEF TypeInv, TypeOK, Save
<1>3. /\ UNCHANGED <<doc, pid, undo, redo, timer, open, reads, origins, unsaved, dropped,
                     stamped, acts, others>>
      /\ lost' \subseteq lost \cup {i}
  BY DEF Refused, Acquired, Committed, Released, ConnectionLost, browser, history
<1>4. versions' = versions \/ Commits(i)
  BY DEF Refused, Acquired, Committed, Released, ConnectionLost, server
<1>5. versions' \in [Ids -> Seq({Others} \cup DOMAIN origins)]
  BY <1>2, <1>4, CommitTypes
<1>6. leases' = leases \/ Grants(i) \/ leases' = Freed(i)
  BY DEF Refused, Acquired, Committed, Released, ConnectionLost, server
<1>7. leases' \in [Ids -> {0} \cup DOMAIN saves]
  BY <1>2, <1>6 DEF Grants, Freed
<1> QED BY <1>1, <1>2, <1>3, <1>5, <1>7, GoOnTypes

\* the steps that touch neither documents nor saves
LEMMA OtherTypes ==
  ASSUME TypeInv,
         Leave \/ HostEchoes \/ (\E p \in Ids : LeaseExpires(p) \/ OthersSave(p))
  PROVE  TypeInv' /\ UNCHANGED <<doc, undo, redo, timer, saves, origins, stamped>>
<1>1. UNCHANGED <<doc, undo, redo, timer, reads, saves, origins, unsaved, dropped, stamped>>
  BY DEF Leave, HostEchoes, LeaseExpires, OthersSave, browser, history
<1>6. acts' \in 0..MaxActs /\ acts' >= acts
  <2>1. acts' = acts \/ (acts < MaxActs /\ acts' = acts + 1)
    BY DEF Leave, HostEchoes, LeaseExpires, OthersSave, Act
  <2>2. MaxActs \in Nat /\ acts \in 0..MaxActs
    BY Ranges DEF TypeInv, TypeOK
  <2> QED BY <2>1, <2>2
<1>2. Rooted' /\ Counted'
  <2>1. Docs' = Docs
    BY <1>1 DEF Docs
  <2>2. Rooted'
    BY <1>1, <2>1 DEF TypeInv, Rooted
  <2>3. Counted'
    <3>1. acts \in Nat /\ acts' \in Nat /\ Len(saves) \in Nat
      BY <1>6, Ranges DEF TypeInv, TypeOK
    <3> QED BY <1>1, <1>6, <3>1 DEF TypeInv, Counted
  <2> QED BY <2>2, <2>3
<1>3. CASE Leave \/ HostEchoes
  <2>1. open' \in BOOLEAN /\ pid' \in Ids \cup {None}
        /\ UNCHANGED <<versions, leases, lost, others>>
    BY <1>3 DEF Leave, HostEchoes, TypeInv, TypeOK, Doc, server
  <2>2. TypeOK'
    BY <1>1, <1>6, <2>1 DEF TypeInv, TypeOK
  <2> QED BY <1>1, <1>2, <2>2 DEF TypeInv
<1>4. ASSUME NEW p \in Ids, LeaseExpires(p)
      PROVE  TypeOK'
  <2>1. /\ leases' \in [Ids -> {0} \cup DOMAIN saves] /\ lost' \subseteq DOMAIN saves
        /\ UNCHANGED <<pid, open, versions, others>>
    BY <1>4 DEF LeaseExpires, TypeInv, TypeOK, browser
  <2> QED BY <1>1, <1>6, <2>1 DEF TypeInv, TypeOK
<1>5. ASSUME NEW p \in Ids, OthersSave(p)
      PROVE  TypeOK'
  <2>1. others' \in 0..MaxOthers /\ UNCHANGED <<pid, open, leases, lost>>
    BY <1>5, Ranges DEF OthersSave, TypeInv, TypeOK, browser
  <2>2. versions' \in [Ids -> Seq({Others} \cup DOMAIN origins)]
    BY <1>5, Grows DEF OthersSave, TypeInv
  <2> QED BY <1>1, <1>6, <2>1, <2>2 DEF TypeInv, TypeOK
<1> QED BY <1>1, <1>2, <1>3, <1>4, <1>5 DEF TypeInv

LEMMA InitTypes == Init => TypeInv
<1> SUFFICES ASSUME Init PROVE TypeInv
  OBVIOUS
<1>1. None \notin Ids /\ Shared \subseteq Ids /\ New \subseteq Ids
  BY EditorAssumption DEF Ids
<1>2. /\ doc \in Doc /\ doc.origin = 1 /\ pid \in Ids \cup {None}
  BY <1>1 DEF Init, Doc
<1>3. /\ undo \in Seq(Doc) /\ redo \in Seq(Doc) /\ Len(undo) = 0 /\ Len(redo) = 0
      /\ DOMAIN undo = {} /\ DOMAIN redo = {}
      /\ saves \in Seq(Save) /\ Len(saves) = 0 /\ DOMAIN saves = {}
      /\ reads \in Seq([project : Ids, at : Nat \ {0}])
  BY EmptySeq DEF Init
<1>4. /\ origins \in Seq([project : Ids \cup {None}, at : Nat]) /\ DOMAIN origins = {1}
  <2>1. [project |-> doc.id, at |-> doc.revision] \in [project : Ids \cup {None}, at : Nat]
    BY <1>2 DEF Doc
  <2> QED BY <2>1, Single DEF Init
<1>5. versions \in [Ids -> Seq({Others} \cup DOMAIN origins)]
  <2>1. /\ <<Others>> \in Seq({Others} \cup DOMAIN origins)
        /\ <<>> \in Seq({Others} \cup DOMAIN origins)
    BY Single, EmptySeq
  <2> DEFINE S == Seq({Others} \cup DOMAIN origins)
             one == <<Others>>
             none == <<>>
  <2>2. one \in S /\ none \in S
    BY <2>1
  <2>3. versions = [p \in Ids |-> IF p \in Shared THEN one ELSE none]
    BY DEF Init
  <2> HIDE DEF S, one, none
  <2>4. versions \in [Ids -> S]
    BY <2>2, <2>3
  <2> QED BY <2>4 DEF S
<1>6. TypeOK
  <2>1. /\ timer = FALSE /\ open = TRUE /\ unsaved = FALSE /\ dropped = FALSE
        /\ stamped = {} /\ lost = {} /\ acts = 0 /\ others = 0
        /\ leases = [p \in Ids |-> 0]
    BY DEF Init
  <2>2. /\ 0 \in 0..MaxActs /\ 0 \in 0..MaxOthers /\ UndoLimit \in Nat /\ MaxActs \in Nat
        /\ leases \in [Ids -> {0} \cup DOMAIN saves]
    BY <2>1, EditorAssumption
  <2>3. Len(undo) + Len(redo) <= UndoLimit /\ Len(saves) <= MaxActs
    BY <1>3, <2>2
  <2>4. /\ acts \in 0..MaxActs /\ others \in 0..MaxOthers /\ lost \subseteq DOMAIN saves
        /\ doc.origin \in DOMAIN origins
    BY <1>2, <1>4, <2>1, <2>2
  <2>5. {timer, open, unsaved, dropped} \subseteq BOOLEAN /\ stamped \subseteq DOMAIN origins
    BY <2>1
  <2> QED BY <1>2, <1>3, <1>4, <1>5, <2>2, <2>3, <2>4, <2>5 DEF TypeOK
<1>7. Rooted
  BY <1>2, <1>3, <1>4 DEF Rooted, Docs
<1>8. Counted
  BY <1>3 DEF Counted, Init
<1> QED BY <1>6, <1>7, <1>8 DEF TypeInv

LEMMA StepTypes == TypeInv /\ [Next]_vars => TypeInv'
<1> SUFFICES ASSUME TypeInv, [Next]_vars PROVE TypeInv'
  OBVIOUS
<1>1. CASE UNCHANGED vars
  BY <1>1 DEF vars, browser, server, history, TypeInv, TypeOK, Rooted, Counted, Docs
<1>2. CASE PersonNext
  BY <1>2, ShuffleTypes, ByHandTypes, CopyTypes, OtherTypes, LoadTypes DEF PersonNext
<1>3. CASE BrowserNext
  BY <1>3, AnswerTypes DEF BrowserNext
<1>4. CASE ServerNext
  BY <1>4, ServerTypes DEF ServerNext
<1> QED BY <1>1, <1>2, <1>3, <1>4, TimerTypes, LoadedTypes, OtherTypes, ServerTypes DEF Next

\* Type correctness for all constants: the undo stack and the saves stay within
\* their limits (_remember, the autosave's timer).
THEOREM TypeCorrect == Spec => []TypeOK
<1>1. TypeInv => TypeOK
  BY DEF TypeInv
<1> QED BY <1>1, InitTypes, StepTypes, PTL DEF Spec

-----------------------------------------------------------------------------
(* Leases *)

LEMMA Holders ==
  ASSUME TypeInv
  PROVE  /\ TypeOK /\ leases \in [Ids -> {0} \cup DOMAIN saves] /\ 0 \notin DOMAIN saves
         /\ \A i \in DOMAIN saves : saves[i].id \in Ids
<1>1. TypeOK /\ leases \in [Ids -> {0} \cup DOMAIN saves]
  BY DEF TypeInv, TypeOK
<1>2. DOMAIN saves = 1..Len(saves) /\ Len(saves) \in Nat
      /\ \A i \in DOMAIN saves : saves[i] \in Save
  BY <1>1, Ranges
<1>3. 0 \notin DOMAIN saves
  BY <1>2
<1>4. \A i \in DOMAIN saves : saves[i].id \in Ids
  BY <1>2 DEF Save
<1> QED BY <1>1, <1>3, <1>4

\* a step of one save that ends with its lease in use, lost or given back
LEMMA GoOnLeases ==
  ASSUME LeasesInv, NEW i \in DOMAIN saves, GoesOn(i), lost \subseteq lost',
         leases' = leases \/ leases' = Freed(i) \/ Grants(i),
         \/ i \in lost'
         \/ saves'[i].stage \in {"saving", "releasing"}
         \/ \A p \in Ids : leases'[p] # i
  PROVE  (LeaseInv /\ LeaseReturned)'
<1>1. /\ leases \in [Ids -> {0} \cup DOMAIN saves] /\ saves[i].id \in Ids
      /\ 0 \notin DOMAIN saves
  BY Holders DEF LeasesInv
<1> SUFFICES ASSUME NEW p \in Ids, leases'[p] # 0
             PROVE  /\ saves'[leases'[p]].id = p
                    /\ \/ leases'[p] \in lost'
                       \/ saves'[leases'[p]].stage \in {"saving", "releasing"}
  BY DEF LeaseInv, LeaseReturned
<1>2. leases'[p] = leases[p] \/ (leases'[p] = i /\ p = saves[i].id)
  BY <1>1 DEF Freed, Grants
<1>3. CASE leases'[p] = i
  BY <1>1, <1>2, <1>3 DEF GoesOn, LeasesInv, LeaseInv
<1>4. CASE leases'[p] # i
  <2>1. leases'[p] = leases[p] /\ leases[p] \in DOMAIN saves \ {i}
    BY <1>1, <1>2, <1>4
  <2>2. saves'[leases[p]] = saves[leases[p]]
    BY <2>1 DEF GoesOn
  <2> QED BY <2>1, <2>2 DEF LeasesInv, LeaseInv, LeaseReturned
<1> QED BY <1>3, <1>4

LEMMA SaveLeases ==
  ASSUME LeasesInv, NEW i \in DOMAIN saves,
         \/ AutoAnswered(i) \/ ManualAnswered(i) \/ CopyAnswered(i)
         \/ Refused(i) \/ Acquired(i) \/ Committed(i) \/ Released(i) \/ ConnectionLost(i)
  PROVE  (LeaseInv /\ LeaseReturned)'
<1>1. TypeOK /\ leases \in [Ids -> {0} \cup DOMAIN saves] /\ 0 \notin DOMAIN saves
      /\ saves[i].id \in Ids
  BY Holders DEF LeasesInv
\* who is not at work holds nothing, or its call was lost
<1>2. \/ i \in lost \/ saves[i].stage \in {"saving", "releasing"}
      \/ \A p \in Ids : leases[p] # i
  BY <1>1 DEF LeasesInv, LeaseReturned
<1>3. CASE AutoAnswered(i) \/ ManualAnswered(i) \/ CopyAnswered(i)
  <2>1. leases' = leases /\ lost' = lost
    BY <1>3 DEF AutoAnswered, ManualAnswered, CopyAnswered, server
  <2>2. GoesOn(i) /\ saves[i].stage = "answered"
    BY <1>1, <1>3, Moves
  <2> QED BY <1>2, <2>1, <2>2, GoOnLeases
<1>4. CASE Refused(i)
  <2>1. leases' = leases /\ lost' = lost
    BY <1>4 DEF Refused, server
  <2>2. /\ GoesOn(i) /\ saves[i].stage \in {"acquiring", "saving", "creating"}
        /\ saves'[i].stage = (IF saves[i].stage = "saving" THEN "releasing" ELSE "answered")
    BY <1>1, <1>4, Moves
  <2> QED BY <1>2, <2>1, <2>2, GoOnLeases
<1>5. CASE Acquired(i)
  <2>1. Grants(i) /\ lost' = lost
    BY <1>5 DEF Acquired
  <2>2. GoesOn(i) /\ saves'[i].stage = "saving"
    BY <1>1, <1>5, Moves
  <2> QED BY <2>1, <2>2, GoOnLeases
<1>6. CASE Committed(i)
  <2>1. leases' = leases /\ lost' = lost
    BY <1>6 DEF Committed
  <2>2. /\ GoesOn(i) /\ saves[i].stage \in {"saving", "creating"}
        /\ saves'[i].stage = (IF saves[i].stage = "saving" THEN "releasing" ELSE "answered")
    BY <1>1, <1>6, Moves
  <2> QED BY <1>2, <2>1, <2>2, GoOnLeases
<1>7. CASE Released(i)
  <2>1. leases' = Freed(i) /\ lost' = lost
    BY <1>7 DEF Released
  <2>2. GoesOn(i)
    BY <1>1, <1>7, Moves
  <2>3. \A p \in Ids : leases'[p] # i
    <3> SUFFICES ASSUME NEW p \in Ids, leases'[p] = i PROVE FALSE
      OBVIOUS
    <3>1. leases[p] = i /\ p # saves[i].id
      BY <1>1, <2>1 DEF Freed
    <3> QED BY <1>1, <3>1 DEF LeasesInv, LeaseInv
  <2> QED BY <2>1, <2>2, <2>3, GoOnLeases
<1>8. CASE ConnectionLost(i)
  <2>1. lost' = lost \cup {i} /\ (leases' = leases \/ leases' = Freed(i) \/ Grants(i))
    BY <1>8 DEF ConnectionLost, server
  <2>2. GoesOn(i)
    BY <1>1, <1>8, Moves
  <2> QED BY <2>1, <2>2, GoOnLeases
<1> QED BY <1>3, <1>4, <1>5, <1>6, <1>7, <1>8

LEMMA AddedLeases ==
  ASSUME LeasesInv, NEW s, Added(s), UNCHANGED <<leases, lost>>
  PROVE  (LeaseInv /\ LeaseReturned)'
<1>1. \A p \in Ids : leases[p] # 0 => leases[p] \in DOMAIN saves
  BY DEF LeasesInv, TypeInv, TypeOK
<1> QED BY <1>1 DEF LeasesInv, LeaseInv, LeaseReturned, Added

LEMMA StepLeases == LeasesInv /\ [Next]_vars => LeasesInv'
<1> SUFFICES ASSUME LeasesInv, [Next]_vars PROVE LeasesInv'
  OBVIOUS
<1> USE DEF LeasesInv
<1>1. TypeInv'
  BY StepTypes
<1>2. ASSUME UNCHANGED <<saves, leases, lost>>
      PROVE  (LeaseInv /\ LeaseReturned)'
  BY <1>2 DEF LeaseInv, LeaseReturned
<1>3. CASE UNCHANGED vars
  BY <1>1, <1>2, <1>3 DEF vars, server
<1>4. CASE PersonNext
  <2>1. CASE SaveByHand
    <3>1. PICK s : Added(s)
      BY <2>1, ByHandTypes
    <3>2. UNCHANGED <<leases, lost>>
      BY <2>1 DEF SaveByHand, server
    <3> QED BY <1>1, <3>1, <3>2, AddedLeases
  <2>2. CASE SaveCopy
    <3>1. PICK s : Added(s)
      BY <2>2, CopyTypes
    <3>2. UNCHANGED <<leases, lost>>
      BY <2>2 DEF SaveCopy, server
    <3> QED BY <1>1, <3>1, <3>2, AddedLeases
  <2>3. CASE Edit \/ Undo \/ Redo \/ Leave \/ \E p \in Ids : Load(p)
    <3>1. UNCHANGED <<saves, leases, lost>>
      BY <2>3 DEF Edit, Undo, Redo, Leave, Load, server
    <3> QED BY <1>1, <1>2, <3>1
  <2> QED BY <1>4, <2>1, <2>2, <2>3 DEF PersonNext
<1>5. CASE BrowserNext \/ ServerNext \/ \E i \in DOMAIN saves : ConnectionLost(i)
  BY <1>1, <1>5, SaveLeases DEF BrowserNext, ServerNext
<1>6. CASE TimerFires
  <2>1. UNCHANGED <<leases, lost>>
    BY <1>6 DEF TimerFires, server
  <2>2. UNCHANGED saves \/ \E s : Added(s)
    BY <1>6, TimerTypes
  <2> QED BY <1>1, <1>2, <2>1, <2>2, AddedLeases
<1>7. CASE Loaded \/ HostEchoes \/ \E p \in Ids : OthersSave(p)
  <2>1. UNCHANGED <<saves, leases, lost>>
    BY <1>7 DEF Loaded, HostEchoes, OthersSave, server
  <2> QED BY <1>1, <1>2, <2>1
<1>8. ASSUME NEW q \in Ids, LeaseExpires(q)
      PROVE  LeasesInv'
  <2>1. /\ lost' = lost \cup {leases[q]} /\ saves' = saves
        /\ \A p \in Ids : leases'[p] \in {leases[p], 0}
    BY <1>8 DEF LeaseExpires, TypeInv, TypeOK
  <2>2. (LeaseInv /\ LeaseReturned)'
    BY <2>1 DEF LeaseInv, LeaseReturned
  <2> QED BY <1>1, <2>2
<1> QED BY <1>3, <1>4, <1>5, <1>6, <1>7, <1>8 DEF Next

\* A lease is held for a save that is using it or whose call was lost: no refusal,
\* conflict or failure of saveSharedProject leaves a project locked.
THEOREM LeasesComeBack == Spec => []LeaseReturned
<1>1. Init => LeasesInv
  <2> SUFFICES ASSUME Init PROVE LeasesInv
    OBVIOUS
  <2>1. \A p \in Ids : leases[p] = 0
    BY DEF Init
  <2> QED BY <2>1, InitTypes DEF LeasesInv, LeaseInv, LeaseReturned
<1>2. LeasesInv => LeaseReturned
  BY DEF LeasesInv
<1> QED BY <1>1, <1>2, StepLeases, PTL DEF Spec

-----------------------------------------------------------------------------
(* What the documents claim *)

\* Nothing that a claim rests on is taken back.
Later ==
    /\ DOMAIN origins \subseteq DOMAIN origins'
    /\ \A o \in DOMAIN origins : origins'[o] = origins[o]
    /\ \A p \in Ids : /\ Len(versions'[p]) \in Nat /\ Len(versions[p]) <= Len(versions'[p])
                       /\ \A n \in 1..Len(versions[p]) : versions'[p][n] = versions[p][n]
    /\ stamped \subseteq stamped'

LEMMA OriginStays ==
  ASSUME TypeOK, Later, NEW o \in DOMAIN origins
  PROVE  /\ origins[o].at \in Nat /\ origins'[o] = origins[o]
         /\ \A p \in Ids, n \in Nat :
               n <= Len(versions[p]) /\ Own(p, o, n) => Own(p, o, n)'
<1>1. origins[o].at \in Nat /\ origins'[o] = origins[o]
  <2>1. origins[o] \in [project : Ids \cup {None}, at : Nat]
    BY LenProperties, ElementOfSeq DEF TypeOK
  <2> QED BY <2>1 DEF Later
<1>2. ASSUME NEW p \in Ids, NEW n \in Nat, n <= Len(versions[p]), Own(p, o, n)
      PROVE  Own(p, o, n)'
  <2>1. Len(versions[p]) \in Nat
    BY Ranges
  <2> SUFFICES ASSUME NEW m \in (origins[o].at + 1)..n
               PROVE  versions'[p][m] = o
    BY <1>1 DEF Own
  <2>2. versions[p][m] = o /\ m \in 1..Len(versions[p])
    BY <1>1, <1>2, <2>1 DEF Own
  <2> QED BY <2>2 DEF Later
<1> QED BY <1>1, <1>2

LEMMA BasedStays ==
  ASSUME TypeOK, Later, NEW d \in Doc, d.origin \in DOMAIN origins, Based(d)
  PROVE  Based(d)'
<1>1. origins'[d.origin] = origins[d.origin] /\ d.revision \in Nat
  BY OriginStays DEF Doc
<1>2. CASE d.id = None
  BY <1>1, <1>2 DEF Based
<1>3. CASE d.id \in Ids
  <2>1. Len(versions[d.id]) \in Nat /\ d.id # None /\ d.revision <= Len(versions[d.id])
    BY <1>3, Ranges DEF Based
  <2>2. d.revision <= Len(versions'[d.id])
    BY <1>1, <1>3, <2>1 DEF Later
  <2>3. ASSUME d.origin \notin stamped'
        PROVE  origins[d.origin].project \in {d.id, None} /\ Own(d.id, d.origin, d.revision)'
    <3>1. d.origin \notin stamped
      BY <2>3 DEF Later
    <3>2. origins[d.origin].project \in {d.id, None} /\ Own(d.id, d.origin, d.revision)
      BY <2>1, <3>1 DEF Based
    <3> QED BY <1>1, <1>3, <2>1, <3>2, OriginStays
  <2> QED BY <1>1, <2>1, <2>2, <2>3 DEF Based
<1> QED BY <1>2, <1>3 DEF Doc

LEMMA SoundStays ==
  ASSUME TypeOK, Later, NEW s \in Save, s.sent.origin \in DOMAIN origins, Sound(s)
  PROVE  Sound(s)'
<1>1. /\ s.id \in Ids /\ s.revision \in Nat /\ s.sent.revision \in Nat
      /\ Len(versions[s.id]) \in Nat /\ s.revision <= Len(versions[s.id])
  BY Ranges DEF Save, Doc, Sound
<1>2. s.revision <= Len(versions'[s.id])
  BY <1>1 DEF Later
<1>3. ASSUME s.sent.origin \notin stamped', s.sent.id = s.id
      PROVE  /\ origins'[s.sent.origin].project \in {s.id, None}
             /\ s.sent.revision <= Len(versions'[s.id])
             /\ Own(s.id, s.sent.origin, s.sent.revision)'
             /\ Own(s.id, s.sent.origin, s.revision)'
  <2>1. /\ origins[s.sent.origin].project \in {s.id, None}
        /\ s.sent.revision <= Len(versions[s.id])
        /\ Own(s.id, s.sent.origin, s.sent.revision)
        /\ Own(s.id, s.sent.origin, s.revision)
    BY <1>3 DEF Later, Sound
  <2>2. s.sent.revision <= Len(versions'[s.id])
    BY <1>1, <2>1 DEF Later
  <2> QED BY <1>1, <2>1, <2>2, OriginStays
<1> QED BY <1>2, <1>3 DEF Sound

LEMMA EarnedStays ==
  ASSUME TypeOK, Later, NEW p \in Ids, NEW n \in DOMAIN versions[p], Earned(p, n)
  PROVE  Earned(p, n)'
<1>1. /\ Len(versions[p]) \in Nat /\ DOMAIN versions[p] = 1..Len(versions[p])
      /\ versions[p] \in Seq({Others} \cup DOMAIN origins)
  BY Ranges
<1>o. PICK o : o = versions[p][n]
  OBVIOUS
<1>2. o \in {Others} \cup DOMAIN origins /\ versions'[p][n] = o
  BY <1>1, <1>o, ElementOfSeq DEF Later
<1>3. CASE o \in {Others} \cup stamped
  BY <1>2, <1>3 DEF Later, Earned, Others
<1>5. CASE o \notin {Others} \cup stamped
  <2>1. o \in DOMAIN origins /\ BuiltUpon(p, n)
    BY <1>2, <1>o, <1>5 DEF Earned
  <2>2. origins[o].at \in Nat /\ origins'[o] = origins[o]
    BY <2>1, OriginStays
  <2>3. /\ origins[o].project \in {p, None}
        /\ \A m \in (origins[o].at + 1)..(n - 1) : versions[p][m] = o
    BY <1>o, <2>1 DEF BuiltUpon
  <2>4. \A m \in (origins[o].at + 1)..(n - 1) : m \in 1..Len(versions[p])
    BY <1>1, <2>2
  <2>5. \A m \in (origins[o].at + 1)..(n - 1) : versions'[p][m] = o
    BY <2>3, <2>4 DEF Later
  <2> QED BY <1>2, <2>2, <2>3, <2>5 DEF Earned, BuiltUpon
<1> QED BY <1>3, <1>5

\* what is left to show of a step that takes no claim's ground away
LEMMA ClaimsStay ==
  ASSUME ClaimsInv, TypeInv', Later,
         \A d \in Docs' : d \in Docs \/ Based(d)',
         \A s \in Sent' : s \in Sent \/ Sound(s)',
         \A r \in Reads' : r \in Reads \/ r.at <= Len(versions'[r.project]),
         \A p \in Ids : \A n \in DOMAIN versions'[p] \ DOMAIN versions[p] : Earned(p, n)'
  PROVE  ClaimsInv'
<1>1. TypeOK
  BY DEF ClaimsInv, TypeInv
<1>2. DocsInv'
  <2> SUFFICES ASSUME NEW d \in Docs', d \in Docs PROVE Based(d)'
    BY DEF DocsInv
  <2>1. d \in Doc /\ d.origin \in DOMAIN origins /\ Based(d)
    <3>1. d \in Doc
      BY <1>1, LenProperties, ElementOfSeq DEF TypeOK, Docs
    <3> QED BY <3>1 DEF ClaimsInv, TypeInv, Rooted, DocsInv
  <2> QED BY <1>1, <2>1, BasedStays
<1>3. SavesInv'
  <2> SUFFICES ASSUME NEW s \in Sent', s \in Sent PROVE Sound(s)'
    BY DEF SavesInv
  <2>1. s \in Save /\ s.sent.origin \in DOMAIN origins /\ Sound(s)
    <3>1. s \in Save
      BY <1>1, Ranges DEF Sent
    <3> QED BY <3>1 DEF ClaimsInv, TypeInv, Rooted, SavesInv, Sent
  <2> QED BY <1>1, <2>1, SoundStays
<1>4. ReadsInv'
  <2> SUFFICES ASSUME NEW r \in Reads', r \in Reads PROVE r.at <= Len(versions'[r.project])
    BY DEF ReadsInv
  <2>1. r \in [project : Ids, at : Nat \ {0}]
    <3> DEFINE R == [project : Ids, at : Nat \ {0}]
    <3>1. reads \in Seq(R)
      BY <1>1 DEF TypeOK
    <3>2. PICK n \in DOMAIN reads : r = reads[n]
      BY DEF Reads
    <3> HIDE DEF R
    <3>3. reads[n] \in R
      BY <3>1, LenProperties, ElementOfSeq
    <3>4. r \in R
      BY <3>2, <3>3
    <3> QED BY <3>4 DEF R
  <2>2. r.at \in Nat /\ r.project \in Ids /\ r.at <= Len(versions[r.project])
        /\ Len(versions[r.project]) \in Nat
    BY <1>1, <2>1, Ranges DEF ClaimsInv, ReadsInv
  <2> QED BY <2>2 DEF Later
<1>5. NothingOverwritten'
  <2> SUFFICES ASSUME NEW p \in Ids, NEW n \in DOMAIN versions'[p], n \in DOMAIN versions[p]
               PROVE  Earned(p, n)'
    BY DEF NothingOverwritten, Earned
  <2>1. Earned(p, n)
    BY DEF ClaimsInv, NothingOverwritten, Earned
  <2> QED BY <1>1, <2>1, EarnedStays
<1> QED BY <1>2, <1>3, <1>4, <1>5 DEF ClaimsInv

LEMMA SameGround ==
  ASSUME TypeOK, UNCHANGED <<versions, origins>>, stamped \subseteq stamped'
  PROVE  Later /\ \A p \in Ids : DOMAIN versions'[p] \ DOMAIN versions[p] = {}
BY Ranges DEF Later

LEMMA NewGround ==
  ASSUME TypeOK, NEW o, Began(o), UNCHANGED <<versions, stamped>>
  PROVE  Later /\ \A p \in Ids : DOMAIN versions'[p] \ DOMAIN versions[p] = {}
BY Ranges DEF Later, Began

LEMMA GrownGround ==
  ASSUME TypeOK, NEW p \in Ids, NEW o, Grown(p, o), UNCHANGED <<origins, stamped>>
  PROVE  /\ Later
         /\ \A q \in Ids : \A n \in DOMAIN versions'[q] \ DOMAIN versions[q] :
               q = p /\ n = Len(versions[p]) + 1
<1>1. \A q \in Ids : Len(versions[q]) \in Nat /\ DOMAIN versions[q] = 1..Len(versions[q])
  BY Ranges
<1>2. /\ \A q \in Ids \ {p} : versions'[q] = versions[q]
      /\ versions'[p] \in Seq({Others} \cup DOMAIN origins)
      /\ Len(versions'[p]) = Len(versions[p]) + 1
      /\ \A n \in 1..Len(versions[p]) : versions'[p][n] = versions[p][n]
  BY DEF Grown
<1>3. DOMAIN versions'[p] = 1..(Len(versions[p]) + 1)
  BY <1>2, LenProperties
<1>4. Later
  BY <1>1, <1>2 DEF Later
<1>5. ASSUME NEW q \in Ids, NEW n \in DOMAIN versions'[q] \ DOMAIN versions[q]
      PROVE  q = p /\ n = Len(versions[p]) + 1
  <2>1. q = p
    BY <1>2, <1>5
  <2> QED BY <1>1, <1>3, <1>5, <2>1
<1> QED BY <1>4, <1>5

LEMMA OneMore ==
  ASSUME NEW s, Added(s)
  PROVE  \A t \in Sent' : t \in Sent \/ t = s
BY DEF Added, Sent

LEMMA OneChanged ==
  ASSUME NEW i \in DOMAIN saves, GoesOn(i)
  PROVE  \A t \in Sent' : t \in Sent \/ t = saves'[i]
BY DEF GoesOn, Sent

\* no new document, save, read or revision
LEMMA QuietClaims ==
  ASSUME ClaimsInv, TypeInv', Docs' \subseteq Docs,
         UNCHANGED <<saves, reads, versions, origins, stamped>>
  PROVE  ClaimsInv'
<1>1. TypeOK
  BY DEF ClaimsInv, TypeInv
<1>2. Sent' = Sent /\ Reads' = Reads
  BY DEF Sent, Reads
<1> QED BY <1>1, <1>2, SameGround, ClaimsStay

LEMMA LoadClaims ==
  ASSUME ClaimsInv, NEW p \in Ids, Load(p)
  PROVE  ClaimsInv'
<1>1. TypeInv /\ TypeOK
  BY DEF ClaimsInv, TypeInv
<1>2. TypeInv' /\ Docs' = Docs
  BY <1>1, LoadTypes
<1> DEFINE r == [project |-> p, at |-> Len(versions[p])]
<1>3. reads' = Append(reads, r) /\ UNCHANGED <<saves, versions, origins, stamped>>
  BY DEF Load, server, history
<1>4. Sent' = Sent
  BY <1>3 DEF Sent
<1>5. /\ r.project = p /\ r.at = Len(versions[p]) /\ Len(versions[p]) \in Nat
  BY <1>1, Ranges
<1> HIDE DEF r
<1>6. \A t \in Reads' : t \in Reads \/ t = r
  <2>1. reads \in Seq([project : Ids, at : Nat \ {0}]) /\ Len(reads) \in Nat
    BY <1>1, LenProperties DEF TypeOK
  <2>2. /\ DOMAIN reads = 1..Len(reads) /\ DOMAIN reads' = 1..(Len(reads) + 1)
        /\ \A n \in DOMAIN reads : reads'[n] = reads[n]
        /\ reads'[Len(reads) + 1] = r
    BY <1>3, <2>1, LenProperties
  <2>3. \A n \in DOMAIN reads' : n \in DOMAIN reads \/ n = Len(reads) + 1
    BY <2>1, <2>2
  <2> QED BY <2>2, <2>3 DEF Reads
<1>7. \A t \in Reads' : t \in Reads \/ t.at <= Len(versions'[t.project])
  BY <1>3, <1>5, <1>6
<1> QED BY <1>1, <1>2, <1>3, <1>4, <1>7, SameGround, ClaimsStay

\* what is known of a document of the editor
LEMMA Documents ==
  ASSUME ClaimsInv, NEW d \in Docs
  PROVE  /\ d \in Doc /\ d.origin \in DOMAIN origins /\ Based(d)
         /\ origins[d.origin].at \in Nat /\ origins[d.origin].project \in Ids \cup {None}
<1>1. TypeOK
  BY DEF ClaimsInv, TypeInv
<1>2. d \in Doc
  BY <1>1, LenProperties, ElementOfSeq DEF TypeOK, Docs
<1>3. d.origin \in DOMAIN origins /\ Based(d)
  BY DEF ClaimsInv, TypeInv, Rooted, DocsInv
<1>4. origins[d.origin] \in [project : Ids \cup {None}, at : Nat]
  BY <1>1, <1>3, LenProperties, ElementOfSeq DEF TypeOK
<1> QED BY <1>2, <1>3, <1>4

LEMMA ByHandClaims ==
  ASSUME ClaimsInv, SaveByHand
  PROVE  ClaimsInv'
<1>1. TypeInv /\ TypeOK
  BY DEF ClaimsInv, TypeInv
<1>2. PICK id \in Ids, st \in Stages :
         /\ Added([kind |-> "manual", id |-> id, sent |-> [doc EXCEPT !.id = id],
                   stage |-> st, revision |-> 0])
         /\ stamped' = MarkedByHand(id)
  BY <1>1, ByHandTypes
<1>3. TypeInv'
  BY <1>1, ByHandTypes
<1>s. PICK s : s = [kind |-> "manual", id |-> id, sent |-> [doc EXCEPT !.id = id],
                    stage |-> st, revision |-> 0]
  OBVIOUS
<1>o. PICK o : o = doc.origin
  OBVIOUS
<1>r. PICK r : r = doc.revision
  OBVIOUS
<1>4. UNCHANGED <<doc, undo, redo, reads, versions, origins>>
  BY DEF SaveByHand, browser, server
<1>5. Docs' = Docs /\ Reads' = Reads
  BY <1>4 DEF Docs, Reads
<1>6. /\ doc \in Doc /\ doc.origin \in DOMAIN origins /\ Based(doc)
      /\ origins[doc.origin].at \in Nat
  BY Documents DEF Docs
<1>7. /\ s.id = id /\ s.revision = 0 /\ s.sent.id = id
      /\ s.sent.origin = o /\ s.sent.revision = r
      /\ r \in Nat /\ Len(versions[id]) \in Nat /\ o \in DOMAIN origins
  BY <1>1, <1>6, <1>s, <1>o, <1>r, Ranges DEF Doc
<1>9. Own(id, o, 0)
  BY <1>6, <1>o DEF Own
<1>10. ASSUME o \notin stamped'
       PROVE  /\ origins[o].project \in {id, None}
              /\ r <= Len(versions[id])
              /\ Own(id, o, r)
  <2>1. o \notin stamped /\ doc.id \in {None, id}
    BY <1>2, <1>10, <1>o DEF MarkedByHand
  <2>2. CASE doc.id = None
    BY <1>6, <1>7, <1>9, <1>o, <1>r, <2>2 DEF Based
  <2>3. CASE doc.id = id /\ id # None
    BY <1>6, <1>o, <1>r, <2>1, <2>3 DEF Based
  <2> QED BY <2>1, <2>2, <2>3
<1>11. Sound(s)'
  <2>1. 0 <= Len(versions[id])
    BY <1>7
  <2> QED BY <1>4, <1>7, <1>9, <1>10, <2>1 DEF Sound, Own
<1>12. \A t \in Sent' : t \in Sent \/ Sound(t)'
  <2>1. Added(s)
    BY <1>2, <1>s
  <2> QED BY <1>11, <2>1, OneMore
<1>13. stamped \subseteq stamped'
  BY <1>2 DEF MarkedByHand
<1> QED BY <1>1, <1>3, <1>4, <1>5, <1>12, <1>13, SameGround, ClaimsStay

LEMMA CopyClaims ==
  ASSUME ClaimsInv, SaveCopy
  PROVE  ClaimsInv'
<1>1. TypeInv /\ TypeOK
  BY DEF ClaimsInv, TypeInv
<1>o. PICK o : o = Len(origins) + 1
  OBVIOUS
<1>2. PICK id \in Ids :
         /\ doc' = [id |-> id, revision |-> 0, origin |-> o]
         /\ Began([project |-> id, at |-> 0])
         /\ Added([kind |-> "copy", id |-> id,
                   sent |-> [id |-> id, revision |-> 0, origin |-> o],
                   stage |-> "acquiring", revision |-> 0])
  BY <1>1, <1>o, CopyTypes
<1>3. TypeInv'
  BY <1>1, CopyTypes
<1>c. PICK copy : copy = [id |-> id, revision |-> 0, origin |-> o]
  OBVIOUS
<1>s. PICK s : s = [kind |-> "copy", id |-> id, sent |-> copy, stage |-> "acquiring", revision |-> 0]
  OBVIOUS
<1>4. UNCHANGED <<undo, redo, reads, versions, stamped>>
  BY DEF SaveCopy, server
<1>5. Reads' = Reads
  BY <1>4 DEF Reads
<1>6. Later /\ \A p \in Ids : DOMAIN versions'[p] \ DOMAIN versions[p] = {}
  BY <1>1, <1>2, <1>4, NewGround
<1>7. origins'[o].project = id /\ origins'[o].at = 0
  BY <1>2, <1>o DEF Began
<1>8. Own(id, o, 0)' /\ id # None /\ Len(versions'[id]) \in Nat
  BY <1>1, <1>4, <1>7, Ranges DEF Own
<1>9. copy.id = id /\ copy.revision = 0 /\ copy.origin = o
  BY <1>c
<1>10. s.id = id /\ s.sent = copy /\ s.revision = 0 /\ s.stage = "acquiring"
  BY <1>s
<1>11. Added(s) /\ doc' = copy
  BY <1>2, <1>c, <1>s
<1>12. Based(copy)'
  BY <1>7, <1>8, <1>9 DEF Based
<1>13. Sound(s)'
  BY <1>7, <1>8, <1>9, <1>10 DEF Sound
<1>14. \A t \in Sent' : t \in Sent \/ Sound(t)'
  BY <1>11, <1>13, OneMore
<1>15. \A d \in Docs' : d \in Docs \/ Based(d)'
  BY <1>4, <1>11, <1>12 DEF Docs
<1> QED BY <1>3, <1>5, <1>6, <1>14, <1>15, ClaimsStay

LEMMA LoadedClaims ==
  ASSUME ClaimsInv, Loaded
  PROVE  ClaimsInv'
<1>1. TypeInv /\ TypeOK
  BY DEF ClaimsInv, TypeInv
<1>o. PICK o : o = Len(origins) + 1
  OBVIOUS
<1>2. PICK p \in Ids, n \in Nat \ {0} :
         /\ Head(reads) = [project |-> p, at |-> n]
         /\ doc' = [id |-> p, revision |-> n, origin |-> o]
         /\ Began([project |-> p, at |-> n])
  BY <1>1, <1>o, LoadedTypes
<1>3. TypeInv'
  BY <1>1, LoadedTypes
<1>4. UNCHANGED <<undo, redo, saves, versions, stamped>> /\ reads' = Tail(reads) /\ reads # <<>>
  BY DEF Loaded, server
<1>5. Later /\ \A q \in Ids : DOMAIN versions'[q] \ DOMAIN versions[q] = {}
  BY <1>1, <1>2, <1>4, NewGround
<1>6. Reads' \subseteq Reads /\ [project |-> p, at |-> n] \in Reads
  <2>1. reads \in Seq([project : Ids, at : Nat \ {0}])
    BY <1>1 DEF TypeOK
  <2>2. {Tail(reads)[k] : k \in DOMAIN Tail(reads)} \subseteq {reads[k] : k \in DOMAIN reads}
    BY <1>4, <2>1, Tailed
  <2>3. 1 \in DOMAIN reads
    BY <1>4, <2>1, EmptySeq, LenProperties
  <2>4. Head(reads) = reads[1]
    BY <1>4, <2>1, HeadTailProperties
  <2> QED BY <1>2, <1>4, <2>2, <2>3, <2>4 DEF Reads
<1>7. n <= Len(versions'[p])
  <2>1. \A r \in Reads : r.at <= Len(versions[r.project])
    BY DEF ClaimsInv, ReadsInv
  <2> QED BY <1>4, <1>6, <2>1
<1>8. Own(p, o, n)' /\ p # None /\ origins'[o].project = p
  <2>1. origins'[o].project = p /\ origins'[o].at = n
    BY <1>2, <1>o DEF Began
  <2>2. p # None
    BY <1>1, Ranges
  <2> QED BY <2>1, <2>2 DEF Own
<1>d. PICK d : d = [id |-> p, revision |-> n, origin |-> o]
  OBVIOUS
<1>9. d.id = p /\ d.revision = n /\ d.origin = o /\ doc' = d
  BY <1>2, <1>d
<1>10. Based(d)'
  BY <1>7, <1>8, <1>9 DEF Based
<1>11. \A e \in Docs' : e \in Docs \/ Based(e)'
  BY <1>4, <1>9, <1>10 DEF Docs
<1>12. Sent' = Sent
  BY <1>4 DEF Sent
<1> QED BY <1>3, <1>5, <1>6, <1>11, <1>12, ClaimsStay

LEMMA TimerClaims ==
  ASSUME ClaimsInv, TimerFires
  PROVE  ClaimsInv'
<1>1. TypeInv /\ TypeOK
  BY DEF ClaimsInv, TypeInv
<1>2. TypeInv'
  BY <1>1, TimerTypes
<1>3. UNCHANGED <<doc, undo, redo, reads, versions, origins, stamped>>
  BY DEF TimerFires, server
<1>4. Docs' = Docs /\ Reads' = Reads
  BY <1>3 DEF Docs, Reads
<1>5. CASE UNCHANGED saves
  BY <1>2, <1>3, <1>4, <1>5, QuietClaims
<1>6. ASSUME NEW id \in Ids,
             Added([kind |-> "auto", id |-> id, sent |-> doc, stage |-> "acquiring", revision |-> 0])
      PROVE  ClaimsInv'
  <2>s. PICK s : s = [kind |-> "auto", id |-> id, sent |-> doc, stage |-> "acquiring", revision |-> 0]
    OBVIOUS
  <2>1. s.id = id /\ s.sent = doc /\ s.revision = 0 /\ s.stage = "acquiring" /\ Added(s)
    BY <1>6, <2>s
  <2>2. /\ doc \in Doc /\ doc.origin \in DOMAIN origins /\ Based(doc)
        /\ origins[doc.origin].at \in Nat
    BY Documents DEF Docs
  <2>3. Len(versions[id]) \in Nat /\ id # None /\ Own(id, doc.origin, 0)
    BY <1>1, <2>2, Ranges DEF Own
  <2>4. Sound(s)
    BY <2>1, <2>2, <2>3 DEF Sound, Based
  <2>5. Sound(s)'
    BY <1>3, <2>4 DEF Sound, Own
  <2>6. \A t \in Sent' : t \in Sent \/ Sound(t)'
    BY <2>1, <2>5, OneMore
  <2> QED BY <1>1, <1>2, <1>3, <1>4, <2>6, SameGround, ClaimsStay
<1> QED BY <1>1, <1>5, <1>6, TimerTypes

\* an answer changes at most the identity and revision of the document on display
LEMMA AnswerClaims ==
  ASSUME ClaimsInv, NEW i \in DOMAIN saves,
         AutoAnswered(i) \/ ManualAnswered(i) \/ CopyAnswered(i)
  PROVE  ClaimsInv'
<1>1. TypeInv /\ TypeOK
  BY DEF ClaimsInv, TypeInv
<1>2. TypeInv'
  BY <1>1, AnswerTypes
<1>3. UNCHANGED <<undo, redo, reads, versions, origins>>
  BY DEF AutoAnswered, ManualAnswered, CopyAnswered, browser, server, history
<1>4. PICK s : s = saves[i]
  OBVIOUS
<1>5. /\ GoesOn(i) /\ s.stage = "answered"
      /\ saves'[i].stage = "over" /\ saves'[i].revision = s.revision
  BY <1>1, <1>4, Moves
<1>6. s \in Save /\ s.id \in Ids /\ s.revision \in Nat /\ s.id # None /\ Sound(s)
  BY <1>1, <1>4, Ranges DEF Save, ClaimsInv, SavesInv, Sent
<1>7. PICK t : t = saves'[i]
  OBVIOUS
<1>8. t.id = s.id /\ t.sent = s.sent /\ t.revision = s.revision /\ t.stage = "over"
  BY <1>4, <1>5, <1>7 DEF GoesOn
<1>9. stamped \subseteq stamped'
  BY DEF AutoAnswered, ManualAnswered, CopyAnswered, history, Marked
<1>10. Later /\ \A p \in Ids : DOMAIN versions'[p] \ DOMAIN versions[p] = {}
  BY <1>1, <1>3, <1>9, SameGround
<1>11. Sound(t)
  BY <1>6, <1>8 DEF Sound
<1>12. Sound(t)'
  BY <1>3, <1>9, <1>11 DEF Sound, Own
<1>13. \A u \in Sent' : u \in Sent \/ Sound(u)'
  BY <1>5, <1>7, <1>12, OneChanged
<1>14. \A d \in Docs' : d \in Docs \/ Based(d)'
  <2>1. CASE doc' = doc
    BY <1>3, <2>1 DEF Docs
  <2>2. CASE doc' # doc
    <3>1. PICK e : e = doc'
      OBVIOUS
    <3>2. doc \in Doc
      BY <1>1 DEF TypeOK
    <3>3. /\ s.revision > 0 /\ e.id = s.id /\ e.revision = s.revision /\ e.origin = doc.origin
          /\ stamped' = Marked(i)
      <4>1. CASE AutoAnswered(i)
        <5>1. /\ s.revision > 0 /\ doc.id = s.id
              /\ e = [doc EXCEPT !.revision = s.revision]
              /\ stamped' = Marked(i)
          BY <1>4, <2>2, <3>1, <4>1 DEF AutoAnswered, Stamps
        <5> QED BY <3>2, <5>1 DEF Doc
      <4>2. CASE ManualAnswered(i)
        <5>1. /\ s.revision > 0
              /\ e = [doc EXCEPT !.id = s.id, !.revision = s.revision]
              /\ stamped' = Marked(i)
          BY <1>4, <2>2, <3>1, <4>2 DEF ManualAnswered
        <5> QED BY <3>2, <5>1 DEF Doc
      <4>3. CASE CopyAnswered(i)
        BY <2>2, <4>3 DEF CopyAnswered, browser
      <4> QED BY <4>1, <4>2, <4>3
    <3>4. s.revision <= Len(versions'[s.id]) /\ s.sent.id = s.id
      BY <1>3, <1>6, <3>3 DEF Sound
    <3>5. ASSUME e.origin \notin stamped'
          PROVE  origins'[e.origin].project \in {e.id, None} /\ Own(e.id, e.origin, e.revision)'
      <4>1. e.origin = s.sent.origin /\ s.sent.origin \notin stamped
        BY <1>4, <3>3, <3>5 DEF Marked
      <4>2. origins[s.sent.origin].project \in {s.id, None} /\ Own(s.id, s.sent.origin, s.revision)
        BY <1>6, <3>4, <4>1 DEF Sound
      <4> QED BY <1>3, <3>3, <4>1, <4>2 DEF Own
    <3>6. Based(e)'
      BY <1>6, <3>3, <3>4, <3>5 DEF Based
    <3> QED BY <1>3, <3>1, <3>6 DEF Docs
  <2> QED BY <2>1, <2>2
<1>15. Reads' = Reads
  BY <1>3 DEF Reads
<1> QED BY <1>2, <1>10, <1>13, <1>14, <1>15, ClaimsStay

\* a step of one save that commits nothing
LEMMA IdleClaims ==
  ASSUME ClaimsInv, TypeInv', NEW i \in DOMAIN saves, GoesOn(i),
         UNCHANGED <<doc, undo, redo, reads, versions, origins, stamped>>,
         saves'[i].revision \in {saves[i].revision, 0},
         saves'[i].stage # "creating"
  PROVE  ClaimsInv'
<1>1. TypeOK
  BY DEF ClaimsInv, TypeInv
<1>2. PICK s : s = saves[i]
  OBVIOUS
<1>3. PICK t : t = saves'[i]
  OBVIOUS
<1>4. /\ t.id = s.id /\ t.sent = s.sent /\ t.stage # "creating"
      /\ t.revision \in {s.revision, 0}
  BY <1>2, <1>3 DEF GoesOn
<1>5. /\ s.id \in Ids /\ s.revision \in Nat /\ Sound(s)
      /\ s.sent.origin \in DOMAIN origins /\ Len(versions[s.id]) \in Nat
  <2>1. s \in Save /\ s.sent.origin \in DOMAIN origins
    BY <1>1, <1>2, Ranges DEF ClaimsInv, TypeInv, Rooted
  <2>2. Sound(s)
    BY <1>2 DEF ClaimsInv, SavesInv, Sent
  <2> QED BY <1>1, <2>1, <2>2, Ranges DEF Save
<1>6. Own(s.id, s.sent.origin, 0)
  <2>1. origins[s.sent.origin] \in [project : Ids \cup {None}, at : Nat]
    BY <1>1, <1>5, LenProperties, ElementOfSeq DEF TypeOK
  <2> QED BY <2>1 DEF Own
<1>7. Sound(t)
  BY <1>4, <1>5, <1>6 DEF Sound
<1>8. Sound(t)'
  BY <1>7 DEF Sound, Own
<1>9. \A u \in Sent' : u \in Sent \/ Sound(u)'
  BY <1>3, <1>8, OneChanged
<1>10. Docs' = Docs /\ Reads' = Reads
  BY DEF Docs, Reads
<1> QED BY <1>1, <1>9, <1>10, SameGround, ClaimsStay

\* a commit: the revision that is replaced is the one the candidate names
LEMMA CommitClaims ==
  ASSUME ClaimsInv, TypeInv', NEW i \in DOMAIN saves, GoesOn(i),
         MayCommit(i), Commits(i),
         UNCHANGED <<doc, undo, redo, reads, origins, stamped>>,
         saves'[i].revision \in {Len(versions[saves[i].id]) + 1, 0},
         saves'[i].stage # "creating"
  PROVE  ClaimsInv'
<1>1. TypeInv /\ TypeOK
  BY DEF ClaimsInv, TypeInv
<1>2. PICK s : s = saves[i]
  OBVIOUS
<1>3. PICK t : t = saves'[i]
  OBVIOUS
<1>4. PICK n : n = Len(versions[s.id])
  OBVIOUS
<1>5. /\ t.id = s.id /\ t.sent = s.sent /\ t.stage # "creating"
      /\ t.revision \in {n + 1, 0}
  BY <1>2, <1>3, <1>4 DEF GoesOn
<1>6. s \in Save /\ Sound(s) /\ s.id \in Ids /\ Grown(s.id, s.sent.origin)
  BY <1>1, <1>2, Ranges, CommitTypes DEF ClaimsInv, SavesInv, Sent
<1>7. /\ s.sent.origin \in DOMAIN origins /\ origins[s.sent.origin].at \in Nat
      /\ n \in Nat /\ s.sent.revision \in Nat
  <2>1. s.sent.origin \in DOMAIN origins
    BY <1>1, <1>2 DEF TypeInv, Rooted
  <2>2. origins[s.sent.origin] \in [project : Ids \cup {None}, at : Nat]
    BY <1>1, <2>1, LenProperties, ElementOfSeq DEF TypeOK
  <2> QED BY <1>1, <1>4, <1>6, <2>1, <2>2, Ranges DEF Save, Doc
<1>8. /\ Later
      /\ \A q \in Ids : \A k \in DOMAIN versions'[q] \ DOMAIN versions[q] :
            q = s.id /\ k = n + 1
  BY <1>1, <1>4, <1>6, GrownGround
<1>9. /\ versions'[s.id][n + 1] = s.sent.origin /\ Len(versions'[s.id]) = n + 1
      /\ \A k \in 1..n : versions'[s.id][k] = versions[s.id][k]
  BY <1>4, <1>6 DEF Grown
<1>10. s.sent.id = s.id /\ (s.sent.revision = n \/ n = 0)
  <2>1. CASE Accepts(i)
    BY <1>2, <1>4, <2>1 DEF Accepts
  <2>2. CASE s.stage = "creating" /\ versions[s.id] = <<>>
    BY <1>4, <1>6, <2>2, EmptySeq DEF Sound
  <2> QED BY <1>2, <2>1, <2>2 DEF MayCommit, At
\* up to the revision that is replaced everything is the document's own
<1>11. ASSUME s.sent.origin \notin stamped
       PROVE  /\ origins[s.sent.origin].project \in {s.id, None}
              /\ s.sent.revision <= n
              /\ Own(s.id, s.sent.origin, s.sent.revision)
              /\ Own(s.id, s.sent.origin, n)
  <2>1. /\ origins[s.sent.origin].project \in {s.id, None}
        /\ s.sent.revision <= n
        /\ Own(s.id, s.sent.origin, s.sent.revision)
    BY <1>4, <1>6, <1>10, <1>11 DEF Sound
  <2>2. CASE n = 0
    BY <1>7, <2>1, <2>2 DEF Own
  <2>3. CASE s.sent.revision = n
    BY <2>1, <2>3
  <2> QED BY <1>10, <2>1, <2>2, <2>3
<1>12. ASSUME s.sent.origin \notin stamped, NEW m \in (origins[s.sent.origin].at + 1)..(n + 1)
       PROVE  versions'[s.id][m] = s.sent.origin
  <2>1. CASE m = n + 1
    BY <1>9, <2>1
  <2>2. CASE m # n + 1
    <3>1. m \in (origins[s.sent.origin].at + 1)..n /\ m \in 1..n
      BY <1>7, <2>2
    <3> QED BY <1>9, <1>11, <1>12, <3>1 DEF Own
  <2> QED BY <2>1, <2>2
<1>13. Earned(s.id, n + 1)'
  <2> SUFFICES ASSUME s.sent.origin \notin stamped
               PROVE  BuiltUpon(s.id, n + 1)'
    BY <1>9 DEF Earned
  <2>1. \A m \in (origins[s.sent.origin].at + 1)..((n + 1) - 1) :
           versions'[s.id][m] = s.sent.origin
    BY <1>7, <1>12
  <2> QED BY <1>9, <1>11, <2>1 DEF BuiltUpon
<1>14. Sound(t)'
  <2>1. t.revision <= Len(versions'[t.id])
    BY <1>5, <1>7, <1>9
  <2>2. ASSUME t.sent.origin \notin stamped'
        PROVE  /\ origins'[t.sent.origin].project \in {t.id, None}
               /\ t.sent.revision <= Len(versions'[t.id])
               /\ Own(t.id, t.sent.origin, t.sent.revision)'
               /\ Own(t.id, t.sent.origin, t.revision)'
    <3> s.sent.origin \notin stamped
      BY <1>5, <2>2
    <3>1. t.sent.revision <= Len(versions'[t.id])
      BY <1>5, <1>7, <1>9, <1>11, <2>2
    <3>2. Own(t.id, t.sent.origin, t.sent.revision)'
      BY <1>5, <1>7, <1>11, <1>12, <2>2 DEF Own
    <3>3. Own(t.id, t.sent.origin, t.revision)'
      BY <1>5, <1>7, <1>12, <2>2 DEF Own
    <3> QED BY <1>5, <1>11, <2>2, <3>1, <3>2, <3>3
  <2> QED BY <1>5, <1>10, <2>1, <2>2 DEF Sound
<1>15. \A u \in Sent' : u \in Sent \/ Sound(u)'
  BY <1>3, <1>14, OneChanged
<1>16. Docs' = Docs /\ Reads' = Reads
  BY DEF Docs, Reads
<1> QED BY <1>8, <1>13, <1>15, <1>16, ClaimsStay

LEMMA ServerClaims ==
  ASSUME ClaimsInv, NEW i \in DOMAIN saves,
         Refused(i) \/ Acquired(i) \/ Committed(i) \/ Released(i) \/ ConnectionLost(i)
  PROVE  ClaimsInv'
<1>1. TypeInv /\ TypeOK
  BY DEF ClaimsInv, TypeInv
<1>2. TypeInv'
  BY <1>1, ServerTypes
<1>3. UNCHANGED <<doc, undo, redo, reads, origins, stamped>>
  BY DEF Refused, Acquired, Committed, Released, ConnectionLost, browser, history
<1>4. CASE Refused(i) \/ Acquired(i) \/ Released(i)
  <2>1. versions' = versions
    BY <1>4 DEF Refused, Acquired, Released, server
  <2>2. /\ GoesOn(i) /\ saves'[i].stage # "creating"
        /\ saves'[i].revision \in {saves[i].revision, 0}
    <3>1. CASE Refused(i)
      BY <1>1, <3>1, Moves
    <3>2. CASE Acquired(i)
      BY <1>1, <3>2, Moves
    <3>3. CASE Released(i)
      BY <1>1, <3>3, Moves
    <3> QED BY <1>4, <3>1, <3>2, <3>3
  <2> QED BY <1>2, <1>3, <2>1, <2>2, IdleClaims
<1>5. CASE Committed(i)
  <2>1. MayCommit(i) /\ Commits(i)
    BY <1>5 DEF Committed
  <2>2. /\ GoesOn(i) /\ saves'[i].stage # "creating"
        /\ saves'[i].revision = Len(versions[saves[i].id]) + 1
    BY <1>1, <1>5, Moves
  <2> QED BY <1>2, <1>3, <2>1, <2>2, CommitClaims
<1>6. CASE ConnectionLost(i)
  <2>1. versions' = versions \/ (MayCommit(i) /\ Commits(i))
    BY <1>6 DEF ConnectionLost, server
  <2>2. GoesOn(i) /\ saves'[i].stage # "creating" /\ saves'[i].revision = 0
    BY <1>1, <1>6, Moves
  <2> QED BY <1>2, <1>3, <2>1, <2>2, IdleClaims, CommitClaims
<1> QED BY <1>4, <1>5, <1>6

LEMMA OthersClaims ==
  ASSUME ClaimsInv, NEW p \in Ids, OthersSave(p)
  PROVE  ClaimsInv'
<1>1. TypeInv /\ TypeOK
  BY DEF ClaimsInv, TypeInv
<1>2. TypeInv' /\ UNCHANGED <<doc, undo, redo, saves, origins, stamped>>
  BY <1>1, OtherTypes
<1>3. reads' = reads /\ versions' = [versions EXCEPT ![p] = Append(@, Others)]
  BY DEF OthersSave, browser
<1>4. Grown(p, Others)
  BY <1>1, <1>3, Grows
<1>5. /\ Later
      /\ \A q \in Ids : \A n \in DOMAIN versions'[q] \ DOMAIN versions[q] :
            q = p /\ n = Len(versions[p]) + 1
  BY <1>1, <1>2, <1>4, GrownGround
<1>6. \A q \in Ids : \A n \in DOMAIN versions'[q] \ DOMAIN versions[q] : Earned(q, n)'
  BY <1>4, <1>5 DEF Earned, Grown
<1>7. Docs' = Docs /\ Sent' = Sent /\ Reads' = Reads
  BY <1>2, <1>3 DEF Docs, Sent, Reads
<1> QED BY <1>2, <1>5, <1>6, <1>7, ClaimsStay

LEMMA StepClaims == ClaimsInv /\ [Next]_vars => ClaimsInv'
<1> SUFFICES ASSUME ClaimsInv, [Next]_vars PROVE ClaimsInv'
  OBVIOUS
<1>1. TypeInv /\ TypeOK
  BY DEF ClaimsInv, TypeInv
<1>2. TypeInv'
  BY <1>1, StepTypes
<1>3. CASE UNCHANGED vars
  <2>1. UNCHANGED <<doc, undo, redo, saves, reads, versions, origins, stamped>>
    BY <1>3 DEF vars, browser, server, history
  <2>2. Docs' = Docs
    BY <2>1 DEF Docs
  <2> QED BY <1>2, <2>1, <2>2, QuietClaims
<1>4. CASE Edit \/ Undo \/ Redo
  <2>1. Docs' \subseteq Docs
    BY <1>1, <1>4, Shuffled
  <2>2. UNCHANGED <<saves, reads, versions, origins, stamped>>
    BY <1>4 DEF Edit, Undo, Redo, server
  <2> QED BY <1>2, <2>1, <2>2, QuietClaims
<1>5. CASE Leave \/ HostEchoes \/ \E p \in Ids : LeaseExpires(p)
  <2>1. UNCHANGED <<doc, undo, redo, saves, reads, versions, origins, stamped>>
    BY <1>5 DEF Leave, HostEchoes, LeaseExpires, browser, server, history
  <2>2. Docs' = Docs
    BY <2>1 DEF Docs
  <2> QED BY <1>2, <2>1, <2>2, QuietClaims
<1>6. CASE PersonNext
  BY <1>4, <1>5, <1>6, ByHandClaims, CopyClaims, LoadClaims DEF PersonNext
<1>7. CASE BrowserNext
  BY <1>7, AnswerClaims DEF BrowserNext
<1>8. CASE ServerNext
  BY <1>8, ServerClaims DEF ServerNext
<1> QED BY <1>3, <1>5, <1>6, <1>7, <1>8, TimerClaims, LoadedClaims, ServerClaims,
           OthersClaims DEF Next

LEMMA InitClaims == Init => ClaimsInv
<1> SUFFICES ASSUME Init PROVE ClaimsInv
  OBVIOUS
<1>1. TypeInv /\ TypeOK
  BY InitTypes DEF TypeInv
<1>2. /\ DOMAIN undo = {} /\ DOMAIN redo = {} /\ DOMAIN saves = {} /\ DOMAIN reads = {}
  BY EmptySeq DEF Init
<1>3. Docs = {doc} /\ Sent = {} /\ Reads = {}
  BY <1>2 DEF Docs, Sent, Reads
<1>4. versions = [p \in Ids |-> IF p \in Shared THEN <<Others>> ELSE <<>>]
  BY DEF Init
<1>5. \A p \in Ids : \A n \in DOMAIN versions[p] : n = 1 /\ versions[p][n] = Others
  <2>1. /\ <<Others>>[1] = Others /\ DOMAIN <<Others>> = {1}
        /\ DOMAIN <<>> = {}
    BY Single, EmptySeq
  <2> QED BY <1>4, <2>1
<1>6. Based(doc)
  <2>1. /\ doc.origin = 1 /\ origins[1].project = doc.id /\ origins[1].at = doc.revision
    BY DEF Init
  <2>2. CASE doc.id = None
    <3>1. doc.revision = 0
      BY <2>2, EditorAssumption DEF Init, Ids
    <3> QED BY <2>1, <2>2, <3>1 DEF Based
  <2>3. CASE doc.id # None
    <3>1. doc.id \in Shared /\ doc.revision = 1
      BY <2>3 DEF Init
    <3>2. Len(versions[doc.id]) = 1
      BY <1>4, <3>1, Single DEF Ids
    <3>3. Own(doc.id, 1, 1)
      BY <2>1, <3>1 DEF Own
    <3> QED BY <2>1, <2>3, <3>1, <3>2, <3>3 DEF Based
  <2> QED BY <2>2, <2>3
<1>7. NothingOverwritten
  BY <1>5 DEF NothingOverwritten
<1> QED BY <1>1, <1>3, <1>6, <1>7 DEF ClaimsInv, DocsInv, SavesInv, ReadsInv

\* A revision that this editor saves replaces only work that its document
\* contains, for any number of edits, undos, loads, saves and answers in any order:
\* _prepare_candidate and apply refuse a candidate that does not name the head.
\* Exempt is each document that got the identity or revision of a save of another
\* one: by a manual answer after a load or copy, by an autosave's answer after a load
\* of the same project, or when saved by hand after an undo across a load.
THEOREM OverwritesNothing == Spec => []NothingOverwritten
<1>1. ClaimsInv => NothingOverwritten
  BY DEF ClaimsInv
<1> QED BY <1>1, InitClaims, StepClaims, PTL DEF Spec

\* No document on display or on the undo and redo stacks claims a revision that
\* its project has not reached: the stamps of _autoSave and saveProject.
THEOREM ClaimsAreReached == Spec => []NeverAhead
<1>1. ClaimsInv => NeverAhead
  <2> SUFFICES ASSUME ClaimsInv, NEW d \in {doc} \cup Range(undo) \cup Range(redo),
                      d.id # None
               PROVE  d.revision <= Len(versions[d.id])
    BY DEF NeverAhead
  <2>1. d \in Docs
    BY DEF Docs, Range
  <2> QED BY <2>1 DEF ClaimsInv, DocsInv, Based
<1> QED BY <1>1, InitClaims, StepClaims, PTL DEF Spec
=============================================================================
