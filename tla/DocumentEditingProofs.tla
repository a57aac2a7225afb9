----------------------- MODULE DocumentEditingProofs -----------------------
(***************************************************************************)
(* Proofs about the saving and merging of a document, for any number of    *)
(* editors, fields, edits, attempts and faults: every safety property of   *)
(* DocumentEditing.tla.                                                    *)
(*                                                                         *)
(* EInv says which versions an editor may name (KnowsVersions), and that   *)
(* two neighbours in an undo history differ only where one of them shows   *)
(* an edit of that editor's own user (OwnHistory).  HInv adds where values *)
(* come from: every value lies on one line of edits (Lined), and a model,  *)
(* a save or a copy drops nothing from the line of the version it goes     *)
(* back to but its own user's edits (Owns, SoundCopy), until a copy is     *)
(* restored over a version that arrived first.                             *)
(***************************************************************************)
EXTENDS DocumentEditing, SequenceTheorems, TLAPS

\* Whether value v is an edit of e, as of the edits es.
OwnEdit(e, v, es) == v \in 1..Len(es) /\ es[v].by = e

\* Between documents c and d only edits of e have come or gone.
Near(e, c, d, es) ==
    \A f \in Fields : c[f] = d[f] \/ OwnEdit(e, c[f], es) \/ OwnEdit(e, d[f], es)

\* A history that leads to the document d.
LeadsTo(e, s, d, es) == \A i \in 1..Len(s) : Near(e, s[i], IF i = Len(s) THEN d ELSE s[i + 1], es)

\* What an editor E says of the n versions there are.
KnowsVersions(E, n) ==
    /\ E.phase # "closed" => E.latest \in 1..n
    /\ E.phase = "restoring" => E.xml \in 1..n
    /\ E.load <= n /\ E.remote <= n
    /\ E.save.step = "stored" => E.save.at \in 1..n

\* An editor that is not ready has nothing to undo or to save; a save has attempts left.
Orderly(E) ==
    /\ E.phase # "ready" => E.save.step = "idle" /\ E.past = <<>> /\ E.future = <<>>
    /\ E.save.tries < MaxTries

OwnHistory(e, E, es) == LeadsTo(e, E.past, E.model, es) /\ LeadsTo(e, E.future, E.model, es)

\* Editor E, of e, is as it should be with n versions and the edits es.
Fine(e, E, n, es) == E \in Editor /\ KnowsVersions(E, n) /\ Orderly(E) /\ OwnHistory(e, E, es)

Entry == [by : Editors, under : Values]

Copies == [base : Docs, source : Docs] \cup {NoCopy}

EInv ==
    /\ versions \in Seq(Docs) /\ Len(versions) >= 1
    /\ by \in Editors
    /\ DOMAIN ed = Editors /\ ed = [e \in Editors |-> ed[e]]
    /\ \A e \in Editors : Fine(e, ed[e], Len(versions), edits)
    /\ copy \in [Editors -> Copies]
    /\ edits \in Seq(Entry)
    /\ rare \in [Editors -> Nat] /\ \A e \in Editors : rare[e] <= MaxRare[e]
    /\ raced \in BOOLEAN

LEMMA EInvTypes == EInv => EditingTypeOK
<1> SUFFICES ASSUME EInv PROVE EditingTypeOK
  OBVIOUS
<1>1. ed \in [Editors -> Editor]
  BY DEF EInv, Fine
<1>2. copy \in [Editors -> [base : Docs, source : Docs] \cup {NoCopy}]
  BY DEF EInv, Copies
<1>3. edits \in Seq([by : Editors, under : Values])
  BY DEF EInv, Entry
<1>4. \A e \in Editors : rare[e] \in 0..MaxRare[e]
  BY EditingAssumption DEF EInv
<1> QED
  BY <1>1, <1>2, <1>3, <1>4 DEF EInv, EditingTypeOK

-----------------------------------------------------------------------------
(* Documents and histories                                                 *)

LEMMA FreshIsADoc == Fresh \in Docs
  BY EditingAssumption DEF Fresh, Docs, Values

\* A merge of documents is a document or a conflict.
LEMMA MergeTypes ==
    ASSUME NEW base \in Docs, NEW local \in Docs, NEW remote \in Docs
    PROVE  Merge(base, local, remote) \in Docs \/ Merge(base, local, remote) = Conflict
  BY DEF Merge, Docs

LEMMA NearIsSymmetric ==
    ASSUME NEW e, NEW c, NEW d, NEW es, Near(e, c, d, es)
    PROVE  Near(e, d, c, es)
  BY DEF Near

LEMMA EmptyLeads == ASSUME NEW e, NEW d, NEW es PROVE LeadsTo(e, <<>>, d, es)
  BY DEF LeadsTo

\* A step away from d keeps the history of d, with d at its end.
LEMMA AppendLeads ==
    ASSUME NEW e, NEW es, NEW s \in Seq(Docs), NEW c \in Docs, NEW d \in Docs,
           LeadsTo(e, s, c, es), Near(e, c, d, es)
    PROVE  Append(s, c) \in Seq(Docs) /\ LeadsTo(e, Append(s, c), d, es)
<1>1. Append(s, c) \in Seq(Docs) /\ Len(Append(s, c)) = Len(s) + 1
  OBVIOUS
<1>2. ASSUME NEW i \in 1..Len(Append(s, c))
      PROVE  Near(e, Append(s, c)[i], IF i = Len(Append(s, c)) THEN d ELSE Append(s, c)[i + 1], es)
  <2>1. CASE i = Len(s) + 1
    BY <1>1, <2>1
  <2>2. CASE i = Len(s)
    <3>1. Append(s, c)[i] = s[i] /\ Append(s, c)[i + 1] = c /\ i \in 1..Len(s)
      BY <1>1, <1>2, <2>2
    <3>2. Near(e, s[i], c, es)
      BY <3>1, <2>2 DEF LeadsTo
    <3> QED
      BY <3>1, <3>2, <1>1, <2>2
  <2>3. CASE i < Len(s)
    <3>1. Append(s, c)[i] = s[i] /\ Append(s, c)[i + 1] = s[i + 1] /\ i \in 1..Len(s)
      BY <1>1, <1>2, <2>3
    <3>2. Near(e, s[i], s[i + 1], es)
      BY <3>1, <2>3 DEF LeadsTo
    <3> QED
      BY <3>1, <3>2, <1>1, <2>3
  <2> QED
    BY <1>1, <1>2, <2>1, <2>2, <2>3
<1> QED
  BY <1>1, <1>2 DEF LeadsTo

LEMMA FrontAndLast ==
    ASSUME NEW s \in Seq(Docs), s # <<>>
    PROVE  /\ Len(s) \in 1..Len(s) /\ Last(s) = s[Len(s)] /\ Last(s) \in Docs
           /\ Front(s) \in Seq(Docs) /\ Len(Front(s)) = Len(s) - 1
           /\ \A i \in 1..(Len(s) - 1) : Front(s)[i] = s[i]
<1>1. Len(s) \in Nat \ {0}
  BY EmptySeq
<1>2. Front(s) \in Seq(Docs) /\ Len(Front(s)) = Len(s) - 1
  <2> DEFINE n == Len(s) - 1
  <2>1. n \in Int /\ 1 \in Int /\ (IF 1 <= n THEN n - 1 + 1 ELSE 0) = n
    <3>1. n \in Nat
      BY <1>1
    <3> HIDE DEF n
    <3> QED
      BY <3>1
  <2>2. \A i \in 1..n : s[i] \in Docs
    BY <1>1, ElementOfSeq
  <2>3. SubSeq(s, 1, n) \in Seq(Docs) /\ Len(SubSeq(s, 1, n)) = IF 1 <= n THEN n - 1 + 1 ELSE 0
    <3> HIDE DEF n
    <3> QED
      BY <2>1, <2>2, SubSeqProperties DEF n
  <2> QED
    BY <2>1, <2>3 DEF Front
<1>3. Len(s) \in 1..Len(s) /\ Last(s) = s[Len(s)] /\ Last(s) \in Docs
  BY <1>1, ElementOfSeq DEF Last
<1>4. \A i \in 1..(Len(s) - 1) : Front(s)[i] = s[i]
  BY <1>1 DEF Front
<1> QED
  BY <1>2, <1>3, <1>4

\* The step back along a history.
LEMMA FrontLeads ==
    ASSUME NEW e, NEW es, NEW s \in Seq(Docs), NEW d \in Docs, LeadsTo(e, s, d, es), s # <<>>
    PROVE  /\ Front(s) \in Seq(Docs) /\ Last(s) \in Docs
           /\ LeadsTo(e, Front(s), Last(s), es) /\ Near(e, Last(s), d, es)
<1>1. /\ Len(s) \in 1..Len(s) /\ Front(s) \in Seq(Docs) /\ Len(Front(s)) = Len(s) - 1
      /\ Last(s) = s[Len(s)] /\ Last(s) \in Docs
  BY FrontAndLast
<1>2. \A i \in 1..(Len(s) - 1) : Front(s)[i] = s[i]
  BY FrontAndLast
<1>3. Near(e, Last(s), d, es)
  BY <1>1 DEF LeadsTo
<1>4. ASSUME NEW i \in 1..Len(Front(s))
      PROVE  Near(e, Front(s)[i], IF i = Len(Front(s)) THEN Last(s) ELSE Front(s)[i + 1], es)
  <2>1. i \in 1..Len(s) /\ i # Len(s) /\ Near(e, s[i], s[i + 1], es)
    BY <1>1, <1>4 DEF LeadsTo
  <2>2. Front(s)[i] = s[i]
    BY <1>1, <1>2, <1>4
  <2>3. (IF i = Len(Front(s)) THEN Last(s) ELSE Front(s)[i + 1]) = s[i + 1]
    BY <1>1, <1>2, <1>4
  <2> QED
    BY <2>1, <2>2, <2>3
<1> QED
  BY <1>1, <1>3, <1>4 DEF LeadsTo

\* New edits take nothing from a history.
LEMMA MoreEdits ==
    ASSUME NEW e, NEW es \in Seq(Entry), NEW x \in Entry, NEW E, OwnHistory(e, E, es)
    PROVE  OwnHistory(e, E, Append(es, x))
<1>1. ASSUME NEW v, OwnEdit(e, v, es) PROVE OwnEdit(e, v, Append(es, x))
  BY <1>1 DEF OwnEdit
<1>2. ASSUME NEW c, NEW d, Near(e, c, d, es) PROVE Near(e, c, d, Append(es, x))
  BY <1>1, <1>2 DEF Near
<1> QED
  BY <1>2 DEF OwnHistory, LeadsTo
-----------------------------------------------------------------------------
(* Editors                                                                 *)

LEMMA NoSaveIsASave == NoSave \in Save
  BY EditingAssumption, FreshIsADoc DEF NoSave, Save

\* More versions do no harm.
LEMMA MoreVersions ==
    ASSUME NEW E \in Editor, NEW n \in Nat, NEW m \in Nat, n <= m, KnowsVersions(E, n)
    PROVE  KnowsVersions(E, m)
  BY DEF KnowsVersions, Editor, Save

\* A save that is under way belongs to an editor that is ready.
LEMMA FineSave ==
    ASSUME NEW e, NEW E, NEW n \in Nat, NEW es, Fine(e, E, n, es),
           NEW s \in Save, s.tries < MaxTries, s.step = "stored" => s.at \in 1..n,
           E.phase = "ready" \/ s.step = "idle"
    PROVE  Fine(e, [E EXCEPT !.save = s], n, es)
<1> DEFINE F == [E EXCEPT !.save = s]
<1>1. F \in Editor
  BY DEF Fine, Editor
<1>2. /\ F.phase = E.phase /\ F.xml = E.xml /\ F.model = E.model /\ F.latest = E.latest
      /\ F.load = E.load /\ F.remote = E.remote /\ F.past = E.past /\ F.future = E.future
      /\ F.save = s
  BY DEF Fine, Editor
<1>3. KnowsVersions(F, n) /\ Orderly(F) /\ OwnHistory(e, F, es)
  BY <1>2 DEF Fine, KnowsVersions, Orderly, OwnHistory
<1> QED
  BY <1>1, <1>3 DEF Fine

LEMMA FineNoSave ==
    ASSUME NEW e, NEW E, NEW n \in Nat, NEW es, Fine(e, E, n, es)
    PROVE  Fine(e, [E EXCEPT !.save = NoSave], n, es)
<1>1. NoSave.tries < MaxTries /\ NoSave.step = "idle"
  BY EditingAssumption DEF NoSave
<1> QED
  BY <1>1, NoSaveIsASave, FineSave

LEMMA FineClosed == ASSUME NEW e, NEW n \in Nat, NEW es PROVE Fine(e, Closed, n, es)
<1>1. Closed \in Editor
  BY FreshIsADoc, NoSaveIsASave, EmptySeq DEF Closed, Editor
<1>2. KnowsVersions(Closed, n) /\ Orderly(Closed)
  BY EditingAssumption DEF KnowsVersions, Orderly, Closed, NoSave
<1>3. OwnHistory(e, Closed, es)
  BY EmptyLeads DEF OwnHistory, Closed
<1> QED
  BY <1>1, <1>2, <1>3 DEF Fine

\* A document taken over with the histories emptied.
LEMMA FineTaken ==
    ASSUME NEW e, NEW E, NEW n \in Nat, NEW es, Fine(e, E, n, es), NEW d \in Docs, NEW c \in Docs
    PROVE  Fine(e, [E EXCEPT !.saved = c, !.model = d, !.past = <<>>, !.future = <<>>], n, es)
<1> DEFINE F == [E EXCEPT !.saved = c, !.model = d, !.past = <<>>, !.future = <<>>]
<1>1. F \in Editor
  BY EmptySeq DEF Fine, Editor
<1>2. /\ F.phase = E.phase /\ F.xml = E.xml /\ F.model = d /\ F.latest = E.latest
      /\ F.load = E.load /\ F.remote = E.remote /\ F.past = <<>> /\ F.future = <<>>
      /\ F.save = E.save
  BY DEF Fine, Editor
<1>3. KnowsVersions(F, n) /\ Orderly(F)
  BY <1>2 DEF Fine, KnowsVersions, Orderly
<1>4. OwnHistory(e, F, es)
  BY <1>2, EmptyLeads DEF OwnHistory
<1> QED
  BY <1>1, <1>3, <1>4 DEF Fine

LEMMA FineSaved ==
    ASSUME NEW e, NEW E, NEW n \in Nat, NEW es, Fine(e, E, n, es), NEW c \in Docs
    PROVE  Fine(e, [E EXCEPT !.saved = c], n, es)
<1> DEFINE F == [E EXCEPT !.saved = c]
<1>1. F \in Editor
  BY DEF Fine, Editor
<1>2. /\ F.phase = E.phase /\ F.xml = E.xml /\ F.model = E.model /\ F.latest = E.latest
      /\ F.load = E.load /\ F.remote = E.remote /\ F.past = E.past /\ F.future = E.future
      /\ F.save = E.save
  BY DEF Fine, Editor
<1>3. KnowsVersions(F, n) /\ Orderly(F) /\ OwnHistory(e, F, es)
  BY <1>2 DEF Fine, KnowsVersions, Orderly, OwnHistory
<1> QED
  BY <1>1, <1>3 DEF Fine

LEMMA FineTurn ==
    ASSUME NEW e, NEW E, NEW n \in Nat, NEW es, Fine(e, E, n, es), E.phase = "ready"
    PROVE  Fine(e, Turn(E), n, es)
<1> DEFINE s == [NoSave EXCEPT !.step = "validating", !.source = E.model, !.base = E.saved]
<1>1. E.model \in Docs /\ E.saved \in Docs
  BY DEF Fine, Editor
<1>2. s \in Save
  BY <1>1, NoSaveIsASave DEF Save
<1>3. s.tries < MaxTries /\ s.step = "validating"
  BY EditingAssumption DEF NoSave
<1>4. Turn(E) = [E EXCEPT !.save = s]
  BY DEF Turn
<1> HIDE DEF s
<1> QED
  BY <1>2, <1>3, <1>4, FineSave

-----------------------------------------------------------------------------
(* One editor's step                                                       *)

LEMMA RareStays ==
    ASSUME EInv, NEW e \in Editors, Rare(e)
    PROVE  rare' \in [Editors -> Nat] /\ \A x \in Editors : rare'[x] <= MaxRare[x]
<1>1. rare \in [Editors -> Nat] /\ rare' = [rare EXCEPT ![e] = rare[e] + 1]
  BY DEF EInv, Rare
<1>2. rare[e] + 1 <= MaxRare[e]
  <2>1. rare[e] \in Nat /\ MaxRare[e] \in Nat
    BY <1>1, EditingAssumption
  <2>2. rare[e] < MaxRare[e]
    BY DEF Rare
  <2> QED
    BY <2>1, <2>2
<1>3. rare' \in [Editors -> Nat]
  BY <1>1
<1>4. ASSUME NEW x \in Editors PROVE rare'[x] <= MaxRare[x]
  BY <1>1, <1>2 DEF EInv
<1> QED
  BY <1>3, <1>4

\* A step of e that leaves the versions and the edits alone.
LEMMA QuietStep ==
    ASSUME EInv, NEW e \in Editors, NEW E, ed' = [ed EXCEPT ![e] = E],
           Fine(e, E, Len(versions), edits),
           UNCHANGED <<versions, by, edits>>, copy' \in [Editors -> Copies],
           UNCHANGED rare \/ Rare(e), raced' \in BOOLEAN
    PROVE  EInv'
<1>1. DOMAIN ed' = Editors /\ ed' = [x \in Editors |-> ed'[x]]
  BY DEF EInv
<1>2. \A x \in Editors : Fine(x, ed'[x], Len(versions'), edits')
  BY DEF EInv
<1>3. rare' \in [Editors -> Nat] /\ \A x \in Editors : rare'[x] <= MaxRare[x]
  <2>1. CASE UNCHANGED rare
    BY <2>1 DEF EInv
  <2>2. CASE Rare(e)
    BY <2>2, RareStays
  <2> QED
    BY <2>1, <2>2
<1> QED
  BY <1>1, <1>2, <1>3 DEF EInv

LEMMA EditorIsFine == ASSUME EInv, NEW e \in Editors
                      PROVE  /\ Fine(e, ed[e], Len(versions), edits) /\ ed[e] \in Editor
                             /\ Len(versions) \in Nat /\ versions[Len(versions)] \in Docs
                             /\ Server \in Docs
<1>1. Fine(e, ed[e], Len(versions), edits) /\ ed[e] \in Editor
  BY DEF EInv, Fine
<1>2. Len(versions) \in 1..Len(versions)
  BY DEF EInv
<1>3. versions[Len(versions)] \in Docs
  BY <1>2, ElementOfSeq DEF EInv
<1> QED
  BY <1>1, <1>2, <1>3 DEF Server, Last

\* Copies that are put in place are copies.
LEMMA CopyIsKept == ASSUME EInv, NEW e \in Editors, NEW b \in Docs, NEW s \in Docs,
                           copy' = [copy EXCEPT ![e] = [base |-> b, source |-> s]]
                    PROVE  copy' \in [Editors -> Copies]
  BY DEF EInv, Copies

LEMMA CopyIsDropped == ASSUME EInv, NEW e \in Editors, copy' = [copy EXCEPT ![e] = NoCopy]
                       PROVE  copy' \in [Editors -> Copies]
  BY DEF EInv, Copies

LEMMA OpenKeeps == ASSUME EInv, NEW e \in Editors, OpenDialog(e) PROVE EInv'
<1> DEFINE v == Len(versions)
           E == [Closed EXCEPT !.phase = "restoring", !.xml = v, !.model = Server,
                               !.saved = Server, !.latest = v, !.snapshot = v]
<1>1. v \in Nat /\ v >= 1 /\ Server \in Docs
  BY EditorIsFine DEF EInv
<1>2. Fine(e, Closed, v, edits)
  BY <1>1, FineClosed
<1>3. E \in Editor
  BY <1>1, <1>2 DEF Fine, Editor
<1>4. /\ E.phase = "restoring" /\ E.xml = v /\ E.latest = v /\ E.load = 0 /\ E.remote = 0
      /\ E.past = <<>> /\ E.future = <<>> /\ E.save = NoSave
  BY DEF Closed
<1>5. KnowsVersions(E, v)
  BY <1>1, <1>4 DEF KnowsVersions, NoSave
<1>6. Orderly(E)
  BY <1>4, EditingAssumption DEF Orderly, NoSave
<1>7. OwnHistory(e, E, edits)
  BY <1>4, EmptyLeads DEF OwnHistory
<1>8. Fine(e, E, v, edits)
  BY <1>3, <1>5, <1>6, <1>7 DEF Fine
<1>9. ed' = [ed EXCEPT ![e] = E] /\ UNCHANGED <<versions, by, copy, edits, rare, raced>>
  BY DEF OpenDialog
<1> HIDE DEF E
<1> QED
  BY <1>8, <1>9, QuietStep DEF EInv

LEMMA CloseKeeps == ASSUME EInv, NEW e \in Editors, Close(e) \/ Crash(e) PROVE EInv'
<1>1. Fine(e, Closed, Len(versions), edits)
  BY EditorIsFine, FineClosed
<1>2. ed' = [ed EXCEPT ![e] = Closed] /\ UNCHANGED <<versions, by, copy, edits, raced>> /\ Rare(e)
  BY DEF Close, Crash
<1> QED
  BY <1>1, <1>2, QuietStep DEF EInv

LEMMA RestoreKeeps == ASSUME EInv, NEW e \in Editors, Restore(e) PROVE EInv'
<1> DEFINE m == RestoredModel(e)
           E == [ed[e] EXCEPT !.phase = "ready", !.xml = 0, !.model = m]
<1>1. /\ Fine(e, ed[e], Len(versions), edits) /\ ed[e] \in Editor /\ Len(versions) \in Nat
      /\ ed[e].phase = "restoring"
  BY EditorIsFine DEF Restore
<1>2. ed[e].model \in Docs /\ ed[e].xml \in 1..Len(versions)
  BY <1>1 DEF Fine, KnowsVersions, Editor
<1>3. versions[ed[e].xml] \in Docs
  BY <1>2, ElementOfSeq DEF EInv
<1>4. m \in Docs
  <2>1. CASE copy[e] = NoCopy
    BY <1>2, <1>3, <2>1 DEF RestoredModel
  <2>2. CASE copy[e] # NoCopy
    <3>1. copy[e].base \in Docs /\ copy[e].source \in Docs
      BY <2>2 DEF EInv, Copies
    <3>2. Merge(copy[e].base, copy[e].source, versions[ed[e].xml]) \in Docs \cup {Conflict}
      BY <3>1, <1>3, MergeTypes
    <3> QED
      BY <1>2, <2>2, <3>2 DEF RestoredModel
  <2> QED
    BY <2>1, <2>2
<1> HIDE DEF m
<1>5. E \in Editor
  BY <1>1, <1>4 DEF Editor
<1>6. /\ E.phase = "ready" /\ E.latest = ed[e].latest /\ E.load = ed[e].load
      /\ E.remote = ed[e].remote /\ E.past = <<>> /\ E.future = <<>> /\ E.save = ed[e].save
  BY <1>1 DEF Fine, Orderly, Editor
<1>7. KnowsVersions(E, Len(versions)) /\ Orderly(E)
  BY <1>1, <1>6 DEF Fine, KnowsVersions, Orderly
<1>8. OwnHistory(e, E, edits)
  BY <1>6, EmptyLeads DEF OwnHistory
<1>9. Fine(e, E, Len(versions), edits)
  BY <1>5, <1>7, <1>8 DEF Fine
<1>10. ed' = [ed EXCEPT ![e] = E] /\ UNCHANGED <<versions, by, copy, edits, rare>>
  BY DEF Restore, m
<1>11. raced' \in BOOLEAN
  BY DEF Restore, EInv
<1> HIDE DEF E
<1> QED
  BY <1>9, <1>10, <1>11, QuietStep DEF EInv

\* An edit is a step of e: the field that changes shows an edit of e afterwards.
LEMMA EditKeeps == ASSUME EInv, NEW e \in Editors, NEW f \in Fields, Edit(e, f) PROVE EInv'
<1> DEFINE x == [by |-> e, under |-> ed[e].model[f]]
           n == Len(edits) + 1
           d == [ed[e].model EXCEPT ![f] = n]
           E == [ed[e] EXCEPT !.model = d, !.past = Append(ed[e].past, ed[e].model), !.future = <<>>]
<1>1. /\ Fine(e, ed[e], Len(versions), edits) /\ ed[e] \in Editor /\ Len(versions) \in Nat
      /\ ed[e].phase = "ready" /\ edits \in Seq(Entry) /\ Len(edits) < MaxEdits
  BY EditorIsFine DEF Edit, EInv
<1>2. ed[e].model \in Docs /\ ed[e].past \in Seq(Docs) /\ LeadsTo(e, ed[e].past, ed[e].model, edits)
  BY <1>1 DEF Fine, Editor, OwnHistory
<1>3. x \in Entry /\ edits' = Append(edits, x)
  BY <1>2 DEF Edit, Entry, Docs
<1>4. edits' \in Seq(Entry) /\ Len(edits') = n /\ edits'[n] = x /\ n \in Values
  BY <1>1, <1>3, EditingAssumption DEF Values
<1>5. d \in Docs
  BY <1>2, <1>4 DEF Docs
<1>6. OwnEdit(e, n, edits')
  BY <1>1, <1>4 DEF OwnEdit
<1>7. Near(e, ed[e].model, d, edits')
  BY <1>2, <1>6 DEF Near, Docs
<1>8. \A y \in Editors : OwnHistory(y, ed[y], edits')
  BY <1>1, <1>3, MoreEdits DEF EInv, Fine
<1>9. Append(ed[e].past, ed[e].model) \in Seq(Docs) /\ LeadsTo(e, Append(ed[e].past, ed[e].model), d, edits')
  BY <1>2, <1>5, <1>7, <1>8, AppendLeads DEF OwnHistory
<1> HIDE DEF d, x
<1>10. E \in Editor
  BY <1>1, <1>5, <1>9, EmptySeq DEF Editor
<1>11. /\ E.phase = "ready" /\ E.xml = ed[e].xml /\ E.model = d /\ E.latest = ed[e].latest
       /\ E.load = ed[e].load /\ E.remote = ed[e].remote /\ E.future = <<>> /\ E.save = ed[e].save
       /\ E.past = Append(ed[e].past, ed[e].model)
  BY <1>1 DEF Editor
<1>12. KnowsVersions(E, Len(versions)) /\ Orderly(E)
  BY <1>1, <1>11 DEF Fine, KnowsVersions, Orderly
<1>13. OwnHistory(e, E, edits')
  BY <1>9, <1>11, EmptyLeads DEF OwnHistory
<1>14. Fine(e, E, Len(versions), edits')
  BY <1>10, <1>12, <1>13 DEF Fine
<1>15. ed' = [ed EXCEPT ![e] = E] /\ UNCHANGED <<versions, by, copy, rare, raced>>
  BY DEF Edit, d
<1> HIDE DEF E
<1>16. DOMAIN ed' = Editors /\ ed' = [y \in Editors |-> ed'[y]]
  BY <1>15 DEF EInv
<1>17. \A y \in Editors : Fine(y, ed[y], Len(versions), edits')
  BY <1>8 DEF EInv, Fine
<1>18. \A y \in Editors : Fine(y, ed'[y], Len(versions'), edits')
  BY <1>14, <1>15, <1>17 DEF EInv
<1> QED
  BY <1>4, <1>15, <1>16, <1>18 DEF EInv

\* Undo and redo walk along one history and leave the other leading back.
LEMMA WalkIsFine ==
    ASSUME NEW e, NEW E, NEW n \in Nat, NEW es, Fine(e, E, n, es), E.phase = "ready"
    PROVE  /\ E.past # <<>> =>
                /\ Fine(e, [E EXCEPT !.past = Front(E.past), !.future = Append(E.future, E.model),
                                     !.model = Last(E.past)], n, es)
                /\ Near(e, Last(E.past), E.model, es)
           /\ E.future # <<>> =>
                /\ Fine(e, [E EXCEPT !.future = Front(E.future), !.past = Append(E.past, E.model),
                                     !.model = Last(E.future)], n, es)
                /\ Near(e, Last(E.future), E.model, es)
<1>1. /\ E \in Editor /\ E.past \in Seq(Docs) /\ E.future \in Seq(Docs) /\ E.model \in Docs
      /\ LeadsTo(e, E.past, E.model, es) /\ LeadsTo(e, E.future, E.model, es)
  BY DEF Fine, Editor, OwnHistory
<1>2. ASSUME E.past # <<>>
      PROVE  /\ Fine(e, [E EXCEPT !.past = Front(E.past), !.future = Append(E.future, E.model),
                                  !.model = Last(E.past)], n, es)
             /\ Near(e, Last(E.past), E.model, es)
  <2> DEFINE p == Front(E.past)
             d == Last(E.past)
             q == Append(E.future, E.model)
             F == [E EXCEPT !.past = p, !.future = q, !.model = d]
  <2>1. p \in Seq(Docs) /\ d \in Docs /\ LeadsTo(e, p, d, es) /\ Near(e, d, E.model, es)
    BY <1>1, <1>2, FrontLeads
  <2>2. q \in Seq(Docs) /\ LeadsTo(e, q, d, es)
    BY <1>1, <2>1, NearIsSymmetric, AppendLeads
  <2> HIDE DEF p, d, q
  <2>3. F \in Editor
    BY <1>1, <2>1, <2>2 DEF Editor
  <2>4. /\ F.phase = E.phase /\ F.xml = E.xml /\ F.model = d /\ F.latest = E.latest
        /\ F.load = E.load /\ F.remote = E.remote /\ F.past = p /\ F.future = q
        /\ F.save = E.save
    BY <1>1 DEF Editor
  <2>5. KnowsVersions(F, n) /\ Orderly(F) /\ OwnHistory(e, F, es)
    BY <2>1, <2>2, <2>4 DEF Fine, KnowsVersions, Orderly, OwnHistory
  <2>6. Fine(e, F, n, es)
    BY <2>3, <2>5 DEF Fine
  <2> QED
    BY <2>1, <2>6 DEF p, d, q
<1>3. ASSUME E.future # <<>>
      PROVE  /\ Fine(e, [E EXCEPT !.future = Front(E.future), !.past = Append(E.past, E.model),
                                  !.model = Last(E.future)], n, es)
             /\ Near(e, Last(E.future), E.model, es)
  <2> DEFINE q == Front(E.future)
             d == Last(E.future)
             p == Append(E.past, E.model)
             F == [E EXCEPT !.future = q, !.past = p, !.model = d]
  <2>1. q \in Seq(Docs) /\ d \in Docs /\ LeadsTo(e, q, d, es) /\ Near(e, d, E.model, es)
    BY <1>1, <1>3, FrontLeads
  <2>2. p \in Seq(Docs) /\ LeadsTo(e, p, d, es)
    BY <1>1, <2>1, NearIsSymmetric, AppendLeads
  <2> HIDE DEF p, d, q
  <2>3. F \in Editor
    BY <1>1, <2>1, <2>2 DEF Editor
  <2>4. /\ F.phase = E.phase /\ F.xml = E.xml /\ F.model = d /\ F.latest = E.latest
        /\ F.load = E.load /\ F.remote = E.remote /\ F.past = p /\ F.future = q
        /\ F.save = E.save
    BY <1>1 DEF Editor
  <2>5. KnowsVersions(F, n) /\ Orderly(F) /\ OwnHistory(e, F, es)
    BY <2>1, <2>2, <2>4 DEF Fine, KnowsVersions, Orderly, OwnHistory
  <2>6. Fine(e, F, n, es)
    BY <2>3, <2>5 DEF Fine
  <2> QED
    BY <2>1, <2>6 DEF p, d, q
<1> QED
  BY <1>2, <1>3

LEMMA WalkKeeps == ASSUME EInv, NEW e \in Editors, Undo(e) \/ Redo(e) PROVE EInv'
<1>1. Fine(e, ed[e], Len(versions), edits) /\ ed[e] \in Editor /\ Len(versions) \in Nat
  BY EditorIsFine
<1>2. ed[e].phase = "ready"
  BY <1>1 DEF Fine, Orderly, Undo, Redo
<1>3. CASE Undo(e)
  <2> DEFINE E == [ed[e] EXCEPT !.past = Front(ed[e].past), !.future = Append(ed[e].future, ed[e].model),
                                !.model = Last(ed[e].past)]
  <2>1. Fine(e, E, Len(versions), edits)
    BY <1>1, <1>2, <1>3, WalkIsFine DEF Undo
  <2>2. ed' = [ed EXCEPT ![e] = E] /\ UNCHANGED <<versions, by, copy, edits, raced>> /\ Rare(e)
    BY <1>3 DEF Undo
  <2> HIDE DEF E
  <2> QED
    BY <2>1, <2>2, QuietStep DEF EInv
<1>4. CASE Redo(e)
  <2> DEFINE E == [ed[e] EXCEPT !.future = Front(ed[e].future), !.past = Append(ed[e].past, ed[e].model),
                                !.model = Last(ed[e].future)]
  <2>1. Fine(e, E, Len(versions), edits)
    BY <1>1, <1>2, <1>4, WalkIsFine DEF Redo
  <2>2. ed' = [ed EXCEPT ![e] = E] /\ UNCHANGED <<versions, by, copy, edits, rare, raced>>
    BY <1>4 DEF Redo
  <2> HIDE DEF E
  <2> QED
    BY <2>1, <2>2, QuietStep DEF EInv
<1> QED
  BY <1>3, <1>4

LEMMA KeepCopyKeeps == ASSUME EInv, NEW e \in Editors, KeepCopy(e) PROVE EInv'
<1>1. ed[e].saved \in Docs /\ ed[e].model \in Docs
  BY EditorIsFine DEF Editor
<1>2. copy' \in [Editors -> Copies]
  BY <1>1, CopyIsKept DEF KeepCopy
<1>3. ed' = [ed EXCEPT ![e] = ed[e]] /\ Fine(e, ed[e], Len(versions), edits)
  BY EditorIsFine DEF KeepCopy, EInv
<1> QED
  BY <1>2, <1>3, QuietStep DEF KeepCopy, EInv

LEMMA StartSaveKeeps == ASSUME EInv, NEW e \in Editors, StartSave(e) PROVE EInv'
<1>1. /\ Fine(e, ed[e], Len(versions), edits) /\ Len(versions) \in Nat
      /\ ed[e].saved \in Docs /\ ed[e].model \in Docs /\ ed[e].phase = "ready"
  BY EditorIsFine DEF StartSave, Unsaved, Editor
<1>2. copy' \in [Editors -> Copies]
  BY <1>1, CopyIsKept DEF StartSave
<1>3. ed' = [ed EXCEPT ![e] = Turn(ed[e])] /\ Fine(e, Turn(ed[e]), Len(versions), edits)
  BY <1>1, FineTurn DEF StartSave
<1> QED
  BY <1>2, <1>3, QuietStep DEF StartSave, EInv

-----------------------------------------------------------------------------
(* Saving                                                                  *)

LEMMA GiveUpIsFine ==
    ASSUME EInv, NEW e \in Editors, NEW E, Fine(e, E, Len(versions), edits), GiveUp(e, E)
    PROVE  /\ \E F : ed' = [ed EXCEPT ![e] = F] /\ Fine(e, F, Len(versions), edits)
           /\ copy' \in [Editors -> Copies]
<1>1. Len(versions) \in Nat
  BY EditorIsFine
<1>2. Fine(e, [E EXCEPT !.save = NoSave], Len(versions), edits)
  BY <1>1, FineNoSave
<1>3. ed' = [ed EXCEPT ![e] = [E EXCEPT !.save = NoSave]]
  BY DEF GiveUp
<1>4. copy' \in [Editors -> Copies]
  BY DEF GiveUp, EInv
<1> QED
  BY <1>2, <1>3, <1>4

LEMMA TakeStoredIsFine ==
    ASSUME EInv, NEW e \in Editors, NEW E, Fine(e, E, Len(versions), edits), E.phase = "ready",
           NEW d \in Docs, TakeStored(e, E, d)
    PROVE  /\ \E F : ed' = [ed EXCEPT ![e] = F] /\ Fine(e, F, Len(versions), edits)
           /\ copy' \in [Editors -> Copies]
<1> DEFINE merged == Merge(E.save.source, E.model, d)
           taken  == IF merged = E.model THEN [E EXCEPT !.saved = d]
                     ELSE [E EXCEPT !.saved = d, !.model = merged, !.past = <<>>, !.future = <<>>]
<1>1. Len(versions) \in Nat /\ E \in Editor
  BY EditorIsFine DEF Fine
<1>2. E.save.source \in Docs /\ E.model \in Docs
  BY <1>1 DEF Editor, Save
<1>3. merged \in Docs \/ merged = Conflict
  BY <1>2, MergeTypes
<1>4. ASSUME merged # Conflict PROVE Fine(e, taken, Len(versions), edits) /\ taken.phase = "ready"
  <2>1. merged \in Docs
    BY <1>3, <1>4
  <2> HIDE DEF merged
  <2>2. Fine(e, taken, Len(versions), edits)
    BY <1>1, <2>1, FineSaved, FineTaken
  <2>3. taken.phase = E.phase
    BY <1>1 DEF Editor
  <2> QED
    BY <2>2, <2>3
<1>5. CASE merged = Conflict /\ GiveUp(e, E)
  BY <1>5, GiveUpIsFine
<1>6. CASE /\ merged = d
           /\ ed'   = [ed EXCEPT ![e] = [taken EXCEPT !.save = NoSave]]
           /\ copy' = [copy EXCEPT ![e] = NoCopy]
  <2>1. Fine(e, taken, Len(versions), edits)
    <3>1. CASE merged = Conflict
      <4>1. d = Conflict
        BY <1>6, <3>1
      <4>2. merged \in Docs
        BY <1>6
      <4> HIDE DEF merged
      <4> QED
        BY <1>1, <4>2, FineSaved, FineTaken
    <3> QED
      BY <1>4, <3>1
  <2> HIDE DEF taken
  <2>2. Fine(e, [taken EXCEPT !.save = NoSave], Len(versions), edits)
    BY <1>1, <2>1, FineNoSave
  <2> QED
    BY <1>6, <2>2, CopyIsDropped
<1>7. CASE /\ merged \notin {Conflict, d}
           /\ ed'   = [ed EXCEPT ![e] = Turn(taken)]
           /\ copy' = [copy EXCEPT ![e] = [base |-> d, source |-> merged]]
  <2>1. Fine(e, taken, Len(versions), edits) /\ taken.phase = "ready" /\ merged \in Docs
    BY <1>3, <1>4, <1>7
  <2> HIDE DEF taken, merged
  <2>2. Fine(e, Turn(taken), Len(versions), edits)
    BY <1>1, <2>1, FineTurn
  <2> QED
    BY <1>7, <2>1, <2>2, CopyIsKept
<1> QED
  BY <1>5, <1>6, <1>7 DEF TakeStored

LEMMA SendKeeps == ASSUME EInv, NEW e \in Editors, Send(e) PROVE EInv'
<1> DEFINE save    == ed[e].save
           current == versions[ed[e].latest]
           merged  == Merge(save.base, save.source, current)
<1>1. /\ Fine(e, ed[e], Len(versions), edits) /\ ed[e] \in Editor /\ Len(versions) \in Nat
      /\ save.step = "validating" /\ save \in Save
  BY EditorIsFine DEF Send, Editor
<1>2. ed[e].phase = "ready" /\ ed[e].latest \in 1..Len(versions) /\ save.tries < MaxTries
  BY <1>1 DEF Fine, Orderly, KnowsVersions
<1>3. current \in Docs
  BY <1>2, ElementOfSeq DEF EInv
<1>4. merged \in Docs \/ merged = Conflict
  <2>1. save.base \in Docs /\ save.source \in Docs
    BY <1>1 DEF Save
  <2> QED
    BY <1>3, <2>1, MergeTypes
<1>5. UNCHANGED <<versions, by, edits, rare, raced>>
  BY DEF Send
<1>6. CASE merged = Conflict /\ GiveUp(e, ed[e])
  <2> HIDE DEF merged
  <2> QED
    BY <1>1, <1>5, <1>6, GiveUpIsFine, QuietStep DEF EInv
<1>7. CASE merged = current /\ TakeStored(e, ed[e], merged)
  <2>1. TakeStored(e, ed[e], current)
    BY <1>7
  <2>2. /\ \E F : ed' = [ed EXCEPT ![e] = F] /\ Fine(e, F, Len(versions), edits)
        /\ copy' \in [Editors -> Copies]
    BY <1>1, <1>2, <1>3, <2>1, TakeStoredIsFine
  <2> QED
    BY <1>5, <2>2, QuietStep DEF EInv
<1>8. CASE /\ merged \notin {Conflict, current}
           /\ ed' = [ed EXCEPT ![e].save.step = "sending", ![e].save.sent = merged,
                               ![e].save.at = ed[e].latest]
           /\ UNCHANGED copy
  <2> DEFINE s == [ed[e].save EXCEPT !.step = "sending", !.sent = merged, !.at = ed[e].latest]
             F == [ed[e] EXCEPT !.save = s]
  <2>1. merged \in Docs
    BY <1>4, <1>8
  <2>2. ed' = [ed EXCEPT ![e] = F]
    BY <1>1, <1>8 DEF EInv, Editor, Save
  <2> HIDE DEF merged
  <2>3. s \in Save /\ s.step = "sending" /\ s.tries = ed[e].save.tries
    <3>1. ed[e].save \in Save /\ ed[e].latest \in Nat
      BY <1>1, <1>2
    <3>2. s \in Save
      BY <2>1, <3>1 DEF Save
    <3>3. s.step = "sending" /\ s.tries = ed[e].save.tries
      BY <3>1 DEF Save
    <3> QED
      BY <3>2, <3>3
  <2> HIDE DEF s
  <2>4. Fine(e, F, Len(versions), edits)
    BY <1>1, <1>2, <2>3, FineSave
  <2> HIDE DEF F
  <2> QED
    BY <1>5, <1>8, <2>2, <2>4, QuietStep DEF EInv
<1> QED
  BY <1>6, <1>7, <1>8 DEF Send

\* A version that is stored is named by its number.
LEMMA StoreStep ==
    ASSUME EInv, NEW e \in Editors, ed[e].save.step = "sending", NEW E,
           Store(e) \/ UNCHANGED <<versions, by>>,
           ed' = [ed EXCEPT ![e] = E], Fine(e, E, Len(versions'), edits),
           UNCHANGED <<copy, edits>>, UNCHANGED rare \/ Rare(e), UNCHANGED raced
    PROVE  EInv'
<1>1. Len(versions) \in Nat /\ ed[e].save.sent \in Docs
  BY EditorIsFine DEF Editor, Save
<1>2. CASE UNCHANGED <<versions, by>>
  BY <1>2, QuietStep DEF EInv
<1>3. CASE versions' = Append(versions, ed[e].save.sent) /\ by' = e
  <2>1. versions' \in Seq(Docs) /\ Len(versions') = Len(versions) + 1
    BY <1>1, <1>3 DEF EInv
  <2>2. ASSUME NEW x \in Editors PROVE Fine(x, ed[x], Len(versions'), edits)
    <3>1. /\ ed[x] \in Editor /\ KnowsVersions(ed[x], Len(versions))
          /\ Orderly(ed[x]) /\ OwnHistory(x, ed[x], edits)
      BY DEF EInv, Fine
    <3>2. KnowsVersions(ed[x], Len(versions'))
      BY <1>1, <2>1, <3>1, MoreVersions
    <3> QED
      BY <3>1, <3>2 DEF Fine
  <2>3. DOMAIN ed' = Editors /\ ed' = [x \in Editors |-> ed'[x]]
    BY DEF EInv
  <2>4. \A x \in Editors : Fine(x, ed'[x], Len(versions'), edits')
    BY <2>2 DEF EInv
  <2>5. rare' \in [Editors -> Nat] /\ \A x \in Editors : rare'[x] <= MaxRare[x]
    <3>1. CASE UNCHANGED rare
      BY <3>1 DEF EInv
    <3>2. CASE Rare(e)
      BY <3>2, RareStays
    <3> QED
      BY <3>1, <3>2
  <2> QED
    BY <1>1, <1>3, <2>1, <2>3, <2>4, <2>5 DEF EInv
<1> QED
  BY <1>2, <1>3 DEF Store

LEMMA ServeSaveKeeps == ASSUME EInv, NEW e \in Editors, ServeSave(e) PROVE EInv'
<1> DEFINE s == [ed[e].save EXCEPT !.step = IF ed[e].save.at = Len(versions) THEN "stored" ELSE "refused",
                                   !.at = ed[e].save.at + 1]
           E == [ed[e] EXCEPT !.save = s]
<1>1. /\ Fine(e, ed[e], Len(versions), edits) /\ ed[e] \in Editor /\ Len(versions) \in Nat
      /\ ed[e].save.step = "sending" /\ ed[e].save \in Save /\ Store(e)
  BY EditorIsFine DEF ServeSave, Editor
<1>2. ed[e].phase = "ready" /\ ed[e].save.tries < MaxTries
  BY <1>1 DEF Fine, Orderly
<1>3. s \in Save /\ s.tries = ed[e].save.tries
  <2> DEFINE now == IF ed[e].save.at = Len(versions) THEN "stored" ELSE "refused"
  <2>1. now \in {"stored", "refused"}
    OBVIOUS
  <2>2. ed[e].save.at + 1 \in Nat
    BY <1>1 DEF Save
  <2> HIDE DEF now
  <2>3. [ed[e].save EXCEPT !.step = now, !.at = ed[e].save.at + 1] \in Save
    BY <1>1, <2>1, <2>2 DEF Save
  <2>4. [ed[e].save EXCEPT !.step = now, !.at = ed[e].save.at + 1].tries = ed[e].save.tries
    BY <1>1 DEF Save
  <2> QED
    BY <2>3, <2>4 DEF now
<1>4. /\ ed[e].save.at \in Nat /\ s.at = ed[e].save.at + 1
      /\ s.step = IF ed[e].save.at = Len(versions) THEN "stored" ELSE "refused"
  BY <1>1 DEF Save
<1>5. Len(versions') \in Nat /\ Len(versions) <= Len(versions')
  BY <1>1 DEF Store, EInv, Save
<1>6. ed[e].save.at = Len(versions) => Len(versions') = Len(versions) + 1
  BY <1>1 DEF Store, EInv, Save
<1>7. s.step = "stored" => s.at \in 1..Len(versions')
  BY <1>1, <1>4, <1>6
<1>8. ed' = [ed EXCEPT ![e] = E]
  BY <1>1 DEF ServeSave, EInv, Editor, Save
<1> HIDE DEF s
<1>9. Fine(e, ed[e], Len(versions'), edits)
  BY <1>1, <1>5, MoreVersions DEF Fine
<1>10. Fine(e, E, Len(versions'), edits)
  BY <1>2, <1>3, <1>5, <1>7, <1>9, FineSave
<1> HIDE DEF E
<1> QED
  BY <1>1, <1>8, <1>10, StoreStep DEF ServeSave

LEMMA LoseSaveKeeps == ASSUME EInv, NEW e \in Editors, LoseSave(e) PROVE EInv'
<1> DEFINE s == [ed[e].save EXCEPT !.step = "failed"]
           E == [ed[e] EXCEPT !.save = s]
<1>1. /\ Fine(e, ed[e], Len(versions), edits) /\ ed[e] \in Editor /\ Len(versions) \in Nat
      /\ ed[e].save.step = "sending" /\ ed[e].save \in Save
      /\ Store(e) \/ UNCHANGED <<versions, by>>
  BY EditorIsFine DEF LoseSave, Editor
<1>2. ed[e].phase = "ready" /\ ed[e].save.tries < MaxTries
  BY <1>1 DEF Fine, Orderly
<1>3. s \in Save /\ s.tries = ed[e].save.tries /\ s.step = "failed"
  BY <1>1 DEF Save
<1>4. Len(versions') \in Nat /\ Len(versions) <= Len(versions')
  BY <1>1 DEF Store, EInv, Save
<1>5. ed' = [ed EXCEPT ![e] = E]
  BY <1>1 DEF LoseSave, EInv, Editor, Save
<1> HIDE DEF s
<1>6. Fine(e, ed[e], Len(versions'), edits)
  BY <1>1, <1>4, MoreVersions DEF Fine
<1>7. Fine(e, E, Len(versions'), edits)
  BY <1>2, <1>3, <1>4, <1>6, FineSave
<1> HIDE DEF E
<1> QED
  BY <1>1, <1>5, <1>7, StoreStep DEF LoseSave

\* The numbers of versions an editor keeps may move among the versions there are.
LEMMA FineNumbers ==
    ASSUME NEW e, NEW E, NEW n \in Nat, NEW es, Fine(e, E, n, es),
           NEW l \in 1..n, NEW r \in 0..n, NEW s \in Nat, NEW o \in 0..n
    PROVE  Fine(e, [E EXCEPT !.latest = l, !.remote = r, !.snapshot = s, !.load = o], n, es)
<1> DEFINE F == [E EXCEPT !.latest = l, !.remote = r, !.snapshot = s, !.load = o]
<1>1. F \in Editor
  <2>1. l \in Nat /\ r \in Nat /\ o \in Nat /\ E \in Editor
    BY DEF Fine
  <2> QED
    BY <2>1 DEF Editor
<1>2. /\ F.phase = E.phase /\ F.xml = E.xml /\ F.model = E.model /\ F.latest = l
      /\ F.load = o /\ F.remote = r /\ F.past = E.past /\ F.future = E.future
      /\ F.save = E.save
  BY DEF Fine, Editor
<1>3. KnowsVersions(F, n) /\ Orderly(F) /\ OwnHistory(e, F, es)
  BY <1>2 DEF Fine, KnowsVersions, Orderly, OwnHistory
<1> QED
  BY <1>1, <1>3 DEF Fine

LEMMA SaveAnsweredKeeps == ASSUME EInv, NEW e \in Editors, SaveAnswered(e) PROVE EInv'
<1> DEFINE v      == ed[e].save.at
           newest == IF v >= ed[e].latest THEN v ELSE ed[e].latest
           snap   == IF v >= ed[e].snapshot THEN v ELSE ed[e].snapshot
           E      == [ed[e] EXCEPT !.latest = newest, !.remote = newest, !.snapshot = snap]
<1>1. /\ Fine(e, ed[e], Len(versions), edits) /\ ed[e] \in Editor /\ Len(versions) \in Nat
      /\ ed[e].save.step = "stored" /\ ed[e].save \in Save
  BY EditorIsFine DEF SaveAnswered, Editor
<1>2. ed[e].phase = "ready"
  BY <1>1 DEF Fine, Orderly
<1>3. v \in 1..Len(versions) /\ ed[e].latest \in 1..Len(versions) /\ ed[e].load \in 0..Len(versions)
  BY <1>1, <1>2 DEF Fine, KnowsVersions, Editor
<1>4. newest \in 1..Len(versions) /\ newest \in 0..Len(versions) /\ snap \in Nat
  BY <1>1, <1>3 DEF Editor
<1>5. E = [ed[e] EXCEPT !.latest = newest, !.remote = newest, !.snapshot = snap, !.load = ed[e].load]
  BY <1>1 DEF Editor
<1>6. E.phase = "ready"
  BY <1>1, <1>2 DEF Editor
<1>7. TakeStored(e, E, ed[e].save.sent) /\ UNCHANGED <<versions, by, edits, rare, raced>>
  BY DEF SaveAnswered
<1> HIDE DEF v, newest, snap
<1>8. Fine(e, E, Len(versions), edits)
  <2> DEFINE G == [ed[e] EXCEPT !.latest = newest, !.remote = newest, !.snapshot = snap, !.load = ed[e].load]
  <2>1. Fine(e, G, Len(versions), edits)
    BY <1>1, <1>3, <1>4, FineNumbers
  <2>2. E = G
    BY <1>5
  <2> HIDE DEF E, G
  <2> QED
    BY <2>1, <2>2
<1>9. ed[e].save.sent \in Docs
  BY <1>1 DEF Save
<1> HIDE DEF E
<1>10. /\ \E F : ed' = [ed EXCEPT ![e] = F] /\ Fine(e, F, Len(versions), edits)
       /\ copy' \in [Editors -> Copies]
  BY <1>6, <1>7, <1>8, <1>9, TakeStoredIsFine
<1> QED
  BY <1>7, <1>10, QuietStep DEF EInv

LEMMA SaveRefusedKeeps == ASSUME EInv, NEW e \in Editors, SaveRefused(e) PROVE EInv'
<1> DEFINE tries == ed[e].save.tries + 1
           s == IF tries = MaxTries THEN NoSave
                ELSE [ed[e].save EXCEPT !.step = "validating", !.sent = Fresh, !.at = 0, !.tries = tries]
           D == [ed[e] EXCEPT !.latest = Len(versions), !.remote = ed[e].remote,
                              !.snapshot = ed[e].snapshot, !.load = ed[e].load]
           E == [D EXCEPT !.save = s]
<1>1. /\ Fine(e, ed[e], Len(versions), edits) /\ ed[e] \in Editor /\ Len(versions) \in Nat
      /\ ed[e].save.step = "refused" /\ ed[e].save \in Save /\ Len(versions) >= 1
  BY EditorIsFine DEF SaveRefused, Editor, EInv
<1>2. ed[e].phase = "ready" /\ ed[e].save.tries < MaxTries
  BY <1>1 DEF Fine, Orderly
<1>3. Len(versions) \in 1..Len(versions) /\ ed[e].load \in 0..Len(versions)
      /\ ed[e].remote \in 0..Len(versions) /\ ed[e].snapshot \in Nat
  BY <1>1 DEF Fine, KnowsVersions, Editor
<1>4. Fine(e, D, Len(versions), edits)
  BY <1>1, <1>3, FineNumbers
<1>5. D.phase = "ready"
  BY <1>1, <1>2 DEF Editor
<1>6. ed[e].save.tries \in Nat /\ MaxTries \in Nat /\ MaxTries > 0
  BY <1>1, EditingAssumption DEF Save
<1>7. s \in Save /\ s.tries < MaxTries /\ s.step # "stored"
  <2>1. CASE tries = MaxTries
    BY <1>6, <2>1, NoSaveIsASave DEF NoSave
  <2>2. CASE tries # MaxTries
    <3> DEFINE t == [ed[e].save EXCEPT !.step = "validating", !.sent = Fresh, !.at = 0, !.tries = tries]
    <3>1. tries \in 0..MaxTries /\ tries < MaxTries
      BY <1>2, <1>6, <2>2
    <3> HIDE DEF tries
    <3>2. t \in Save
      BY <1>1, <3>1, FreshIsADoc DEF Save
    <3>3. t.step = "validating" /\ t.tries = tries
      BY <1>1 DEF Save
    <3>4. s = t
      BY <2>2
    <3> HIDE DEF s, t
    <3> QED
      BY <3>1, <3>2, <3>3, <3>4
  <2> QED
    BY <2>1, <2>2
<1>8. ed' = [ed EXCEPT ![e] = [ed[e] EXCEPT !.latest = Len(versions), !.save = s]]
  BY DEF SaveRefused
<1> HIDE DEF s
<1>9. E = [ed[e] EXCEPT !.latest = Len(versions), !.save = s]
  BY <1>1 DEF Editor
<1> HIDE DEF D
<1>10. Fine(e, E, Len(versions), edits)
  BY <1>1, <1>4, <1>5, <1>7, FineSave
<1>11. ed' = [ed EXCEPT ![e] = E]
  BY <1>8, <1>9
<1> HIDE DEF E
<1> QED
  BY <1>10, <1>11, QuietStep DEF SaveRefused, EInv

LEMMA SaveFailedKeeps == ASSUME EInv, NEW e \in Editors, SaveFailed(e) PROVE EInv'
  BY EditorIsFine, GiveUpIsFine, QuietStep DEF SaveFailed, EInv

-----------------------------------------------------------------------------
(* Versions of others                                                      *)

LEMMA RefreshKeeps == ASSUME EInv, NEW e \in Editors, Refresh(e) PROVE EInv'
<1> DEFINE E == [ed[e] EXCEPT !.latest = ed[e].latest, !.remote = ed[e].remote,
                              !.snapshot = ed[e].snapshot, !.load = Len(versions)]
<1>1. /\ Fine(e, ed[e], Len(versions), edits) /\ ed[e] \in Editor /\ Len(versions) \in Nat
      /\ ed[e].phase # "closed"
  BY EditorIsFine DEF Refresh, Open
<1>2. /\ ed[e].latest \in 1..Len(versions) /\ ed[e].remote \in 0..Len(versions)
      /\ Len(versions) \in 0..Len(versions) /\ ed[e].snapshot \in Nat
  BY <1>1 DEF Fine, KnowsVersions, Editor
<1>3. Fine(e, E, Len(versions), edits)
  BY <1>1, <1>2, FineNumbers
<1>4. E = [ed[e] EXCEPT !.load = Len(versions)]
  BY <1>1 DEF Editor
<1>5. ed' = [ed EXCEPT ![e] = E]
  BY <1>4 DEF Refresh
<1> HIDE DEF E
<1> QED
  BY <1>3, <1>5, QuietStep DEF Refresh, EInv

LEMMA LoadedKeeps == ASSUME EInv, NEW e \in Editors, Loaded(e) PROVE EInv'
<1> DEFINE v == ed[e].load
           l == IF v >= ed[e].latest THEN v ELSE ed[e].latest
           k == IF v >= ed[e].snapshot THEN v ELSE ed[e].snapshot
           r == IF v >= ed[e].snapshot /\ v >= ed[e].latest THEN v ELSE ed[e].remote
           E == [ed[e] EXCEPT !.load = 0, !.latest = l, !.snapshot = k, !.remote = r]
<1>1. /\ Fine(e, ed[e], Len(versions), edits) /\ ed[e] \in Editor /\ Len(versions) \in Nat
      /\ v # 0 /\ v \in Nat /\ v <= Len(versions) /\ ed[e].remote <= Len(versions)
      /\ ed[e].latest \in Nat /\ ed[e].remote \in Nat /\ ed[e].snapshot \in Nat
  BY EditorIsFine DEF Loaded, Fine, KnowsVersions, Editor
<1>2. ed' = [ed EXCEPT ![e] = E] /\ UNCHANGED <<versions, by, copy, edits, rare, raced>>
  BY <1>1 DEF Loaded, EInv, Editor
<1>3. ed[e].phase # "closed" => l \in 1..Len(versions)
  BY <1>1 DEF Fine, KnowsVersions
<1>4. l \in Nat /\ k \in Nat /\ r \in 0..Len(versions) /\ r \in Nat
  BY <1>1
<1> HIDE DEF l, k, r
<1>5. E \in Editor
  BY <1>1, <1>4 DEF Editor
<1>6. /\ E.phase = ed[e].phase /\ E.xml = ed[e].xml /\ E.model = ed[e].model /\ E.latest = l
      /\ E.load = 0 /\ E.remote = r /\ E.past = ed[e].past /\ E.future = ed[e].future
      /\ E.save = ed[e].save
  BY <1>1 DEF Editor
<1>7. KnowsVersions(E, Len(versions))
  BY <1>1, <1>3, <1>4, <1>6 DEF Fine, KnowsVersions
<1>8. Orderly(E) /\ OwnHistory(e, E, edits)
  BY <1>1, <1>6 DEF Fine, Orderly, OwnHistory
<1>9. Fine(e, E, Len(versions), edits)
  BY <1>5, <1>7, <1>8 DEF Fine
<1> HIDE DEF E
<1> QED
  BY <1>2, <1>9, QuietStep DEF EInv

LEMMA TakeRemoteKeeps == ASSUME EInv, NEW e \in Editors, TakeRemote(e) PROVE EInv'
<1> DEFINE remote == versions[ed[e].remote]
           merged == Merge(ed[e].saved, ed[e].model, remote)
           seen   == [ed[e] EXCEPT !.observed = ed[e].remote]
           next   == IF remote = ed[e].saved \/ merged = Conflict THEN seen
                     ELSE [seen EXCEPT !.model = merged, !.saved = remote,
                                       !.past = <<>>, !.future = <<>>]
<1>1. /\ Fine(e, ed[e], Len(versions), edits) /\ ed[e] \in Editor /\ Len(versions) \in Nat
      /\ ed[e].remote # 0 /\ ed[e].remote \in Nat /\ ed[e].remote <= Len(versions)
      /\ ed[e].saved \in Docs /\ ed[e].model \in Docs
  BY EditorIsFine DEF TakeRemote, Fine, KnowsVersions, Editor
<1>2. remote \in Docs
  BY <1>1, ElementOfSeq DEF EInv
<1>3. merged \in Docs \/ merged = Conflict
  BY <1>1, <1>2, MergeTypes
<1>4. ed' = [ed EXCEPT ![e] = next] /\ UNCHANGED <<versions, by, copy, edits, rare, raced>>
  BY DEF TakeRemote
<1>5. Fine(e, seen, Len(versions), edits)
  <2>1. seen \in Editor
    BY <1>1 DEF Editor
  <2>2. /\ seen.phase = ed[e].phase /\ seen.xml = ed[e].xml /\ seen.model = ed[e].model
        /\ seen.latest = ed[e].latest /\ seen.load = ed[e].load /\ seen.remote = ed[e].remote
        /\ seen.past = ed[e].past /\ seen.future = ed[e].future /\ seen.save = ed[e].save
    BY <1>1 DEF Editor
  <2> HIDE DEF seen
  <2>3. KnowsVersions(seen, Len(versions)) /\ Orderly(seen) /\ OwnHistory(e, seen, edits)
    BY <1>1, <2>2 DEF Fine, KnowsVersions, Orderly, OwnHistory
  <2> QED
    BY <2>1, <2>3 DEF Fine
<1> HIDE DEF remote, merged, seen
<1>6. Fine(e, next, Len(versions), edits)
  <2>1. CASE remote = ed[e].saved \/ merged = Conflict
    BY <1>5, <2>1
  <2>2. CASE ~(remote = ed[e].saved \/ merged = Conflict)
    <3> DEFINE F == [seen EXCEPT !.saved = remote, !.model = merged, !.past = <<>>, !.future = <<>>]
    <3>1. Fine(e, F, Len(versions), edits)
      BY <1>1, <1>2, <1>3, <1>5, <2>2, FineTaken
    <3>2. next = F
      BY <1>5, <2>2 DEF Fine, Editor
    <3> HIDE DEF next, F
    <3> QED
      BY <3>1, <3>2
  <2> QED
    BY <2>1, <2>2
<1> HIDE DEF next
<1> QED
  BY <1>4, <1>6, QuietStep DEF EInv

-----------------------------------------------------------------------------
(* Types and undo                                                          *)

LEMMA EInvInit == Init => EInv
<1> SUFFICES ASSUME Init PROVE EInv
  OBVIOUS
<1>1. versions \in Seq(Docs) /\ Len(versions) = 1
  BY FreshIsADoc DEF Init
<1>2. by \in Editors
  BY EditingAssumption DEF Init
<1>3. DOMAIN ed = Editors /\ ed = [e \in Editors |-> ed[e]] /\ \A e \in Editors : ed[e] = Closed
  BY DEF Init
<1>4. \A e \in Editors : Fine(e, ed[e], Len(versions), edits)
  BY <1>1, <1>3, FineClosed
<1>5. copy \in [Editors -> Copies] /\ edits \in Seq(Entry) /\ raced \in BOOLEAN
  <2>1. copy \in [Editors -> Copies] /\ raced \in BOOLEAN
    BY DEF Init, Copies
  <2>2. edits \in Seq(Entry)
    BY EmptySeq DEF Init
  <2> QED
    BY <2>1, <2>2
<1>6. rare \in [Editors -> Nat] /\ \A e \in Editors : rare[e] <= MaxRare[e]
  BY EditingAssumption DEF Init
<1> QED
  BY <1>1, <1>2, <1>3, <1>4, <1>5, <1>6 DEF EInv

LEMMA EInvStep == EInv /\ [Next]_vars => EInv'
<1> SUFFICES ASSUME EInv, [Next]_vars PROVE EInv'
  OBVIOUS
<1>1. CASE UNCHANGED vars
  BY <1>1 DEF vars, EInv
<1>2. ASSUME NEW e \in Editors, OpenDialog(e) \/ Close(e) \/ Crash(e) \/ Undo(e) \/ Redo(e)
      PROVE  EInv'
  BY <1>2, OpenKeeps, CloseKeeps, WalkKeeps
<1>3. ASSUME NEW e \in Editors, NEW f \in Fields, Edit(e, f) PROVE EInv'
  BY <1>3, EditKeeps
<1>4. ASSUME NEW e \in Editors, EditorStep(e) PROVE EInv'
  BY <1>4, RestoreKeeps, StartSaveKeeps, SendKeeps, ServeSaveKeeps, SaveAnsweredKeeps,
     SaveRefusedKeeps, SaveFailedKeeps DEF EditorStep
<1>5. ASSUME NEW e \in Editors, KeepCopy(e) \/ LiveStep(e) \/ TakeRemote(e) \/ LoseSave(e)
      PROVE  EInv'
  BY <1>5, KeepCopyKeeps, RefreshKeeps, LoadedKeeps, TakeRemoteKeeps, LoseSaveKeeps DEF LiveStep
<1> QED
  BY <1>1, <1>2, <1>3, <1>4, <1>5 DEF Next, UserStep, SystemStep

\* The invariant: an editor names only versions there are (so every document it merges
\* is one), and its undo history holds its own user's steps.
THEOREM EditingInvariant == Spec => []EInv
  BY EInvInit, EInvStep, PTL DEF Spec

\* The types: every model, base and copy is a document and never the conflict of a merge
\* that was refused, and a save ends before its attempts are used up.
THEOREM EditingTypes == Spec => []EditingTypeOK
  BY EditingInvariant, EInvTypes, PTL

LEMMA WalksAreOwn ==
    EInv => \A e \in Editors : Undo(e) \/ Redo(e) =>
        \A f \in Fields :
            LET old == ed[e].model[f] new == ed'[e].model[f]
            IN  old = new \/ (old # 0 /\ edits[old].by = e) \/ (new # 0 /\ edits[new].by = e)
<1> SUFFICES ASSUME EInv, NEW e \in Editors, Undo(e) \/ Redo(e), NEW f \in Fields
             PROVE  LET old == ed[e].model[f] new == ed'[e].model[f]
                    IN  old = new \/ (old # 0 /\ edits[old].by = e) \/ (new # 0 /\ edits[new].by = e)
  OBVIOUS
<1>1. Fine(e, ed[e], Len(versions), edits) /\ ed[e] \in Editor /\ Len(versions) \in Nat
  BY EditorIsFine
<1>2. ed[e].phase = "ready"
  BY <1>1 DEF Fine, Orderly, Undo, Redo
<1>3. Near(e, ed'[e].model, ed[e].model, edits)
  <2>1. CASE Undo(e)
    <3>1. Near(e, Last(ed[e].past), ed[e].model, edits)
      BY <1>1, <1>2, <2>1, WalkIsFine DEF Undo
    <3>2. ed'[e].model = Last(ed[e].past)
      BY <1>1, <2>1 DEF Undo, EInv, Editor
    <3> QED
      BY <3>1, <3>2
  <2>2. CASE Redo(e)
    <3>1. Near(e, Last(ed[e].future), ed[e].model, edits)
      BY <1>1, <1>2, <2>2, WalkIsFine DEF Redo
    <3>2. ed'[e].model = Last(ed[e].future)
      BY <1>1, <2>2 DEF Redo, EInv, Editor
    <3> QED
      BY <3>1, <3>2
  <2> QED
    BY <2>1, <2>2
<1> QED
  BY <1>3 DEF Near, OwnEdit

\* Undo and redo change a field only from or to an edit of the one who presses the key:
\* they never bring back a value that a colleague has replaced, because a merge with
\* another's version empties the history.
THEOREM UndoIsOwn == Spec => UndoKeepsForeignWork
<1>1. EInv /\ [Next]_vars => [\A e \in Editors : Undo(e) \/ Redo(e) =>
        \A f \in Fields :
            LET old == ed[e].model[f] new == ed'[e].model[f]
            IN  old = new \/ (old # 0 /\ edits[old].by = e) \/ (new # 0 /\ edits[new].by = e)]_vars
  BY WalksAreOwn
<1> QED
  BY <1>1, EditingInvariant, PTL DEF Spec, UndoKeepsForeignWork

-----------------------------------------------------------------------------
(* Lines of values                                                         *)

IsLine(l, es) == l = [w \in 0..Len(es) |-> IF w = 0 THEN {0} ELSE {w} \cup l[es[w].under]]

LineOf(es) == CHOOSE l : IsLine(l, es)

\* Every edit was put on top of an earlier value, so that every value has one line.
Lined(es) ==
    /\ es \in Seq(Entry)
    /\ \A w \in 1..Len(es) : es[w].under \in 0..(w - 1)
    /\ \E l : IsLine(l, es)
    /\ \A l, m : IsLine(l, es) /\ IsLine(m, es) => l = m

LEMMA LineIsLineOf == ASSUME NEW v PROVE Line(v) = LineOf(edits)[v]
  BY DEF Line, LineOf, IsLine

LEMMA UnfoldedLine ==
    ASSUME NEW n \in Nat, NEW l, NEW es, Len(es) = n
    PROVE  IsLine(l, es) <=> /\ l = [w \in 0..n |-> l[w]]
                             /\ l[0] = {0}
                             /\ \A w \in 1..n : l[w] = {w} \cup l[es[w].under]
<1>1. ASSUME IsLine(l, es)
      PROVE  /\ l = [w \in 0..n |-> l[w]]
             /\ l[0] = {0}
             /\ \A w \in 1..n : l[w] = {w} \cup l[es[w].under]
  <2>1. l = [w \in 0..n |-> IF w = 0 THEN {0} ELSE {w} \cup l[es[w].under]]
    BY <1>1 DEF IsLine
  <2>2. l = [w \in 0..n |-> l[w]]
    BY <2>1, Zenon
  <2>3. \A w \in 0..n : l[w] = IF w = 0 THEN {0} ELSE {w} \cup l[es[w].under]
    BY <2>1, Zenon
  <2>4. 0 \in 0..n /\ \A w \in 1..n : w \in 0..n /\ w # 0
    OBVIOUS
  <2> QED
    BY <2>2, <2>3, <2>4, Zenon
<1>2. ASSUME l = [w \in 0..n |-> l[w]], l[0] = {0}, \A w \in 1..n : l[w] = {w} \cup l[es[w].under]
      PROVE  IsLine(l, es)
  <2>1. \A w \in 0..n : w = 0 \/ w \in 1..n
    OBVIOUS
  <2>2. \A w \in 0..n : l[w] = IF w = 0 THEN {0} ELSE {w} \cup l[es[w].under]
    BY <1>2, <2>1, Zenon
  <2>3. l = [w \in 0..n |-> IF w = 0 THEN {0} ELSE {w} \cup l[es[w].under]]
    BY <1>2, <2>2, Zenon
  <2> QED
    BY <2>3 DEF IsLine
<1> QED
  BY <1>1, <1>2

LEMMA LineOfIsLine == ASSUME NEW es, Lined(es) PROVE IsLine(LineOf(es), es)
  BY DEF Lined, LineOf

LEMMA ValuesAreOnTheirLine ==
    ASSUME NEW es, Lined(es), NEW v \in 0..Len(es) PROVE v \in LineOf(es)[v]
<1>1. LineOf(es) = [w \in 0..Len(es) |-> IF w = 0 THEN {0} ELSE {w} \cup LineOf(es)[es[w].under]]
  BY LineOfIsLine DEF IsLine
<1>2. LineOf(es)[v] = IF v = 0 THEN {0} ELSE {v} \cup LineOf(es)[es[v].under]
  BY <1>1
<1> QED
  BY <1>2

LEMMA NoEditsAreLined == Lined(<<>>)
<1> DEFINE l == [w \in {0} |-> {0}]
<1>1. ASSUME NEW m PROVE IsLine(m, <<>>) <=> m = l
  <2>1. Len(<<>>) = 0 /\ 0..0 = {0}
    BY EmptySeq
  <2>2. [w \in 0..Len(<<>>) |-> IF w = 0 THEN {0} ELSE {w} \cup m[<<>>[w].under]] = l
    BY <2>1
  <2> HIDE DEF l
  <2> QED
    BY <2>2 DEF IsLine
<1> HIDE DEF l
<1> QED
  BY <1>1, EmptySeq DEF Lined

\* An edit starts a line of its own and leaves the others as they are.
LEMMA LinesGrow ==
    ASSUME NEW es, Lined(es), NEW x \in Entry, x.under \in 0..Len(es)
    PROVE  /\ Lined(Append(es, x))
           /\ \A v \in 0..Len(es) : LineOf(Append(es, x))[v] = LineOf(es)[v]
           /\ LineOf(Append(es, x))[Len(es) + 1] = {Len(es) + 1} \cup LineOf(es)[x.under]
<1> DEFINE n  == Len(es)
           fs == Append(es, x)
<1>1. /\ es \in Seq(Entry) /\ n \in Nat /\ fs \in Seq(Entry) /\ Len(fs) = n + 1
      /\ \A w \in 1..n : fs[w] = es[w] /\ es[w].under \in 0..(w - 1)
      /\ fs[n + 1] = x
  BY DEF Lined
<1> HIDE DEF fs
<1>2. \A w \in 1..Len(fs) : fs[w].under \in 0..(w - 1)
  BY <1>1
<1>3. ASSUME NEW m, IsLine(m, fs)
      PROVE  /\ \A v \in 0..n : m[v] = LineOf(es)[v]
             /\ m[n + 1] = {n + 1} \cup LineOf(es)[x.under]
             /\ m = [v \in 0..(n + 1) |-> m[v]]
  <2> DEFINE k == [w \in 0..n |-> m[w]]
  <2>1. /\ m = [w \in 0..(n + 1) |-> m[w]] /\ m[0] = {0}
        /\ \A w \in 1..(n + 1) : m[w] = {w} \cup m[fs[w].under]
    BY <1>1, <1>3, UnfoldedLine
  <2>2. \A w \in 0..n : k[w] = m[w]
    OBVIOUS
  <2>3. k = [w \in 0..n |-> k[w]]
    OBVIOUS
  <2> HIDE DEF k
  <2>4. k[0] = {0}
    <3>1. 0 \in 0..n
      BY <1>1
    <3> QED
      BY <2>1, <2>2, <3>1
  <2>5. ASSUME NEW w \in 1..n PROVE k[w] = {w} \cup k[es[w].under]
    <3>1. es[w].under \in 0..n /\ fs[w] = es[w] /\ w \in 0..n /\ w \in 1..(n + 1)
      BY <1>1
    <3>2. k[w] = m[w] /\ k[es[w].under] = m[es[w].under] /\ m[w] = {w} \cup m[fs[w].under]
      BY <2>1, <2>2, <3>1
    <3> QED
      BY <3>1, <3>2
  <2>6. IsLine(k, es)
    BY <1>1, <2>3, <2>4, <2>5, UnfoldedLine
  <2>7. k = LineOf(es)
    BY <2>6, LineOfIsLine DEF Lined
  <2>8. m[n + 1] = {n + 1} \cup m[x.under]
    <3>1. n + 1 \in 1..(n + 1) /\ fs[n + 1] = x
      BY <1>1
    <3> QED
      BY <2>1, <3>1
  <2> QED
    BY <2>1, <2>2, <2>7, <2>8
<1>4. \E l : IsLine(l, fs)
  <2> DEFINE L == LineOf(es)
             l == [w \in 0..(n + 1) |-> IF w <= n THEN L[w] ELSE {w} \cup L[x.under]]
  <2>1. L[0] = {0} /\ \A w \in 1..n : L[w] = {w} \cup L[es[w].under]
    BY <1>1, LineOfIsLine, UnfoldedLine
  <2> HIDE DEF L
  <2>2. \A w \in 0..n : l[w] = L[w]
    BY <1>1
  <2>3. l[n + 1] = {n + 1} \cup L[x.under]
    BY <1>1
  <2>4. l = [w \in 0..(n + 1) |-> l[w]]
    OBVIOUS
  <2> HIDE DEF l
  <2>5. l[0] = {0}
    BY <1>1, <2>1, <2>2
  <2>6. ASSUME NEW w \in 1..(n + 1) PROVE l[w] = {w} \cup l[fs[w].under]
    <3>1. CASE w \in 1..n
      <4>1. fs[w].under = es[w].under /\ es[w].under \in 0..n /\ w \in 0..n
        BY <1>1, <3>1
      <4>2. l[w] = L[w] /\ l[es[w].under] = L[es[w].under] /\ L[w] = {w} \cup L[es[w].under]
        BY <2>1, <2>2, <3>1, <4>1
      <4> QED
        BY <4>1, <4>2
    <3>2. CASE w = n + 1
      <4>1. fs[w] = x /\ l[x.under] = L[x.under]
        BY <1>1, <2>2, <3>2
      <4> QED
        BY <2>3, <3>2, <4>1
    <3> QED
      BY <1>1, <3>1, <3>2
  <2>7. n + 1 \in Nat /\ Len(fs) = n + 1
    BY <1>1
  <2>8. IsLine(l, fs)
    BY <2>4, <2>5, <2>6, <2>7, UnfoldedLine
  <2> QED
    BY <2>8
<1>5. ASSUME NEW l, NEW m, IsLine(l, fs), IsLine(m, fs) PROVE l = m
  <2>1. \A v \in 0..(n + 1) : l[v] = m[v]
    <3>1. \A v \in 0..n : l[v] = m[v]
      BY <1>3, <1>5
    <3>2. l[n + 1] = m[n + 1]
      BY <1>3, <1>5
    <3> QED
      BY <1>1, <3>1, <3>2
  <2>2. l = [v \in 0..(n + 1) |-> l[v]] /\ m = [v \in 0..(n + 1) |-> m[v]]
    BY <1>3, <1>5
  <2> QED
    BY <2>1, <2>2
<1>6. Lined(fs)
  BY <1>1, <1>2, <1>4, <1>5 DEF Lined
<1>7. IsLine(LineOf(fs), fs)
  BY <1>6, LineOfIsLine
<1> QED
  BY <1>3, <1>6, <1>7 DEF fs
-----------------------------------------------------------------------------
(* Whose work a document drops                                             *)

\* What d has and c lacks was withdrawn by e: e may put c in the place of d.
MayReplace(e, c, d, es) ==
    \A f \in Fields : \A u \in LineOf(es)[d[f]] \ LineOf(es)[c[f]] : OwnEdit(e, u, es)

\* e alone leads from one to the other.
Kin(e, c, d, es) == MayReplace(e, c, d, es) /\ MayReplace(e, d, c, es)

\* Documents of values there are.
Written(d, es) == d \in [Fields -> 0..Len(es)]

LEMMA SameMayReplace == ASSUME NEW e, NEW c, NEW es PROVE MayReplace(e, c, c, es) /\ Kin(e, c, c, es)
  BY DEF MayReplace, Kin

LEMMA ReplacesInTurn ==
    ASSUME NEW e, NEW b, NEW c, NEW d, NEW es, MayReplace(e, b, c, es), MayReplace(e, c, d, es)
    PROVE  MayReplace(e, b, d, es)
  BY DEF MayReplace

\* Each field of c is d's, or what b has where a document b may replace has d's.
LEMMA FieldsMayReplace ==
    ASSUME NEW e, NEW es, NEW a, NEW b, NEW c, NEW d, MayReplace(e, b, a, es),
           \A f \in Fields : c[f] = d[f] \/ (c[f] = b[f] /\ d[f] = a[f])
    PROVE  MayReplace(e, c, d, es)
<1> SUFFICES ASSUME NEW f \in Fields, NEW u \in LineOf(es)[d[f]] \ LineOf(es)[c[f]]
             PROVE  OwnEdit(e, u, es)
  BY DEF MayReplace
<1>1. c[f] # d[f]
  OBVIOUS
<1>2. c[f] = b[f] /\ d[f] = a[f]
  BY <1>1
<1> QED
  BY <1>2 DEF MayReplace

\* What a merge without a conflict shows in a field.
LEMMA MergeCases ==
    ASSUME NEW base, NEW local, NEW remote, Merge(base, local, remote) # Conflict, NEW f \in Fields
    PROVE  LET merged == Merge(base, local, remote)
           IN  \/ local[f] = base[f] /\ merged[f] = remote[f]
               \/ local[f] # base[f] /\ merged[f] = local[f] /\ remote[f] \in {base[f], local[f]}
  BY DEF Merge

\* A merge may replace what it was made with, if the local side may replace its base.
LEMMA MergeMayReplace ==
    ASSUME NEW e, NEW es, NEW base, NEW local, NEW remote, MayReplace(e, local, base, es),
           Merge(base, local, remote) # Conflict
    PROVE  MayReplace(e, Merge(base, local, remote), remote, es)
<1> DEFINE merged == Merge(base, local, remote)
<1>1. \A f \in Fields : merged[f] = remote[f] \/ (merged[f] = local[f] /\ remote[f] = base[f])
  BY MergeCases
<1> HIDE DEF merged
<1>2. MayReplace(e, merged, remote, es)
  BY <1>1, FieldsMayReplace
<1> QED
  BY <1>2 DEF merged

LEMMA MergeIsWritten ==
    ASSUME NEW es, NEW base, NEW local, NEW remote, Written(local, es), Written(remote, es),
           Merge(base, local, remote) # Conflict
    PROVE  Written(Merge(base, local, remote), es)
  BY DEF Written, Merge

\* New edits change nothing in what was written before.
LEMMA ReplacesStill ==
    ASSUME NEW e, NEW es, Lined(es), NEW x \in Entry, x.under \in 0..Len(es),
           NEW c, NEW d, Written(c, es), Written(d, es), MayReplace(e, c, d, es)
    PROVE  MayReplace(e, c, d, Append(es, x))
<1> DEFINE fs == Append(es, x)
<1>1. ASSUME NEW f \in Fields
      PROVE  LineOf(fs)[c[f]] = LineOf(es)[c[f]] /\ LineOf(fs)[d[f]] = LineOf(es)[d[f]]
  BY LinesGrow DEF Written
<1>2. ASSUME NEW u, OwnEdit(e, u, es) PROVE OwnEdit(e, u, fs)
  BY <1>2 DEF OwnEdit, Lined
<1> HIDE DEF fs
<1>3. MayReplace(e, c, d, fs)
  BY <1>1, <1>2 DEF MayReplace
<1> QED
  BY <1>3 DEF fs

LEMMA WrittenStill ==
    ASSUME NEW es \in Seq(Entry), NEW x \in Entry, NEW d, Written(d, es)
    PROVE  Written(d, Append(es, x))
<1>1. Len(Append(es, x)) = Len(es) + 1 /\ Len(es) \in Nat
  OBVIOUS
<1>2. \A v \in 0..Len(es) : v \in 0..Len(Append(es, x))
  BY <1>1
<1> QED
  BY <1>2 DEF Written

\* An edit by e on top of c.
LEMMA EditIsKin ==
    ASSUME NEW e, NEW es, Lined(es), NEW x \in Entry, x.by = e, NEW c, NEW f \in Fields,
           Written(c, es), x.under = c[f]
    PROVE  LET d == [c EXCEPT ![f] = Len(es) + 1]
           IN  Written(d, Append(es, x)) /\ Kin(e, c, d, Append(es, x))
<1> DEFINE n == Len(es) + 1
           d == [c EXCEPT ![f] = n]
           fs == Append(es, x)
<1>1. Len(es) \in Nat /\ Len(fs) = n /\ fs[n] = x /\ n \in 0..Len(fs) /\ n \in 1..Len(fs)
  BY DEF Lined
<1>2. Written(c, fs)
  BY WrittenStill DEF Lined
<1>3. x.under \in 0..Len(es)
  BY DEF Written
<1>4. LineOf(fs)[n] = {n} \cup LineOf(fs)[c[f]]
  <2>1. LineOf(fs)[n] = {n} \cup LineOf(es)[x.under]
    BY <1>3, LinesGrow
  <2>2. LineOf(fs)[x.under] = LineOf(es)[x.under]
    BY <1>3, LinesGrow
  <2> QED
    BY <2>1, <2>2
<1>5. OwnEdit(e, n, fs)
  BY <1>1 DEF OwnEdit
<1> HIDE DEF n, fs
<1>6. Written(d, fs)
  BY <1>1, <1>2 DEF Written
<1>7. d[f] = n /\ \A g \in Fields : g # f => d[g] = c[g]
  BY <1>2 DEF Written
<1> HIDE DEF d
<1>8. Kin(e, c, d, fs)
  BY <1>4, <1>5, <1>7 DEF Kin, MayReplace
<1> QED
  BY <1>6, <1>8 DEF n, d, fs
-----------------------------------------------------------------------------
(* What editors and copies rest on                                         *)

Stored(d, vs) == \E k \in 1..Len(vs) : vs[k] = d

\* The documents of an editor hold values there are.
AllWritten(E, es) ==
    /\ Written(E.model, es) /\ Written(E.saved, es)
    /\ Written(E.save.source, es) /\ Written(E.save.base, es) /\ Written(E.save.sent, es)
    /\ \A i \in 1..Len(E.past) : Written(E.past[i], es)
    /\ \A i \in 1..Len(E.future) : Written(E.future[i], es)

\* A save is based on a version; what it does not send of its source is a version's.
SaveRests(s, vs) ==
    /\ s.step # "idle" => Stored(s.base, vs)
    /\ s.step = "sending" => s.at \in 1..Len(vs)
    /\ s.step \in {"sending", "stored"} => \A f \in Fields : s.sent[f] = s.source[f] \/ s.source[f] = s.base[f]
    /\ s.step = "stored" => Stored(s.sent, vs)

\* What a save may replace.
SaveOwns(e, s, vs, es) ==
    /\ s.step # "idle" => MayReplace(e, s.source, s.base, es)
    /\ s.step = "sending" => MayReplace(e, s.sent, vs[s.at], es)

\* What an editor may replace: its base; between what its histories and its save hold
\* stands only its own user's work.
Owns(e, E, vs, es) ==
    /\ MayReplace(e, E.model, E.saved, es)
    /\ \A i \in 1..Len(E.past) : Kin(e, E.past[i], E.model, es)
    /\ \A i \in 1..Len(E.future) : Kin(e, E.future[i], E.model, es)
    /\ E.save.step # "idle" => Kin(e, E.model, E.save.source, es)
    /\ SaveOwns(e, E.save, vs, es)

Sound(e, E, vs, es, rc) ==
    /\ AllWritten(E, es)
    /\ E.phase # "closed" => Stored(E.saved, vs)
    /\ SaveRests(E.save, vs)
    /\ ~rc => Owns(e, E, vs, es)

SoundCopy(e, c, es, rc) ==
    c # NoCopy => /\ Written(c.base, es) /\ Written(c.source, es)
                  /\ ~rc => MayReplace(e, c.source, c.base, es)

HInv ==
    /\ EInv
    /\ Lined(edits)
    /\ \A k \in 1..Len(versions) : Written(versions[k], edits)
    /\ \A e \in Editors : Sound(e, ed[e], versions, edits, raced) /\ SoundCopy(e, copy[e], edits, raced)

\* Further edits.
LEMMA SoundStill ==
    ASSUME NEW e, NEW E, NEW vs, NEW es, NEW rc, Sound(e, E, vs, es, rc), Lined(es),
           \A k \in 1..Len(vs) : Written(vs[k], es),
           NEW x \in Entry, x.under \in 0..Len(es)
    PROVE  Sound(e, E, vs, Append(es, x), rc)
<1> DEFINE fs == Append(es, x)
<1>1. \A d : Written(d, es) => Written(d, fs)
  BY WrittenStill DEF Lined
<1>2. \A c, d : Written(c, es) /\ Written(d, es) /\ MayReplace(e, c, d, es) => MayReplace(e, c, d, fs)
  BY ReplacesStill
<1>3. \A c, d : Written(c, es) /\ Written(d, es) /\ Kin(e, c, d, es) => Kin(e, c, d, fs)
  BY <1>2 DEF Kin
<1> HIDE DEF fs
<1>4. AllWritten(E, es) /\ AllWritten(E, fs)
  BY <1>1 DEF Sound, AllWritten
<1>5. ASSUME ~rc PROVE Owns(e, E, vs, fs)
  <2>1. Owns(e, E, vs, es)
    BY <1>5 DEF Sound
  <2>2. MayReplace(e, E.model, E.saved, fs)
    BY <1>2, <1>4, <2>1 DEF Owns, AllWritten
  <2>3. \A i \in 1..Len(E.past) : Kin(e, E.past[i], E.model, fs)
    BY <1>3, <1>4, <2>1 DEF Owns, AllWritten
  <2>4. \A i \in 1..Len(E.future) : Kin(e, E.future[i], E.model, fs)
    BY <1>3, <1>4, <2>1 DEF Owns, AllWritten
  <2>5. E.save.step # "idle" => Kin(e, E.model, E.save.source, fs)
    BY <1>3, <1>4, <2>1 DEF Owns, AllWritten
  <2>6. E.save.step # "idle" => MayReplace(e, E.save.source, E.save.base, fs)
    BY <1>2, <1>4, <2>1 DEF Owns, SaveOwns, AllWritten
  <2>7. E.save.step = "sending" => MayReplace(e, E.save.sent, vs[E.save.at], fs)
    BY <1>2, <1>4, <2>1 DEF Owns, SaveOwns, AllWritten, Sound, SaveRests
  <2> QED
    BY <2>2, <2>3, <2>4, <2>5, <2>6, <2>7 DEF Owns, SaveOwns
<1>6. Sound(e, E, vs, fs, rc)
  BY <1>4, <1>5 DEF Sound
<1> QED
  BY <1>6 DEF fs

LEMMA SoundCopyStill ==
    ASSUME NEW e, NEW c, NEW es, NEW rc, SoundCopy(e, c, es, rc), Lined(es),
           NEW x \in Entry, x.under \in 0..Len(es)
    PROVE  SoundCopy(e, c, Append(es, x), rc)
  BY WrittenStill, ReplacesStill DEF SoundCopy, Lined

\* Further versions.
LEMMA SoundThen ==
    ASSUME NEW e, NEW E, NEW vs \in Seq(Docs), NEW es, NEW rc, Sound(e, E, vs, es, rc), NEW d \in Docs
    PROVE  Sound(e, E, Append(vs, d), es, rc)
<1> DEFINE ws == Append(vs, d)
<1>1. /\ Len(vs) \in Nat /\ Len(ws) = Len(vs) + 1
      /\ \A k \in 1..Len(vs) : k \in 1..Len(ws) /\ ws[k] = vs[k]
  OBVIOUS
<1> HIDE DEF ws
<1>2. \A c : Stored(c, vs) => Stored(c, ws)
  BY <1>1 DEF Stored
<1>3. SaveRests(E.save, ws)
  BY <1>1, <1>2 DEF Sound, SaveRests
<1>4. Owns(e, E, vs, es) => Owns(e, E, ws, es)
  BY <1>1 DEF Owns, SaveOwns, Sound, SaveRests
<1>5. Sound(e, E, ws, es, rc)
  BY <1>2, <1>3, <1>4 DEF Sound
<1> QED
  BY <1>5 DEF ws

\* An editor that differs in numbers only.
LEMMA SoundNumbers ==
    ASSUME NEW e, NEW E, NEW F, NEW vs, NEW es, NEW rc, Sound(e, E, vs, es, rc),
           F.model = E.model, F.saved = E.saved, F.past = E.past, F.future = E.future,
           F.save = E.save, F.phase = E.phase
    PROVE  Sound(e, F, vs, es, rc)
<1>1. AllWritten(F, es) /\ SaveRests(F.save, vs)
  BY DEF Sound, AllWritten
<1>2. ~rc => Owns(e, F, vs, es)
  BY DEF Sound, Owns
<1> QED
  BY <1>1, <1>2 DEF Sound

\* An editor whose save, and perhaps whose base, is another one.
LEMMA SoundSave ==
    ASSUME NEW e, NEW E, NEW F, NEW vs, NEW es, NEW rc, Sound(e, E, vs, es, rc),
           F.model = E.model, F.past = E.past, F.future = E.future,
           Written(F.saved, es), F.phase # "closed" => Stored(F.saved, vs),
           Written(F.save.source, es), Written(F.save.base, es), Written(F.save.sent, es),
           SaveRests(F.save, vs),
           ~rc => /\ MayReplace(e, F.model, F.saved, es)
                  /\ SaveOwns(e, F.save, vs, es)
                  /\ F.save.step # "idle" => Kin(e, E.model, F.save.source, es)
    PROVE  Sound(e, F, vs, es, rc)
<1>1. AllWritten(F, es)
  BY DEF Sound, AllWritten
<1>2. ~rc => Owns(e, F, vs, es)
  BY DEF Sound, Owns
<1> QED
  BY <1>1, <1>2 DEF Sound

\* An editor that starts over from a document, with its histories emptied.
LEMMA SoundTaken ==
    ASSUME NEW e, NEW F, NEW vs, NEW es, NEW rc,
           Written(F.model, es), Written(F.saved, es), F.past = <<>>, F.future = <<>>,
           Written(F.save.source, es), Written(F.save.base, es), Written(F.save.sent, es),
           Stored(F.saved, vs), SaveRests(F.save, vs),
           ~rc => /\ MayReplace(e, F.model, F.saved, es)
                  /\ SaveOwns(e, F.save, vs, es)
                  /\ F.save.step # "idle" => Kin(e, F.model, F.save.source, es)
    PROVE  Sound(e, F, vs, es, rc)
<1>1. Len(F.past) = 0 /\ Len(F.future) = 0 /\ 1..0 = {}
  BY EmptySeq
<1>2. AllWritten(F, es)
  BY <1>1 DEF AllWritten
<1>3. ~rc => Owns(e, F, vs, es)
  BY <1>1 DEF Owns
<1> QED
  BY <1>2, <1>3 DEF Sound
LEMMA FreshIsWritten == ASSUME NEW es \in Seq(Entry) PROVE Written(Fresh, es)
<1>1. 0 \in 0..Len(es)
  OBVIOUS
<1> QED
  BY <1>1 DEF Written, Fresh

\* No save is nothing to account for.
LEMMA NoSaveIsSound ==
    ASSUME NEW e, NEW vs, NEW es \in Seq(Entry)
    PROVE  /\ Written(NoSave.source, es) /\ Written(NoSave.base, es) /\ Written(NoSave.sent, es)
           /\ NoSave.step = "idle" /\ SaveRests(NoSave, vs) /\ SaveOwns(e, NoSave, vs, es)
  BY FreshIsWritten DEF NoSave, SaveRests, SaveOwns

LEMMA HTypes ==
    ASSUME HInv, NEW e \in Editors
    PROVE  /\ Fine(e, ed[e], Len(versions), edits) /\ ed[e] \in Editor /\ ed[e].save \in Save
           /\ Len(versions) \in Nat /\ Len(versions) \in 1..Len(versions)
           /\ versions \in Seq(Docs) /\ edits \in Seq(Entry)
           /\ Sound(e, ed[e], versions, edits, raced) /\ SoundCopy(e, copy[e], edits, raced)
<1>1. Fine(e, ed[e], Len(versions), edits) /\ ed[e] \in Editor /\ Len(versions) \in Nat
  BY EditorIsFine DEF HInv
<1>2. ed[e].save \in Save
  BY <1>1 DEF Editor
<1> QED
  BY <1>1, <1>2 DEF HInv, EInv

\* A step of e that leaves the versions and the edits alone.
LEMMA QuietHStep ==
    ASSUME HInv, EInv', NEW e \in Editors, NEW E, ed' = [ed EXCEPT ![e] = E],
           NEW c, copy' = [copy EXCEPT ![e] = c],
           Sound(e, E, versions, edits, raced'), SoundCopy(e, c, edits, raced'),
           UNCHANGED <<versions, edits>>, raced => raced', raced' \in BOOLEAN
    PROVE  HInv'
<1>1. DOMAIN ed = Editors /\ DOMAIN copy = Editors
  BY DEF HInv, EInv
<1>2. ASSUME NEW x \in Editors, x # e
      PROVE  Sound(x, ed[x], versions, edits, raced') /\ SoundCopy(x, copy[x], edits, raced')
  BY DEF HInv, Sound, SoundCopy
<1>3. ASSUME NEW x \in Editors
      PROVE  Sound(x, ed'[x], versions', edits', raced') /\ SoundCopy(x, copy'[x], edits', raced')
  <2>1. CASE x = e
    BY <1>1, <2>1
  <2>2. CASE x # e
    BY <1>1, <1>2, <2>2
  <2> QED
    BY <2>1, <2>2
<1>4. Lined(edits') /\ \A k \in 1..Len(versions') : Written(versions'[k], edits')
  BY DEF HInv
<1> QED
  BY <1>3, <1>4 DEF HInv

\* The same, with the copy as it was.
LEMMA QuietEStep ==
    ASSUME HInv, EInv', NEW e \in Editors, NEW E, ed' = [ed EXCEPT ![e] = E],
           Sound(e, E, versions, edits, raced),
           UNCHANGED <<versions, edits, copy, raced>>
    PROVE  HInv'
<1>1. copy' = [copy EXCEPT ![e] = copy[e]]
  BY DEF HInv, EInv
<1>2. SoundCopy(e, copy[e], edits, raced) /\ raced \in BOOLEAN
  BY DEF HInv, EInv
<1> QED
  BY <1>1, <1>2, QuietHStep

LEMMA VersionsAreWritten ==
    ASSUME HInv, NEW k \in 1..Len(versions)
    PROVE  Written(versions[k], edits) /\ Stored(versions[k], versions) /\ versions[k] \in Docs
  BY ElementOfSeq DEF HInv, EInv, Stored

-----------------------------------------------------------------------------
(* The steps                                                               *)

LEMMA OpenSounds == ASSUME HInv, EInv', NEW e \in Editors, OpenDialog(e) PROVE HInv'
<1> DEFINE v == Len(versions)
           E == [Closed EXCEPT !.phase = "restoring", !.xml = v, !.model = Server,
                               !.saved = Server, !.latest = v, !.snapshot = v]
<1>1. E.model = Server /\ E.saved = Server /\ E.past = <<>> /\ E.future = <<>> /\ E.save = NoSave
  BY DEF Closed
<1>2. Written(Server, edits) /\ Stored(Server, versions) /\ edits \in Seq(Entry)
  BY HTypes, VersionsAreWritten DEF Server, Last
<1>3. ed' = [ed EXCEPT ![e] = E] /\ UNCHANGED <<versions, copy, edits, raced>>
  BY DEF OpenDialog
<1> HIDE DEF E
<1>4. Sound(e, E, versions, edits, raced)
  BY <1>1, <1>2, NoSaveIsSound, SameMayReplace, SoundTaken
<1> QED
  BY <1>3, <1>4, QuietEStep

LEMMA CloseSounds == ASSUME HInv, EInv', NEW e \in Editors, Close(e) \/ Crash(e) PROVE HInv'
<1>1. /\ Closed.model = Fresh /\ Closed.saved = Fresh /\ Closed.past = <<>> /\ Closed.future = <<>>
      /\ Closed.save = NoSave /\ Closed.phase = "closed"
  BY DEF Closed
<1>2. Written(Fresh, edits)
  BY HTypes, FreshIsWritten
<1>3. Len(<<>>) = 0 /\ 1..0 = {}
  BY EmptySeq
<1>4. AllWritten(Closed, edits) /\ SaveRests(Closed.save, versions)
  BY <1>1, <1>2, <1>3, HTypes, NoSaveIsSound DEF AllWritten
<1>5. Owns(e, Closed, versions, edits)
  BY <1>1, <1>3, HTypes, NoSaveIsSound, SameMayReplace DEF Owns
<1>6. Sound(e, Closed, versions, edits, raced)
  BY <1>1, <1>4, <1>5 DEF Sound
<1>7. ed' = [ed EXCEPT ![e] = Closed] /\ UNCHANGED <<versions, copy, edits, raced>>
  BY DEF Close, Crash
<1> QED
  BY <1>6, <1>7, QuietEStep

\* A copy that is merged into the version it was made for may replace it; merged into a
\* newer one, it sets raced.
LEMMA RestoreSounds == ASSUME HInv, EInv', NEW e \in Editors, Restore(e) PROVE HInv'
<1> DEFINE xml == versions[ed[e].xml]
           m   == RestoredModel(e)
           E   == [ed[e] EXCEPT !.phase = "ready", !.xml = 0, !.model = m]
<1>1. /\ ed[e] \in Editor /\ ed[e].past = <<>> /\ ed[e].future = <<>> /\ ed[e].save.step = "idle"
      /\ ed[e].phase = "restoring" /\ ed[e].xml \in 1..Len(versions)
  BY HTypes DEF Restore, Fine, Orderly, KnowsVersions
<1>2. /\ E.model = m /\ E.saved = ed[e].saved /\ E.past = <<>> /\ E.future = <<>>
      /\ E.save = ed[e].save
  BY <1>1 DEF Editor
<1>3. /\ ed' = [ed EXCEPT ![e] = E] /\ UNCHANGED <<versions, copy, edits>>
      /\ raced' = (raced \/ (m # ed[e].model /\ ed[e].saved # xml))
  BY DEF Restore
<1>4. Sound(e, ed[e], versions, edits, raced) /\ SoundCopy(e, copy[e], edits, raced)
  BY HTypes
<1>5. Written(xml, edits)
  BY <1>1, VersionsAreWritten
<1>6. \/ m = ed[e].model
      \/ /\ copy[e] # NoCopy /\ m = Merge(copy[e].base, copy[e].source, xml)
         /\ Merge(copy[e].base, copy[e].source, xml) # Conflict
  BY DEF RestoredModel
<1> HIDE DEF xml, m, E
<1>7. Written(m, edits)
  <2>1. CASE m = ed[e].model
    BY <1>4, <2>1 DEF Sound, AllWritten
  <2>2. CASE m # ed[e].model
    BY <1>4, <1>5, <1>6, <2>2, MergeIsWritten DEF SoundCopy
  <2> QED
    BY <2>1, <2>2
<1>8. ~raced' => ~raced /\ MayReplace(e, m, ed[e].saved, edits)
  <2> SUFFICES ASSUME ~raced' PROVE ~raced /\ MayReplace(e, m, ed[e].saved, edits)
    OBVIOUS
  <2>1. ~raced /\ (m = ed[e].model \/ ed[e].saved = xml)
    BY <1>3
  <2>2. CASE m = ed[e].model
    BY <1>4, <2>1, <2>2 DEF Sound, Owns
  <2>3. CASE m # ed[e].model
    <3>1. MayReplace(e, copy[e].source, copy[e].base, edits)
      BY <1>4, <1>6, <2>1, <2>3 DEF SoundCopy
    <3> QED
      BY <1>6, <2>1, <2>3, <3>1, MergeMayReplace
  <2> QED
    BY <2>1, <2>2, <2>3
<1>9. /\ Written(ed[e].saved, edits) /\ Stored(ed[e].saved, versions)
      /\ Written(ed[e].save.source, edits) /\ Written(ed[e].save.base, edits)
      /\ Written(ed[e].save.sent, edits) /\ SaveRests(ed[e].save, versions)
      /\ ~raced => SaveOwns(e, ed[e].save, versions, edits)
  BY <1>1, <1>4 DEF Sound, AllWritten, Owns
<1>10. Sound(e, E, versions, edits, raced')
  BY <1>1, <1>2, <1>7, <1>8, <1>9, SoundTaken
<1>11. SoundCopy(e, copy[e], edits, raced') /\ raced' \in BOOLEAN /\ (raced => raced')
  BY <1>3, <1>4 DEF SoundCopy, HInv, EInv
<1>12. copy' = [copy EXCEPT ![e] = copy[e]]
  BY <1>3 DEF HInv, EInv
<1> QED
  BY <1>3, <1>10, <1>11, <1>12, QuietHStep

LEMMA EditSounds == ASSUME HInv, EInv', NEW e \in Editors, NEW f \in Fields, Edit(e, f) PROVE HInv'
<1> DEFINE c == ed[e].model
           x == [by |-> e, under |-> c[f]]
           d == [c EXCEPT ![f] = Len(edits) + 1]
           p == Append(ed[e].past, c)
           E == [ed[e] EXCEPT !.model = d, !.past = p, !.future = <<>>]
           fs == Append(edits, x)
<1>1. /\ ed[e] \in Editor /\ c \in Docs /\ ed[e].past \in Seq(Docs) /\ Lined(edits)
      /\ edits \in Seq(Entry) /\ Written(c, edits)
  BY HTypes DEF Editor, HInv, Sound, AllWritten
<1>2. x \in Entry /\ x.by = e /\ x.under = c[f] /\ x.under \in 0..Len(edits)
  BY <1>1 DEF Entry, Docs, Written
<1>3. edits' = fs /\ ed' = [ed EXCEPT ![e] = E] /\ UNCHANGED <<versions, copy, raced>>
  BY DEF Edit
<1>4. Written(d, fs) /\ Kin(e, c, d, fs)
  BY <1>1, <1>2, EditIsKin
<1>5. /\ E.model = d /\ E.saved = ed[e].saved /\ E.past = p /\ E.future = <<>>
      /\ E.save = ed[e].save /\ E.phase = ed[e].phase
  BY <1>1 DEF Editor
<1>6. /\ Len(p) = Len(ed[e].past) + 1 /\ p[Len(p)] = c
      /\ \A i \in 1..Len(p) : i = Len(p) \/ (i \in 1..Len(ed[e].past) /\ p[i] = ed[e].past[i])
  BY <1>1
<1> HIDE DEF c, x, d, p
<1>7. Lined(fs)
  BY <1>1, <1>2, LinesGrow
<1>8. \A y \in Editors : Sound(y, ed[y], versions, fs, raced) /\ SoundCopy(y, copy[y], fs, raced)
  BY <1>1, <1>2, SoundStill, SoundCopyStill DEF HInv
<1>9. \A k \in 1..Len(versions) : Written(versions[k], fs)
  BY <1>1, <1>2, WrittenStill DEF HInv
<1> HIDE DEF E, fs
<1>10. Sound(e, ed[e], versions, fs, raced)
  BY <1>8
<1>11. AllWritten(E, fs)
  <2>1. Written(E.model, fs)
    BY <1>4, <1>5
  <2>2. /\ Written(E.saved, fs) /\ Written(E.save.source, fs) /\ Written(E.save.base, fs)
        /\ Written(E.save.sent, fs)
    BY <1>5, <1>10 DEF Sound, AllWritten
  <2>3. \A i \in 1..Len(E.past) : Written(E.past[i], fs)
    BY <1>5, <1>6, <1>10 DEF Sound, AllWritten, c
  <2>4. \A i \in 1..Len(E.future) : Written(E.future[i], fs)
    BY <1>5, EmptySeq
  <2> QED
    BY <2>1, <2>2, <2>3, <2>4 DEF AllWritten
<1>12. ASSUME ~raced PROVE Owns(e, E, versions, fs)
  <2>1. Owns(e, ed[e], versions, fs)
    BY <1>10, <1>12 DEF Sound
  <2>2. MayReplace(e, E.model, E.saved, fs)
    BY <1>4, <1>5, <2>1, ReplacesInTurn DEF Owns, Kin, c
  <2>3. ASSUME NEW i \in 1..Len(E.past) PROVE Kin(e, E.past[i], E.model, fs)
    <3>1. E.past[i] = c \/ (i \in 1..Len(ed[e].past) /\ E.past[i] = ed[e].past[i])
      BY <1>5, <1>6, <2>3
    <3>2. Kin(e, E.past[i], c, fs)
      BY <2>1, <3>1, SameMayReplace DEF Owns, c
    <3> QED
      BY <1>4, <1>5, <3>2, ReplacesInTurn DEF Kin
  <2>4. \A i \in 1..Len(E.future) : Kin(e, E.future[i], E.model, fs)
    BY <1>5, EmptySeq
  <2>5. E.save.step # "idle" => Kin(e, E.model, E.save.source, fs)
    BY <1>4, <1>5, <2>1, ReplacesInTurn DEF Owns, Kin, c
  <2>6. SaveOwns(e, E.save, versions, fs)
    BY <1>5, <2>1 DEF Owns
  <2> QED
    BY <2>2, <2>3, <2>4, <2>5, <2>6 DEF Owns
<1>13. Sound(e, E, versions, fs, raced)
  BY <1>5, <1>10, <1>11, <1>12 DEF Sound
<1>14. \A y \in Editors : Sound(y, ed'[y], versions', edits', raced') /\ SoundCopy(y, copy'[y], edits', raced')
  BY <1>3, <1>8, <1>13 DEF HInv, EInv
<1> QED
  BY <1>3, <1>7, <1>9, <1>14 DEF HInv
\* A history of written documents between which and d stands only e's work.
OwnPath(e, s, d, es, rc) ==
    \A i \in 1..Len(s) : Written(s[i], es) /\ (~rc => Kin(e, s[i], d, es))

\* Two histories with the document m between them.
OwnPaths(e, p, q, m, es, rc) ==
    /\ p \in Seq(Docs) /\ q \in Seq(Docs) /\ m \in Docs /\ Written(m, es)
    /\ OwnPath(e, p, m, es, rc) /\ OwnPath(e, q, m, es, rc)

LEMMA WalkPaths ==
    ASSUME NEW e, NEW p, NEW q, NEW m, NEW es, NEW rc, OwnPaths(e, p, q, m, es, rc), p # <<>>
    PROVE  /\ OwnPaths(e, Front(p), Append(q, m), Last(p), es, rc)
           /\ ~rc => Kin(e, Last(p), m, es)
<1> USE DEF OwnPaths
<1>1. /\ Len(p) \in 1..Len(p) /\ Last(p) = p[Len(p)] /\ Len(Front(p)) = Len(p) - 1
      /\ Front(p) \in Seq(Docs) /\ Last(p) \in Docs
      /\ \A i \in 1..(Len(p) - 1) : Front(p)[i] = p[i]
  BY FrontAndLast
<1>2. Written(Last(p), es) /\ (~rc => Kin(e, Last(p), m, es))
  BY <1>1 DEF OwnPath
<1>3. ASSUME NEW c, Kin(e, c, m, es), ~rc PROVE Kin(e, c, Last(p), es)
  BY <1>2, <1>3, ReplacesInTurn DEF Kin
<1>4. \A i \in 1..Len(Front(p)) : i \in 1..Len(p) /\ Front(p)[i] = p[i]
  BY <1>1
<1>5. OwnPath(e, Front(p), Last(p), es, rc)
  BY <1>3, <1>4 DEF OwnPath
<1>6. /\ Len(Append(q, m)) = Len(q) + 1
      /\ \A i \in 1..Len(Append(q, m)) : Append(q, m)[i] = m \/ (i \in 1..Len(q) /\ Append(q, m)[i] = q[i])
  OBVIOUS
<1>7. ASSUME NEW i \in 1..Len(Append(q, m))
      PROVE  Written(Append(q, m)[i], es) /\ (~rc => Kin(e, Append(q, m)[i], Last(p), es))
  <2>1. Written(Append(q, m)[i], es) /\ (~rc => Kin(e, Append(q, m)[i], m, es))
    BY <1>6, <1>7, SameMayReplace DEF OwnPath
  <2> QED
    BY <1>3, <2>1
<1>8. OwnPath(e, Append(q, m), Last(p), es, rc)
  BY <1>7 DEF OwnPath
<1> QED
  BY <1>1, <1>2, <1>5, <1>8

LEMMA WalkSounds == ASSUME HInv, EInv', NEW e \in Editors, Undo(e) \/ Redo(e) PROVE HInv'
<1> DEFINE m == ed[e].model
<1>1. /\ ed[e] \in Editor /\ m \in Docs /\ ed[e].past \in Seq(Docs) /\ ed[e].future \in Seq(Docs)
      /\ ed[e].save.step = "idle" /\ Sound(e, ed[e], versions, edits, raced)
  BY HTypes DEF Editor, Undo, Redo
<1>2. /\ OwnPath(e, ed[e].past, m, edits, raced) /\ OwnPath(e, ed[e].future, m, edits, raced)
      /\ Written(m, edits)
  BY <1>1 DEF Sound, AllWritten, Owns, OwnPath
<1>3. ASSUME NEW E \in Editor, E.saved = ed[e].saved, E.save = ed[e].save, E.phase = ed[e].phase,
             OwnPath(e, E.past, E.model, edits, raced), OwnPath(e, E.future, E.model, edits, raced),
             Written(E.model, edits), ~raced => Kin(e, E.model, m, edits)
      PROVE  Sound(e, E, versions, edits, raced)
  <2>1. AllWritten(E, edits)
    BY <1>1, <1>3 DEF Sound, AllWritten, OwnPath
  <2>2. ASSUME ~raced PROVE Owns(e, E, versions, edits)
    <3>1. MayReplace(e, E.model, E.saved, edits)
      BY <1>1, <1>3, <2>2, ReplacesInTurn DEF Sound, Owns, Kin, m
    <3> QED
      BY <1>1, <1>3, <2>2, <3>1 DEF Sound, Owns, OwnPath
  <2> QED
    BY <1>1, <1>3, <2>1, <2>2 DEF Sound
<1>4. CASE Undo(e)
  <2> DEFINE p == Front(ed[e].past)
             d == Last(ed[e].past)
             q == Append(ed[e].future, m)
             E == [ed[e] EXCEPT !.past = p, !.future = q, !.model = d]
  <2>1. /\ OwnPath(e, p, d, edits, raced) /\ OwnPath(e, q, d, edits, raced)
        /\ Written(d, edits) /\ (~raced => Kin(e, d, m, edits))
    <3>1. ed[e].past # <<>>
      BY <1>4 DEF Undo
    <3>2. OwnPaths(e, ed[e].past, ed[e].future, m, edits, raced)
      BY <1>1, <1>2 DEF OwnPaths
    <3>3. OwnPaths(e, Front(ed[e].past), Append(ed[e].future, m), Last(ed[e].past), edits, raced)
          /\ (~raced => Kin(e, Last(ed[e].past), m, edits))
      BY <3>1, <3>2, WalkPaths
    <3> QED
      BY <3>3 DEF OwnPaths
  <2>2. ed' = [ed EXCEPT ![e] = E] /\ UNCHANGED <<versions, edits, copy, raced>>
    BY <1>4 DEF Undo, m
  <2>3. E \in Editor
    <3>1. ed'[e] = E /\ ed'[e] \in Editor
      BY <2>2 DEF HInv, EInv, Fine
    <3> QED
      BY <3>1
  <2> HIDE DEF p, d, q
  <2>4. /\ E.saved = ed[e].saved /\ E.save = ed[e].save /\ E.phase = ed[e].phase
        /\ E.past = p /\ E.future = q /\ E.model = d
    BY <1>1 DEF Editor
  <2> HIDE DEF E
  <2>5. Sound(e, E, versions, edits, raced)
    BY <1>3, <2>1, <2>3, <2>4
  <2> QED
    BY <2>2, <2>5, QuietEStep
<1>5. CASE Redo(e)
  <2> DEFINE q == Front(ed[e].future)
             d == Last(ed[e].future)
             p == Append(ed[e].past, m)
             E == [ed[e] EXCEPT !.future = q, !.past = p, !.model = d]
  <2>1. /\ OwnPath(e, q, d, edits, raced) /\ OwnPath(e, p, d, edits, raced)
        /\ Written(d, edits) /\ (~raced => Kin(e, d, m, edits))
    <3>1. ed[e].future # <<>>
      BY <1>5 DEF Redo
    <3>2. OwnPaths(e, ed[e].future, ed[e].past, m, edits, raced)
      BY <1>1, <1>2 DEF OwnPaths
    <3>3. OwnPaths(e, Front(ed[e].future), Append(ed[e].past, m), Last(ed[e].future), edits, raced)
          /\ (~raced => Kin(e, Last(ed[e].future), m, edits))
      BY <3>1, <3>2, WalkPaths
    <3> QED
      BY <3>3 DEF OwnPaths
  <2>2. ed' = [ed EXCEPT ![e] = E] /\ UNCHANGED <<versions, edits, copy, raced>>
    BY <1>5 DEF Redo, m
  <2>3. E \in Editor
    <3>1. ed'[e] = E /\ ed'[e] \in Editor
      BY <2>2 DEF HInv, EInv, Fine
    <3> QED
      BY <3>1
  <2> HIDE DEF p, d, q
  <2>4. /\ E.saved = ed[e].saved /\ E.save = ed[e].save /\ E.phase = ed[e].phase
        /\ E.past = p /\ E.future = q /\ E.model = d
    BY <1>1 DEF Editor
  <2> HIDE DEF E
  <2>5. Sound(e, E, versions, edits, raced)
    BY <1>3, <2>1, <2>3, <2>4
  <2> QED
    BY <2>2, <2>5, QuietEStep
<1> QED
  BY <1>4, <1>5

\* A copy of the model and its base is as sound as the editor.
LEMMA CopySounds ==
    ASSUME HInv, NEW e \in Editors
    PROVE  SoundCopy(e, [base |-> ed[e].saved, source |-> ed[e].model], edits, raced)
  BY HTypes DEF Sound, AllWritten, Owns, SoundCopy

LEMMA KeepCopySounds == ASSUME HInv, EInv', NEW e \in Editors, KeepCopy(e) PROVE HInv'
<1>1. ed' = [ed EXCEPT ![e] = ed[e]] /\ UNCHANGED <<versions, edits, raced>> /\ raced' \in BOOLEAN
  BY DEF KeepCopy, HInv, EInv
<1>2. copy' = [copy EXCEPT ![e] = [base |-> ed[e].saved, source |-> ed[e].model]]
  BY DEF KeepCopy
<1> QED
  BY <1>1, <1>2, HTypes, CopySounds, QuietHStep

\* The next turn of a save rests on the model and the base it starts from.
LEMMA TurnIsSound ==
    ASSUME NEW e, NEW E \in Editor, NEW vs, NEW es \in Seq(Entry), NEW rc,
           Written(E.model, es), Written(E.saved, es), Stored(E.saved, vs),
           OwnPath(e, E.past, E.model, es, rc), OwnPath(e, E.future, E.model, es, rc),
           ~rc => MayReplace(e, E.model, E.saved, es)
    PROVE  Sound(e, Turn(E), vs, es, rc)
<1> DEFINE s == [NoSave EXCEPT !.step = "validating", !.source = E.model, !.base = E.saved]
           F == [E EXCEPT !.save = s]
<1>1. s.step = "validating" /\ s.source = E.model /\ s.base = E.saved /\ s.sent = Fresh
  BY DEF NoSave
<1> HIDE DEF s
<1>2. /\ F.model = E.model /\ F.saved = E.saved /\ F.past = E.past /\ F.future = E.future
      /\ F.save = s
  BY DEF Editor
<1> HIDE DEF F
<1>3. AllWritten(F, es)
  BY <1>1, <1>2, FreshIsWritten DEF AllWritten, OwnPath
<1>4. SaveRests(F.save, vs)
  BY <1>1, <1>2 DEF SaveRests
<1>5. ~rc => Owns(e, F, vs, es)
  BY <1>1, <1>2, SameMayReplace DEF Owns, SaveOwns, OwnPath
<1>6. Sound(e, F, vs, es, rc)
  BY <1>2, <1>3, <1>4, <1>5 DEF Sound
<1> QED
  BY <1>6 DEF F, s, Turn

LEMMA StartSaveSounds == ASSUME HInv, EInv', NEW e \in Editors, StartSave(e) PROVE HInv'
<1>1. /\ ed' = [ed EXCEPT ![e] = Turn(ed[e])] /\ UNCHANGED <<versions, edits, raced>>
      /\ raced' \in BOOLEAN /\ ed[e].phase = "ready"
      /\ copy' = [copy EXCEPT ![e] = [base |-> ed[e].saved, source |-> ed[e].model]]
  BY DEF StartSave, Unsaved, HInv, EInv
<1>2. ed[e] \in Editor /\ edits \in Seq(Entry) /\ Sound(e, ed[e], versions, edits, raced)
  BY HTypes
<1>3. Sound(e, Turn(ed[e]), versions, edits, raced)
  <2>1. OwnPath(e, ed[e].past, ed[e].model, edits, raced) /\ OwnPath(e, ed[e].future, ed[e].model, edits, raced)
    BY <1>2 DEF Sound, AllWritten, Owns, OwnPath
  <2>2. /\ Written(ed[e].model, edits) /\ Written(ed[e].saved, edits) /\ Stored(ed[e].saved, versions)
        /\ ~raced => MayReplace(e, ed[e].model, ed[e].saved, edits)
    BY <1>1, <1>2 DEF Sound, AllWritten, Owns
  <2> QED
    BY <1>2, <2>1, <2>2, TurnIsSound
<1> QED
  BY <1>1, <1>3, CopySounds, QuietHStep
-----------------------------------------------------------------------------
(* The end of a save                                                       *)

LEMMA GiveUpSounds ==
    ASSUME HInv, EInv', NEW e \in Editors, NEW E, GiveUp(e, E),
           E \in Editor, Sound(e, E, versions, edits, raced), UNCHANGED <<versions, edits, raced>>
    PROVE  HInv'
<1> DEFINE F == [E EXCEPT !.save = NoSave]
<1>1. edits \in Seq(Entry)
  BY HTypes
<1>2. /\ F.model = E.model /\ F.saved = E.saved /\ F.past = E.past
      /\ F.future = E.future /\ F.phase = E.phase /\ F.save = NoSave
  BY DEF Editor
<1>3. ed' = [ed EXCEPT ![e] = F] /\ UNCHANGED copy
  BY DEF GiveUp
<1> HIDE DEF F
<1>4. Sound(e, F, versions, edits, raced)
  <2>1. /\ Written(F.saved, edits) /\ (F.phase # "closed" => Stored(F.saved, versions))
        /\ ~raced => MayReplace(e, F.model, F.saved, edits)
    BY <1>1, <1>2 DEF Sound, AllWritten, Owns
  <2> QED
    BY <1>1, <1>2, <2>1, NoSaveIsSound, SoundSave
<1> QED
  BY <1>3, <1>4, QuietEStep

\* A copy is replaced or deleted at the end of a turn only when each change it holds,
\* and the editor still shows, is in the next copy or in a version.
LEMMA TakeStoredSounds ==
    ASSUME HInv, EInv', NEW e \in Editors, NEW E, NEW d, TakeStored(e, E, d),
           E \in Editor, E.phase = "ready", E.save.step # "idle",
           Sound(e, E, versions, edits, raced), Written(d, edits), Stored(d, versions), d \in Docs,
           \A f \in Fields : d[f] = E.save.source[f] \/ E.save.source[f] = E.save.base[f],
           UNCHANGED <<versions, edits, raced>>
    PROVE  /\ HInv'
           /\ \A x \in Editors : x # e => copy'[x] = copy[x]
           /\ copy[e] # NoCopy => \A f \in Fields :
                 \/ copy[e].source[f] # E.model[f]
                 \/ copy'[e] # NoCopy /\ copy'[e].source[f] = copy[e].source[f]
                 \/ \E k \in 1..Len(versions) : versions[k][f] = copy[e].source[f]
<1> DEFINE src    == E.save.source
           merged == Merge(src, E.model, d)
           taken  == IF merged = E.model THEN [E EXCEPT !.saved = d]
                     ELSE [E EXCEPT !.saved = d, !.model = merged, !.past = <<>>, !.future = <<>>]
<1>1. /\ AllWritten(E, edits) /\ Stored(E.save.base, versions) /\ edits \in Seq(Entry)
      /\ ~raced => Kin(e, E.model, src, edits)
  BY HTypes DEF Sound, SaveRests, Owns
<1>2. raced \in BOOLEAN /\ DOMAIN copy = Editors
  BY DEF HInv, EInv
<1>3. CASE merged = Conflict /\ GiveUp(e, E)
  <2> HIDE DEF merged
  <2>1. HInv' /\ UNCHANGED copy
    BY <1>3, GiveUpSounds DEF GiveUp
  <2> QED
    BY <2>1
<1>4. ASSUME merged # Conflict
      PROVE  /\ Written(merged, edits) /\ (~raced => MayReplace(e, merged, d, edits))
             /\ \A f \in Fields : \/ merged[f] = E.model[f]
                                  \/ E.model[f] = src[f] /\ merged[f] = d[f]
  <2>1. Written(merged, edits)
    BY <1>1, <1>4, MergeIsWritten DEF AllWritten
  <2>2. ~raced => MayReplace(e, merged, d, edits)
    BY <1>1, <1>4, MergeMayReplace DEF Kin
  <2>3. \A f \in Fields : merged[f] = E.model[f] \/ (E.model[f] = src[f] /\ merged[f] = d[f])
    BY <1>4, MergeCases
  <2> QED
    BY <2>1, <2>2, <2>3
<1>5. ASSUME merged # Conflict
      PROVE  /\ taken \in Editor /\ taken.phase = "ready" /\ taken.model = merged /\ taken.saved = d
             /\ OwnPath(e, taken.past, merged, edits, raced)
             /\ OwnPath(e, taken.future, merged, edits, raced)
  <2>1. CASE merged = E.model
    <3>1. taken = [E EXCEPT !.saved = d]
      BY <2>1
    <3>2. /\ taken \in Editor /\ taken.phase = "ready" /\ taken.model = merged /\ taken.saved = d
          /\ taken.past = E.past /\ taken.future = E.future
      BY <2>1, <3>1 DEF Editor
    <3>3. OwnPath(e, E.past, E.model, edits, raced) /\ OwnPath(e, E.future, E.model, edits, raced)
      BY DEF Sound, AllWritten, Owns, OwnPath
    <3> HIDE DEF taken
    <3> QED
      BY <2>1, <3>2, <3>3
  <2>2. CASE merged # E.model
    <3>1. taken = [E EXCEPT !.saved = d, !.model = merged, !.past = <<>>, !.future = <<>>]
      BY <2>2
    <3>2. merged \in Docs
      BY <1>5, MergeTypes DEF Editor, Save
    <3> HIDE DEF merged
    <3>3. /\ taken \in Editor /\ taken.phase = "ready" /\ taken.model = merged /\ taken.saved = d
          /\ taken.past = <<>> /\ taken.future = <<>>
      BY <3>1, <3>2, EmptySeq DEF Editor
    <3>4. OwnPath(e, <<>>, merged, edits, raced)
      BY EmptySeq DEF OwnPath
    <3> QED
      BY <3>3, <3>4
  <2> QED
    BY <2>1, <2>2
<1> HIDE DEF taken
\* What the copy and the model share, and the merge does not show, came with a version.
<1>6. ASSUME merged # Conflict, copy[e] # NoCopy, NEW f \in Fields,
             copy[e].source[f] = E.model[f], merged[f] # copy[e].source[f]
      PROVE  \E k \in 1..Len(versions) : versions[k][f] = copy[e].source[f]
  <2>1. E.model[f] = src[f] /\ merged[f] = d[f]
    BY <1>4, <1>6
  <2>2. src[f] = E.save.base[f]
    BY <1>6, <2>1
  <2> QED
    BY <1>1, <1>6, <2>1, <2>2 DEF Stored
<1>7. CASE /\ merged = d
           /\ ed'   = [ed EXCEPT ![e] = [taken EXCEPT !.save = NoSave]]
           /\ copy' = [copy EXCEPT ![e] = NoCopy]
  <2> DEFINE F == [taken EXCEPT !.save = NoSave]
  <2>1. merged # Conflict
    BY <1>7, EditingAssumption
  <2>2. /\ F.model = merged /\ F.saved = d /\ F.past = taken.past /\ F.future = taken.future
        /\ F.save = NoSave /\ F.phase = "ready"
    BY <1>5, <2>1 DEF Editor
  <2> HIDE DEF F
  <2>3. AllWritten(F, edits)
    BY <1>1, <1>4, <1>5, <2>1, <2>2, NoSaveIsSound DEF AllWritten, OwnPath
  <2>4. ~raced => Owns(e, F, versions, edits)
    BY <1>1, <1>4, <1>5, <2>1, <2>2, NoSaveIsSound DEF Owns, OwnPath
  <2>5. Sound(e, F, versions, edits, raced)
    BY <1>1, <2>2, <2>3, <2>4, NoSaveIsSound DEF Sound
  <2>6. SoundCopy(e, NoCopy, edits, raced)
    BY DEF SoundCopy
  <2>7. HInv'
    BY <1>2, <1>7, <2>5, <2>6, QuietHStep DEF F
  <2>8. ASSUME copy[e] # NoCopy, NEW f \in Fields, copy[e].source[f] = E.model[f]
        PROVE  \E k \in 1..Len(versions) : versions[k][f] = copy[e].source[f]
    <3>1. CASE merged[f] # copy[e].source[f]
      BY <1>6, <2>1, <2>8, <3>1
    <3>2. CASE merged[f] = copy[e].source[f]
      BY <1>7, <3>2 DEF Stored
    <3> QED
      BY <3>1, <3>2
  <2> QED
    BY <1>2, <1>7, <2>7, <2>8
<1>8. CASE /\ merged \notin {Conflict, d}
           /\ ed'   = [ed EXCEPT ![e] = Turn(taken)]
           /\ copy' = [copy EXCEPT ![e] = [base |-> d, source |-> merged]]
  <2>1. merged # Conflict
    BY <1>8
  <2>2. merged \in Docs
    BY <2>1, MergeTypes DEF Editor, Save
  <2> HIDE DEF merged
  <2>3. Sound(e, Turn(taken), versions, edits, raced)
    BY <1>1, <1>4, <1>5, <2>1, TurnIsSound
  <2> DEFINE c == [base |-> d, source |-> merged]
  <2>4. SoundCopy(e, c, edits, raced)
    BY <1>4, <2>1 DEF SoundCopy
  <2>5. c # NoCopy /\ c.source = merged
    <3>1. c \in [base : Docs, source : Docs]
      BY <2>2
    <3> QED
      BY <3>1, EditingAssumption
  <2>6. copy' = [copy EXCEPT ![e] = c]
    BY <1>8
  <2> HIDE DEF c
  <2>7. HInv'
    BY <1>2, <1>8, <2>3, <2>4, <2>6, QuietHStep
  <2>8. copy'[e] = c /\ \A x \in Editors : x # e => copy'[x] = copy[x]
    BY <1>2, <2>6
  <2> QED
    BY <1>6, <2>1, <2>5, <2>7, <2>8
<1> QED
  BY <1>3, <1>7, <1>8 DEF TakeStored, taken
\* A copied change that e still shows stays in the copy or is in a version.
ChangesAreKept(e) ==
    copy[e] # NoCopy => \A f \in Fields :
        \/ copy[e].source[f] # ed[e].model[f]
        \/ copy'[e] # NoCopy /\ copy'[e].source[f] = copy[e].source[f]
        \/ \E k \in 1..Len(versions) : versions[k][f] = copy[e].source[f]

LEMMA UnchangedCopies == UNCHANGED copy => \A x \in Editors : ChangesAreKept(x)
  BY DEF ChangesAreKept

LEMMA CopiedChanges ==
    ASSUME HInv, NEW e \in Editors,
           copy' = [copy EXCEPT ![e] = [base |-> ed[e].saved, source |-> ed[e].model]]
    PROVE  \A x \in Editors : ChangesAreKept(x)
<1> DEFINE c == [base |-> ed[e].saved, source |-> ed[e].model]
<1>1. ed[e].saved \in Docs /\ ed[e].model \in Docs /\ DOMAIN copy = Editors
  BY HTypes DEF Editor, HInv, EInv
<1>2. c \in [base : Docs, source : Docs] /\ c.source = ed[e].model
  BY <1>1
<1>3. c # NoCopy
  BY <1>2, EditingAssumption
<1>4. copy'[e] = c /\ \A x \in Editors : x # e => copy'[x] = copy[x]
  BY <1>1
<1> HIDE DEF c
<1> QED
  BY <1>2, <1>3, <1>4 DEF ChangesAreKept

LEMMA SendSounds ==
    ASSUME HInv, EInv', NEW e \in Editors, Send(e) PROVE HInv' /\ \A x \in Editors : ChangesAreKept(x)
<1> DEFINE save    == ed[e].save
           current == versions[ed[e].latest]
           merged  == Merge(save.base, save.source, current)
<1>1. /\ Fine(e, ed[e], Len(versions), edits) /\ ed[e] \in Editor /\ Len(versions) \in Nat
      /\ save.step = "validating" /\ save \in Save /\ Sound(e, ed[e], versions, edits, raced)
      /\ edits \in Seq(Entry)
  BY HTypes DEF Send
<1>2. ed[e].phase = "ready" /\ ed[e].latest \in 1..Len(versions) /\ ed[e].latest \in Nat
  BY <1>1 DEF Fine, Orderly, KnowsVersions, Editor
<1>3. current \in Docs /\ Written(current, edits) /\ Stored(current, versions)
  BY <1>2, VersionsAreWritten
<1>4. UNCHANGED <<versions, edits, raced>>
  BY DEF Send
<1>5. /\ Written(save.base, edits) /\ Written(save.source, edits) /\ Stored(save.base, versions)
      /\ ~raced => /\ MayReplace(e, save.source, save.base, edits)
                   /\ Kin(e, ed[e].model, save.source, edits)
  BY <1>1 DEF Sound, AllWritten, SaveRests, Owns, SaveOwns
<1>6. ASSUME merged # Conflict, NEW f \in Fields
      PROVE  merged[f] = save.source[f] \/ save.source[f] = save.base[f]
  BY <1>6, MergeCases
<1>7. CASE merged = Conflict /\ GiveUp(e, ed[e])
  <2>1. UNCHANGED copy
    BY <1>7 DEF GiveUp
  <2> QED
    BY <1>1, <1>4, <1>7, <2>1, GiveUpSounds, UnchangedCopies
<1>8. CASE merged = current /\ TakeStored(e, ed[e], merged)
  <2>1. TakeStored(e, ed[e], current) /\ merged # Conflict
    BY <1>3, <1>8, EditingAssumption
  <2>2. \A f \in Fields : current[f] = save.source[f] \/ save.source[f] = save.base[f]
    BY <1>6, <1>8, <2>1
  <2>3. save.step # "idle"
    BY <1>1
  <2> HIDE DEF current
  <2>4. /\ HInv'
        /\ \A x \in Editors : x # e => copy'[x] = copy[x]
        /\ copy[e] # NoCopy => \A f \in Fields :
              \/ copy[e].source[f] # ed[e].model[f]
              \/ copy'[e] # NoCopy /\ copy'[e].source[f] = copy[e].source[f]
              \/ \E k \in 1..Len(versions) : versions[k][f] = copy[e].source[f]
    BY <1>1, <1>2, <1>3, <1>4, <2>1, <2>2, <2>3, TakeStoredSounds
  <2> QED
    BY <2>4 DEF ChangesAreKept
<1>9. CASE /\ merged \notin {Conflict, current}
           /\ ed' = [ed EXCEPT ![e].save.step = "sending", ![e].save.sent = merged,
                               ![e].save.at = ed[e].latest]
           /\ UNCHANGED copy
  <2> DEFINE s == [ed[e].save EXCEPT !.step = "sending", !.sent = merged, !.at = ed[e].latest]
             F == [ed[e] EXCEPT !.save = s]
  <2>1. merged # Conflict /\ Written(merged, edits)
    BY <1>3, <1>5, <1>9, MergeIsWritten
  <2>2. ~raced => MayReplace(e, merged, current, edits)
    BY <1>5, <2>1, MergeMayReplace
  <2>3. ed' = [ed EXCEPT ![e] = F]
    <3>1. DOMAIN ed = Editors
      BY DEF HInv, EInv
    <3> HIDE DEF merged
    <3> QED
      BY ONLY <1>1, <1>9, <3>1, e \in Editors DEF Editor, Save
  <2>4. \A f \in Fields : merged[f] = save.source[f] \/ save.source[f] = save.base[f]
    BY <1>6, <2>1
  <2> HIDE DEF merged
  <2>5. /\ s.step = "sending" /\ s.sent = merged /\ s.at = ed[e].latest
        /\ s.source = ed[e].save.source /\ s.base = ed[e].save.base
    BY <1>1 DEF Save
  <2> HIDE DEF s
  <2>6. /\ F.model = ed[e].model /\ F.saved = ed[e].saved /\ F.past = ed[e].past
        /\ F.future = ed[e].future /\ F.phase = ed[e].phase /\ F.save = s
    BY <1>1 DEF Editor
  <2> HIDE DEF F
  <2>7. SaveRests(s, versions)
    BY <1>2, <1>5, <2>4, <2>5 DEF SaveRests
  <2>8. ~raced => SaveOwns(e, s, versions, edits)
    BY <1>5, <2>2, <2>5 DEF SaveOwns
  <2>9. /\ Written(F.saved, edits) /\ Stored(F.saved, versions)
        /\ ~raced => MayReplace(e, F.model, F.saved, edits)
    BY <1>1, <1>2, <2>6 DEF Sound, AllWritten, Owns
  <2>10. Sound(e, F, versions, edits, raced)
    BY <1>1, <1>5, <2>1, <2>5, <2>6, <2>7, <2>8, <2>9, SoundSave
  <2> QED
    BY <1>4, <1>9, <2>3, <2>10, QuietEStep, UnchangedCopies
<1> QED
  BY <1>7, <1>8, <1>9 DEF Send

\* A save that is served, or lost on the way there or back.
LEMMA StoreSounds ==
    ASSUME HInv, EInv', NEW e \in Editors, ed[e].save.step = "sending",
           Store(e) \/ UNCHANGED <<versions, by>>, NEW s \in Save,
           s.source = ed[e].save.source, s.base = ed[e].save.base, s.sent = ed[e].save.sent,
           s.step \in {"stored", "refused", "failed"},
           s.step = "stored" => Stored(s.sent, versions'),
           ed' = [ed EXCEPT ![e].save = s], UNCHANGED <<copy, edits, raced>>
    PROVE  HInv'
<1> DEFINE F == [ed[e] EXCEPT !.save = s]
<1>1. /\ ed[e] \in Editor /\ ed[e].save \in Save /\ versions \in Seq(Docs)
      /\ Sound(e, ed[e], versions, edits, raced)
  BY HTypes
<1>2. versions' = versions \/ versions' = Append(versions, ed[e].save.sent)
  BY DEF Store
<1>3. ed[e].save.sent \in Docs /\ Written(ed[e].save.sent, edits)
  BY <1>1 DEF Save, Sound, AllWritten
<1>4. \A k \in 1..Len(versions') : Written(versions'[k], edits')
  <2>1. CASE versions' = versions
    BY <2>1 DEF HInv
  <2>2. CASE versions' = Append(versions, ed[e].save.sent)
    BY <1>1, <1>3, <2>2 DEF HInv
  <2> QED
    BY <1>2, <2>1, <2>2
<1>5. ASSUME NEW x \in Editors PROVE Sound(x, ed[x], versions', edits, raced)
  <2>1. Sound(x, ed[x], versions, edits, raced)
    BY HTypes
  <2>2. CASE versions' = versions
    BY <2>1, <2>2
  <2>3. CASE versions' = Append(versions, ed[e].save.sent)
    <3>1. Sound(x, ed[x], Append(versions, ed[e].save.sent), edits, raced)
      BY <1>1, <1>3, <2>1, SoundThen
    <3> QED
      BY <2>3, <3>1
  <2> QED
    BY <1>2, <2>2, <2>3
<1>6. /\ F.model = ed[e].model /\ F.saved = ed[e].saved /\ F.past = ed[e].past
      /\ F.future = ed[e].future /\ F.phase = ed[e].phase /\ F.save = s
  BY <1>1 DEF Editor
<1>7. ed' = [ed EXCEPT ![e] = F]
  OBVIOUS
<1> HIDE DEF F
<1>8. Sound(e, F, versions', edits, raced)
  <2>1. Sound(e, ed[e], versions', edits, raced)
    BY <1>5
  <2>2. /\ Written(F.saved, edits) /\ (F.phase # "closed" => Stored(F.saved, versions'))
        /\ Written(s.source, edits) /\ Written(s.base, edits) /\ Written(s.sent, edits)
        /\ Stored(s.base, versions')
        /\ \A f \in Fields : s.sent[f] = s.source[f] \/ s.source[f] = s.base[f]
    BY <1>6, <2>1 DEF Sound, AllWritten, SaveRests
  <2>3. ~raced => /\ MayReplace(e, F.model, F.saved, edits)
                  /\ MayReplace(e, s.source, s.base, edits)
                  /\ Kin(e, ed[e].model, s.source, edits)
    BY <1>6, <2>1 DEF Sound, Owns, SaveOwns
  <2>4. SaveRests(s, versions')
    BY <2>2 DEF SaveRests
  <2>5. ~raced => SaveOwns(e, s, versions', edits)
    BY <2>3 DEF SaveOwns
  <2> QED
    BY <1>6, <2>1, <2>2, <2>3, <2>4, <2>5, SoundSave
<1>9. ASSUME NEW x \in Editors
      PROVE  Sound(x, ed'[x], versions', edits', raced') /\ SoundCopy(x, copy'[x], edits', raced')
  <2>1. ed'[x] = IF x = e THEN F ELSE ed[x]
    BY <1>7 DEF HInv, EInv
  <2>2. SoundCopy(x, copy[x], edits, raced)
    BY HTypes
  <2> QED
    BY <1>5, <1>8, <2>1, <2>2
<1> QED
  BY <1>4, <1>9 DEF HInv

LEMMA ServeSaveSounds == ASSUME HInv, EInv', NEW e \in Editors, ServeSave(e) PROVE HInv'
<1> DEFINE s == [ed[e].save EXCEPT !.step = IF ed[e].save.at = Len(versions) THEN "stored" ELSE "refused",
                                   !.at = ed[e].save.at + 1]
<1>1. /\ ed[e] \in Editor /\ ed[e].save \in Save /\ ed[e].save.step = "sending" /\ Store(e)
      /\ versions \in Seq(Docs) /\ UNCHANGED <<copy, edits, raced>>
  BY HTypes DEF ServeSave
<1>2. ed' = [ed EXCEPT ![e].save = s]
  <2>1. DOMAIN ed = Editors
    BY DEF HInv, EInv
  <2>2. ed' = [ed EXCEPT ![e].save.step = IF ed[e].save.at = Len(versions) THEN "stored" ELSE "refused",
                         ![e].save.at   = ed[e].save.at + 1]
    BY DEF ServeSave
  <2> QED
    BY ONLY <1>1, <2>1, <2>2, e \in Editors DEF Editor, Save
<1>3. s \in Save
  <2>1. ed'[e].save = s /\ ed'[e].save \in Save
    BY <1>1, <1>2 DEF HInv, EInv, Fine, Editor
  <2> QED
    BY <2>1
<1>4. /\ s.source = ed[e].save.source /\ s.base = ed[e].save.base /\ s.sent = ed[e].save.sent
      /\ s.step = IF ed[e].save.at = Len(versions) THEN "stored" ELSE "refused"
  BY <1>1 DEF Save
<1> HIDE DEF s
<1>5. ASSUME s.step = "stored" PROVE Stored(s.sent, versions')
  <2>1. versions' = Append(versions, s.sent)
    BY <1>1, <1>4, <1>5 DEF Store
  <2>2. s.sent \in Docs
    BY <1>3 DEF Save
  <2>3. Len(versions') \in 1..Len(versions') /\ versions'[Len(versions')] = s.sent
    BY <1>1, <2>1, <2>2
  <2> QED
    BY <2>3 DEF Stored
<1> QED
  BY <1>1, <1>2, <1>3, <1>4, <1>5, StoreSounds

LEMMA LoseSaveSounds == ASSUME HInv, EInv', NEW e \in Editors, LoseSave(e) PROVE HInv'
<1> DEFINE s == [ed[e].save EXCEPT !.step = "failed"]
<1>1. /\ ed[e] \in Editor /\ ed[e].save \in Save /\ ed[e].save.step = "sending"
      /\ Store(e) \/ UNCHANGED <<versions, by>>
      /\ UNCHANGED <<copy, edits, raced>>
  BY HTypes DEF LoseSave
<1>2. ed' = [ed EXCEPT ![e].save = s]
  BY <1>1 DEF LoseSave, HInv, EInv, Editor, Save
<1>3. s \in Save
  BY <1>1 DEF Save
<1>4. /\ s.source = ed[e].save.source /\ s.base = ed[e].save.base /\ s.sent = ed[e].save.sent
      /\ s.step = "failed"
  BY <1>1 DEF Save
<1> HIDE DEF s
<1> QED
  BY <1>1, <1>2, <1>3, <1>4, StoreSounds
LEMMA SaveAnsweredSounds ==
    ASSUME HInv, EInv', NEW e \in Editors, SaveAnswered(e)
    PROVE  HInv' /\ \A x \in Editors : ChangesAreKept(x)
<1> DEFINE v      == ed[e].save.at
           newest == IF v >= ed[e].latest THEN v ELSE ed[e].latest
           E      == [ed[e] EXCEPT !.latest = newest, !.remote = newest,
                                   !.snapshot = IF v >= @ THEN v ELSE @]
           d      == ed[e].save.sent
<1>1. /\ Fine(e, ed[e], Len(versions), edits) /\ ed[e] \in Editor /\ ed[e].save \in Save
      /\ ed[e].save.step = "stored" /\ Sound(e, ed[e], versions, edits, raced)
  BY HTypes DEF SaveAnswered
<1>2. ed[e].phase = "ready" /\ v \in Nat /\ ed[e].latest \in Nat /\ ed[e].snapshot \in Nat
  BY <1>1 DEF Fine, Orderly, Editor, Save
<1>3. newest \in Nat /\ (IF v >= ed[e].snapshot THEN v ELSE ed[e].snapshot) \in Nat
  BY <1>2
<1>4. TakeStored(e, E, d) /\ UNCHANGED <<versions, edits, raced>>
  BY DEF SaveAnswered
<1> HIDE DEF newest, v
<1>5. E \in Editor
  BY <1>1, <1>3 DEF Editor
<1>6. /\ E.model = ed[e].model /\ E.saved = ed[e].saved /\ E.past = ed[e].past
      /\ E.future = ed[e].future /\ E.phase = ed[e].phase /\ E.save = ed[e].save
  BY <1>1 DEF Editor
<1> HIDE DEF E
<1>7. Sound(e, E, versions, edits, raced)
  BY <1>1, <1>6, SoundNumbers
<1>8. /\ d \in Docs /\ Written(d, edits) /\ Stored(d, versions)
      /\ \A f \in Fields : d[f] = ed[e].save.source[f] \/ ed[e].save.source[f] = ed[e].save.base[f]
  BY <1>1 DEF Save, Sound, AllWritten, SaveRests
<1>9. E.phase = "ready" /\ E.save.step # "idle"
  BY <1>1, <1>2, <1>6
<1> HIDE DEF d
<1>10. /\ HInv'
       /\ \A x \in Editors : x # e => copy'[x] = copy[x]
       /\ copy[e] # NoCopy => \A f \in Fields :
             \/ copy[e].source[f] # E.model[f]
             \/ copy'[e] # NoCopy /\ copy'[e].source[f] = copy[e].source[f]
             \/ \E k \in 1..Len(versions) : versions[k][f] = copy[e].source[f]
  BY <1>4, <1>5, <1>6, <1>7, <1>8, <1>9, TakeStoredSounds
<1> QED
  BY <1>6, <1>10 DEF ChangesAreKept

LEMMA SaveRefusedSounds == ASSUME HInv, EInv', NEW e \in Editors, SaveRefused(e) PROVE HInv'
<1> DEFINE tries == ed[e].save.tries + 1
           t == [ed[e].save EXCEPT !.step = "validating", !.sent = Fresh, !.at = 0, !.tries = tries]
           s == IF tries = MaxTries THEN NoSave ELSE t
           F == [ed[e] EXCEPT !.latest = Len(versions), !.save = s]
<1>1. /\ ed[e] \in Editor /\ ed[e].save \in Save /\ ed[e].save.step = "refused"
      /\ Sound(e, ed[e], versions, edits, raced) /\ edits \in Seq(Entry)
  BY HTypes DEF SaveRefused
<1>2. ed' = [ed EXCEPT ![e] = F] /\ UNCHANGED <<versions, copy, edits, raced>>
  BY DEF SaveRefused
<1>3. /\ t.step = "validating" /\ t.source = ed[e].save.source /\ t.base = ed[e].save.base
      /\ t.sent = Fresh
  BY <1>1 DEF Save
<1>4. /\ Written(ed[e].save.source, edits) /\ Written(ed[e].save.base, edits) /\ Written(Fresh, edits)
      /\ Stored(ed[e].save.base, versions)
      /\ Written(ed[e].saved, edits) /\ (ed[e].phase # "closed" => Stored(ed[e].saved, versions))
  BY <1>1, FreshIsWritten DEF Sound, AllWritten, SaveRests
<1>5. ~raced => /\ MayReplace(e, ed[e].save.source, ed[e].save.base, edits)
                /\ Kin(e, ed[e].model, ed[e].save.source, edits)
                /\ MayReplace(e, ed[e].model, ed[e].saved, edits)
  BY <1>1 DEF Sound, Owns, SaveOwns
<1> HIDE DEF t, tries
<1>6. /\ Written(s.source, edits) /\ Written(s.base, edits) /\ Written(s.sent, edits)
      /\ SaveRests(s, versions)
      /\ ~raced => /\ SaveOwns(e, s, versions, edits)
                   /\ s.step # "idle" => Kin(e, ed[e].model, s.source, edits)
  <2>1. CASE tries = MaxTries
    <3>1. s = NoSave
      BY <2>1
    <3> HIDE DEF s
    <3> QED
      BY <1>1, <3>1, NoSaveIsSound
  <2>2. CASE tries # MaxTries
    <3>1. s = t
      BY <2>2
    <3> HIDE DEF s
    <3> QED
      BY <1>3, <1>4, <1>5, <3>1 DEF SaveRests, SaveOwns
  <2> QED
    BY <2>1, <2>2
<1> HIDE DEF s
<1>7. /\ F.model = ed[e].model /\ F.saved = ed[e].saved /\ F.past = ed[e].past
      /\ F.future = ed[e].future /\ F.phase = ed[e].phase /\ F.save = s
  BY <1>1 DEF Editor
<1> HIDE DEF F
<1>8. Sound(e, F, versions, edits, raced)
  BY <1>1, <1>4, <1>5, <1>6, <1>7, SoundSave
<1> QED
  BY <1>2, <1>8, QuietEStep

LEMMA SaveFailedSounds == ASSUME HInv, EInv', NEW e \in Editors, SaveFailed(e) PROVE HInv'
  BY HTypes, GiveUpSounds DEF SaveFailed

LEMMA LiveSounds == ASSUME HInv, EInv', NEW e \in Editors, LiveStep(e) PROVE HInv'
<1>1. ed[e] \in Editor /\ Sound(e, ed[e], versions, edits, raced)
  BY HTypes
<1>2. \E F : /\ ed' = [ed EXCEPT ![e] = F]
             /\ F.model = ed[e].model /\ F.saved = ed[e].saved /\ F.past = ed[e].past
             /\ F.future = ed[e].future /\ F.phase = ed[e].phase /\ F.save = ed[e].save
  <2>1. CASE Refresh(e)
    <3> DEFINE F == [ed[e] EXCEPT !.load = Len(versions)]
    <3>1. ed' = [ed EXCEPT ![e] = F]
      BY <2>1 DEF Refresh
    <3>2. /\ F.model = ed[e].model /\ F.saved = ed[e].saved /\ F.past = ed[e].past
          /\ F.future = ed[e].future /\ F.phase = ed[e].phase /\ F.save = ed[e].save
      BY <1>1 DEF Editor
    <3> HIDE DEF F
    <3> QED
      BY <3>1, <3>2
  <2>2. CASE Loaded(e)
    <3> DEFINE v == ed[e].load
               l == IF v >= ed[e].latest THEN v ELSE ed[e].latest
               k == IF v >= ed[e].snapshot THEN v ELSE ed[e].snapshot
               r == IF v >= ed[e].snapshot /\ v >= ed[e].latest THEN v ELSE ed[e].remote
               F == [ed[e] EXCEPT !.load = 0, !.latest = l, !.snapshot = k, !.remote = r]
    <3>1. ed' = [ed EXCEPT ![e] = F]
      BY <1>1, <2>2 DEF Loaded, HInv, EInv, Editor
    <3> HIDE DEF l, k, r
    <3>2. /\ F.model = ed[e].model /\ F.saved = ed[e].saved /\ F.past = ed[e].past
          /\ F.future = ed[e].future /\ F.phase = ed[e].phase /\ F.save = ed[e].save
      BY <1>1 DEF Editor
    <3> HIDE DEF F
    <3> QED
      BY <3>1, <3>2
  <2> QED
    BY <2>1, <2>2 DEF LiveStep
<1>3. PICK F : /\ ed' = [ed EXCEPT ![e] = F]
               /\ F.model = ed[e].model /\ F.saved = ed[e].saved /\ F.past = ed[e].past
               /\ F.future = ed[e].future /\ F.phase = ed[e].phase /\ F.save = ed[e].save
  BY <1>2
<1>4. Sound(e, F, versions, edits, raced)
  BY <1>1, <1>3, SoundNumbers
<1>5. UNCHANGED <<versions, edits, copy, raced>>
  BY DEF LiveStep, Refresh, Loaded
<1> QED
  BY <1>3, <1>4, <1>5, QuietEStep

\* A merge with another's version leaves nothing to undo, so that no history outlives
\* the base it was made on.
LEMMA TakeRemoteSounds == ASSUME HInv, EInv', NEW e \in Editors, TakeRemote(e) PROVE HInv'
<1> DEFINE remote == versions[ed[e].remote]
           merged == Merge(ed[e].saved, ed[e].model, remote)
           seen   == [ed[e] EXCEPT !.observed = ed[e].remote]
           next   == IF remote = ed[e].saved \/ merged = Conflict THEN seen
                     ELSE [seen EXCEPT !.model = merged, !.saved = remote,
                                       !.past = <<>>, !.future = <<>>]
<1>1. /\ ed[e] \in Editor /\ Sound(e, ed[e], versions, edits, raced)
      /\ ed[e].save.step = "idle" /\ ed[e].remote \in 1..Len(versions)
  BY HTypes DEF TakeRemote, Fine, KnowsVersions, Editor
<1>2. Written(remote, edits) /\ Stored(remote, versions)
  BY <1>1, VersionsAreWritten
<1>3. ed' = [ed EXCEPT ![e] = next] /\ UNCHANGED <<versions, copy, edits, raced>>
  BY DEF TakeRemote
<1>4. /\ seen.model = ed[e].model /\ seen.saved = ed[e].saved /\ seen.past = ed[e].past
      /\ seen.future = ed[e].future /\ seen.phase = ed[e].phase /\ seen.save = ed[e].save
      /\ seen \in Editor
  BY <1>1 DEF Editor
<1> HIDE DEF seen, remote
<1>5. CASE remote = ed[e].saved \/ merged = Conflict
  <2>1. next = seen
    BY <1>5
  <2>2. Sound(e, seen, versions, edits, raced)
    BY <1>1, <1>4, SoundNumbers
  <2> HIDE DEF next
  <2> QED
    BY <1>3, <2>1, <2>2, QuietEStep
<1>6. CASE ~(remote = ed[e].saved \/ merged = Conflict)
  <2>1. next = [seen EXCEPT !.model = merged, !.saved = remote, !.past = <<>>, !.future = <<>>]
    BY <1>6
  <2>2. /\ Written(ed[e].model, edits)
        /\ ~raced => MayReplace(e, ed[e].model, ed[e].saved, edits)
    BY <1>1 DEF Sound, AllWritten, Owns
  <2>3. Written(merged, edits) /\ (~raced => MayReplace(e, merged, remote, edits))
    BY <1>2, <1>6, <2>2, MergeIsWritten, MergeMayReplace
  <2> HIDE DEF merged, next
  <2>4. /\ next.model = merged /\ next.saved = remote /\ next.past = <<>> /\ next.future = <<>>
        /\ next.save = ed[e].save
    BY <1>4, <2>1 DEF Editor
  <2>5. /\ Written(ed[e].save.source, edits) /\ Written(ed[e].save.base, edits)
        /\ Written(ed[e].save.sent, edits) /\ SaveRests(ed[e].save, versions)
        /\ ~raced => SaveOwns(e, ed[e].save, versions, edits)
    BY <1>1 DEF Sound, AllWritten, Owns
  <2>6. Sound(e, next, versions, edits, raced)
    BY <1>1, <1>2, <2>3, <2>4, <2>5, SoundTaken
  <2> QED
    BY <1>3, <2>6, QuietEStep
<1> QED
  BY <1>5, <1>6

-----------------------------------------------------------------------------
(* Saves and copies                                                        *)

LEMMA HInvInit == Init => HInv
<1> SUFFICES ASSUME Init PROVE HInv
  OBVIOUS
<1>1. EInv /\ edits = <<>> /\ edits \in Seq(Entry)
  BY EInvInit, EmptySeq DEF Init
<1>2. Lined(edits)
  BY <1>1, NoEditsAreLined
<1>3. Written(Fresh, edits)
  BY <1>1, FreshIsWritten
<1>4. \A k \in 1..Len(versions) : Written(versions[k], edits)
  BY <1>3 DEF Init
<1>5. /\ Closed.model = Fresh /\ Closed.saved = Fresh /\ Closed.past = <<>> /\ Closed.future = <<>>
      /\ Closed.save = NoSave /\ Closed.phase = "closed"
  BY DEF Closed
<1>6. Stored(Closed.saved, versions)
  BY <1>5 DEF Init, Stored
<1>7. \A e \in Editors : Sound(e, Closed, versions, edits, raced)
  BY <1>1, <1>3, <1>5, <1>6, NoSaveIsSound, SameMayReplace, SoundTaken
<1>8. \A e \in Editors : ed[e] = Closed /\ copy[e] = NoCopy
  BY DEF Init
<1> QED
  BY <1>1, <1>2, <1>4, <1>7, <1>8 DEF HInv, SoundCopy

LEMMA HInvStep == HInv /\ [Next]_vars => HInv' /\ \A x \in Editors : ChangesAreKept(x)
<1> SUFFICES ASSUME HInv, [Next]_vars PROVE HInv' /\ \A x \in Editors : ChangesAreKept(x)
  OBVIOUS
<1>1. EInv'
  BY EInvStep DEF HInv
<1>2. CASE UNCHANGED vars
  <2>1. UNCHANGED <<versions, ed, copy, edits, raced>>
    BY <1>2 DEF vars
  <2>2. HInv'
    BY <1>1, <2>1 DEF HInv
  <2> QED
    BY <2>1, <2>2, UnchangedCopies
<1>3. ASSUME NEW e \in Editors, OpenDialog(e) \/ Close(e) \/ Crash(e) \/ Undo(e) \/ Redo(e)
      PROVE  HInv' /\ UNCHANGED copy
  <2>1. UNCHANGED copy
    BY <1>3 DEF OpenDialog, Close, Crash, Undo, Redo
  <2> QED
    BY <1>1, <1>3, <2>1, OpenSounds, CloseSounds, WalkSounds
<1>4. ASSUME NEW e \in Editors, NEW f \in Fields, Edit(e, f) PROVE HInv' /\ UNCHANGED copy
  <2>1. UNCHANGED copy
    BY <1>4 DEF Edit
  <2> QED
    BY <1>1, <1>4, <2>1, EditSounds
<1>5. ASSUME NEW e \in Editors, Restore(e) \/ ServeSave(e) \/ SaveRefused(e) \/ SaveFailed(e) \/ LoseSave(e)
      PROVE  HInv' /\ UNCHANGED copy
  <2>1. UNCHANGED copy
    BY <1>5 DEF Restore, ServeSave, SaveRefused, SaveFailed, LoseSave, GiveUp
  <2> QED
    BY <1>1, <1>5, <2>1, RestoreSounds, ServeSaveSounds, SaveRefusedSounds, SaveFailedSounds, LoseSaveSounds
<1>6. ASSUME NEW e \in Editors, LiveStep(e) \/ TakeRemote(e) PROVE HInv' /\ UNCHANGED copy
  <2>1. UNCHANGED copy
    BY <1>6 DEF LiveStep, Refresh, Loaded, TakeRemote
  <2> QED
    BY <1>1, <1>6, <2>1, LiveSounds, TakeRemoteSounds
<1>7. ASSUME NEW e \in Editors, StartSave(e) \/ KeepCopy(e)
      PROVE  HInv' /\ \A x \in Editors : ChangesAreKept(x)
  <2>1. copy' = [copy EXCEPT ![e] = [base |-> ed[e].saved, source |-> ed[e].model]]
    BY <1>7 DEF StartSave, KeepCopy
  <2> QED
    BY <1>1, <1>7, <2>1, StartSaveSounds, KeepCopySounds, CopiedChanges
<1>8. ASSUME NEW e \in Editors, Send(e) \/ SaveAnswered(e)
      PROVE  HInv' /\ \A x \in Editors : ChangesAreKept(x)
  BY <1>1, <1>8, SendSounds, SaveAnsweredSounds
<1>9. CASE Next
  <2>1. PICK e \in Editors :
          \/ OpenDialog(e) \/ Close(e) \/ Crash(e) \/ Undo(e) \/ Redo(e)
          \/ \E f \in Fields : Edit(e, f)
          \/ Restore(e) \/ StartSave(e) \/ Send(e) \/ ServeSave(e)
          \/ SaveAnswered(e) \/ SaveRefused(e) \/ SaveFailed(e)
          \/ KeepCopy(e) \/ LiveStep(e) \/ TakeRemote(e) \/ LoseSave(e)
    BY <1>9, Zenon DEF Next, UserStep, SystemStep, EditorStep
  <2> QED
    BY ONLY <1>3, <1>4, <1>5, <1>6, <1>7, <1>8, <2>1, e \in Editors, UnchangedCopies
<1> QED
  BY <1>2, <1>9

\* The invariant: every value in a document was entered on top of an earlier one; what an
\* editor, its save or its copy shows differs from the version it goes back to by its own
\* user's work, until a copy is restored over a version that arrived first.
THEOREM HistoriesInvariant == Spec => []HInv
  BY HInvInit, HInvStep, PTL DEF Spec

\* A document that replaces the last version drops nothing but its author's own work.
LEMMA StoresReplaceTheirOwn ==
    HInv /\ [Next]_vars =>
        raced \/ \A f \in Fields :
            Last(versions')[f] # Server[f] => Supersedes(Last(versions')[f], Server[f], by')
<1> SUFFICES ASSUME HInv, [Next]_vars, ~raced, NEW f \in Fields, Last(versions')[f] # Server[f]
             PROVE  Supersedes(Last(versions')[f], Server[f], by')
  OBVIOUS
<1>1. versions' # versions
  BY DEF Server
<1>2. PICK e \in Editors : ServeSave(e) \/ LoseSave(e)
  <2>1. Next
    BY <1>1 DEF vars
  <2>2. PICK e \in Editors :
          \/ OpenDialog(e) \/ Close(e) \/ Crash(e) \/ Undo(e) \/ Redo(e)
          \/ \E g \in Fields : Edit(e, g)
          \/ Restore(e) \/ StartSave(e) \/ Send(e) \/ ServeSave(e)
          \/ SaveAnswered(e) \/ SaveRefused(e) \/ SaveFailed(e)
          \/ KeepCopy(e) \/ LiveStep(e) \/ TakeRemote(e) \/ LoseSave(e)
    BY <2>1, Zenon DEF Next, UserStep, SystemStep, EditorStep
  <2> QED
    BY <1>1, <2>2 DEF OpenDialog, Close, Crash, Undo, Redo, Edit, Restore, StartSave, Send,
       SaveAnswered, SaveRefused, SaveFailed, KeepCopy, LiveStep, Refresh, Loaded, TakeRemote
<1>3. /\ ed[e].save.step = "sending" /\ ed[e].save.at = Len(versions) /\ by' = e
      /\ versions' = Append(versions, ed[e].save.sent)
  BY <1>1, <1>2 DEF ServeSave, LoseSave, Store
<1>4. /\ versions \in Seq(Docs) /\ ed[e] \in Editor /\ ed[e].save \in Save
      /\ Sound(e, ed[e], versions, edits, raced)
  BY HTypes
<1>5. MayReplace(e, ed[e].save.sent, Server, edits)
  BY <1>3, <1>4 DEF Sound, Owns, SaveOwns, Server, Last
<1>6. Last(versions') = ed[e].save.sent
  <2>1. ed[e].save.sent \in Docs
    BY <1>4 DEF Save
  <2> QED
    BY <1>3, <1>4, <2>1 DEF Last
<1>7. \A u \in LineOf(edits)[Server[f]] \ LineOf(edits)[Last(versions')[f]] : edits[u].by = e
  BY <1>5, <1>6 DEF MayReplace, OwnEdit
<1>8. Supersedes(Last(versions')[f], Server[f], e)
  BY <1>7, LineIsLineOf DEF Supersedes
<1> QED
  BY <1>3, <1>8

\* A save never replaces a value its author had not before them: whatever of the stored
\* document's lines is dropped is its author's own work, with late, refused and lost
\* answers, undo, crashes and restored copies, until a copy is restored over a newer
\* version.
THEOREM SavesReplaceWhatTheySaw == Spec => OverwritesOnlyWhatWasSeen
<1>1. HInv /\ [Next]_vars =>
        [raced \/ \A f \in Fields :
            Last(versions')[f] # Server[f] => Supersedes(Last(versions')[f], Server[f], by')]_vars
  BY StoresReplaceTheirOwn
<1> QED
  BY <1>1, HistoriesInvariant, PTL DEF Spec, OverwritesOnlyWhatWasSeen

LEMMA CopiesAreKept ==
    HInv /\ Next =>
        \A e \in Editors : copy[e] # NoCopy =>
            \A f \in Fields :
                LET v == copy[e].source[f]
                IN  \/ v = copy[e].base[f] \/ v # ed[e].model[f]
                    \/ copy'[e] # NoCopy /\ copy'[e].source[f] = v
                    \/ \E n \in 1..Len(versions') : v \in Line(versions'[n][f])
<1> SUFFICES ASSUME HInv, Next, NEW e \in Editors, copy[e] # NoCopy, NEW f \in Fields,
                    copy[e].source[f] = ed[e].model[f],
                    ~(copy'[e] # NoCopy /\ copy'[e].source[f] = copy[e].source[f])
             PROVE  \E n \in 1..Len(versions') : copy[e].source[f] \in Line(versions'[n][f])
  OBVIOUS
<1>1. PICK k \in 1..Len(versions) : versions[k][f] = copy[e].source[f]
  BY HInvStep DEF ChangesAreKept
<1>2. Lined(edits) /\ Written(versions[k], edits)
  BY DEF HInv
<1>3. versions[k][f] \in 0..Len(edits)
  BY <1>2 DEF Written
<1>4. versions[k][f] \in Line(versions[k][f])
  BY <1>2, <1>3, ValuesAreOnTheirLine, LineIsLineOf
<1>5. k \in 1..Len(versions') /\ versions'[k] = versions[k]
  <2>1. versions' = versions \/ \E e1 \in Editors : versions' = Append(versions, ed[e1].save.sent)
    <3>1. PICK x \in Editors :
            \/ OpenDialog(x) \/ Close(x) \/ Crash(x) \/ Undo(x) \/ Redo(x)
            \/ \E g \in Fields : Edit(x, g)
            \/ Restore(x) \/ StartSave(x) \/ Send(x) \/ ServeSave(x)
            \/ SaveAnswered(x) \/ SaveRefused(x) \/ SaveFailed(x)
            \/ KeepCopy(x) \/ LiveStep(x) \/ TakeRemote(x) \/ LoseSave(x)
      BY Zenon DEF Next, UserStep, SystemStep, EditorStep
    <3> QED
      BY <3>1 DEF OpenDialog, Close, Crash, Undo, Redo, Edit, Restore, StartSave, Send, ServeSave,
         LoseSave, Store, SaveAnswered, SaveRefused, SaveFailed, KeepCopy, LiveStep, Refresh,
         Loaded, TakeRemote
  <2>2. versions \in Seq(Docs) /\ \A x \in Editors : ed[x].save.sent \in Docs
    BY HTypes DEF Save
  <2> QED
    BY <2>1, <2>2
<1> QED
  BY <1>1, <1>4, <1>5

\* A change in the recovery copy that the editor still shows leaves the copy only when a
\* version has it: closings, crashes, refusals and lost answers never lose it.
THEOREM UnconfirmedWorkIsKept == Spec => CopiesOutliveUnconfirmedWork
<1>1. HInv /\ [Next]_vars =>
        [\A e \in Editors : copy[e] # NoCopy =>
            \A f \in Fields :
                LET v == copy[e].source[f]
                IN  \/ v = copy[e].base[f] \/ v # ed[e].model[f]
                    \/ copy'[e] # NoCopy /\ copy'[e].source[f] = v
                    \/ \E n \in 1..Len(versions') : v \in Line(versions'[n][f])]_vars
  BY CopiesAreKept
<1> QED
  BY <1>1, HistoriesInvariant, PTL DEF Spec, CopiesOutliveUnconfirmedWork
=============================================================================
