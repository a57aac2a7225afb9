--------------------------- MODULE GaebHierarchy ---------------------------
(***************************************************************************)
(* The structure of a GAEB bill of quantities as the editor changes it     *)
(* (core/document.ts, GaebOutline.tsx, GaebEditor.tsx).  GAEB lets a       *)
(* container hold either sections or one list of positions.  The outline   *)
(* mixes them: positions next to sections live in internal sections        *)
(* ("buckets", ID sortsys_direct_...) that the outline does not show.      *)
(*                                                                         *)
(* doc[c].list is the Itemlist of c, doc[c].parts its BoQCtgy children in  *)
(* their order; a part that is a sequence of positions is a bucket.  Every *)
(* operation computes a new document or the error it throws; the editor    *)
(* keeps the old document then.                                            *)
(***************************************************************************)
EXTENDS Naturals, Sequences, SequencesExt, FiniteSetsExt

CONSTANTS
    Cats, Items, Root,  \* sections, positions and the BoQ, as in OutlineTree
    MaxLevels,          \* 5 in normalizeHierarchy
    NoEntry,            \* the undefined of parent and before
    HierarchyCycle, HierarchyLayout, HierarchyLimit     \* the errors that are thrown

VARIABLE doc

Containers == Cats \cup {Root}
Entries    == Cats \cup Items
Errors     == {HierarchyCycle, HierarchyLayout, HierarchyLimit}

\* A part is a section or the list of a bucket.
Documents == [Containers -> [list : Seq(Items), parts : Seq(Cats \cup Seq(Items))]]

\* The kinds of entries are told apart, a section is no list, an error no document.
ASSUME HierarchyAssumption ==
    /\ MaxLevels \in Nat \ {0}
    /\ Cats \cap Items = {}
    /\ NoEntry \notin Cats \cup Items
    /\ (Cats \cup Items \cup {NoEntry}) \cap (Seq(Items) \cup {Root}) = {}
    /\ Errors \cap Documents = {}

IsBucket(part) == part \notin Cats

Blank == [c \in Containers |-> [list |-> <<>>, parts |-> <<>>]]

-----------------------------------------------------------------------------
(* The outline: the children of every container without the buckets        *)

Shown(parts) ==
    FlattenSeq([k \in DOMAIN parts |-> IF IsBucket(parts[k]) THEN parts[k] ELSE <<parts[k]>>])

OutlineChildren(d, c) == d[c].list \o Shown(d[c].parts)

Outline(d) == [c \in Containers |-> OutlineChildren(d, c)]

Tree == INSTANCE OutlineTree WITH tree <- Outline(doc)

Present(d) == Tree!Placed(Outline(d))

OutlineParent(d, e) == Tree!ParentIn(Outline(d), e)

Within(d, c, p) == Tree!InsideOf(Outline(d), c, p)

\* The entry after e among the children of its parent.
NextOf(d, e) ==
    LET peers == OutlineChildren(d, OutlineParent(d, e))
        at    == Tree!PlaceOf(peers, e)
    IN  IF at < Len(peers) THEN peers[at + 1] ELSE NoEntry

-----------------------------------------------------------------------------
(* Normalisation: empty buckets go, the levels are counted                 *)

\* A bucket is one level more.
TooDeep(d) ==
    \E c \in Tree!Groups(Outline(d)) :
        Tree!Level(Outline(d), c)
            + (IF \E k \in DOMAIN d[c].parts : IsBucket(d[c].parts[k]) THEN 1 ELSE 0) > MaxLevels

WithoutEmptyBucketsMutant(d) == d      \* emptied containers stay behind

WithoutEmptyBuckets(d) ==
    [c \in Containers |-> [d[c] EXCEPT !.parts = Tree!Omit(@, {<<>>})]]

NormalizeHierarchy(d) ==
    LET slim == WithoutEmptyBuckets(d)
    IN  IF TooDeep(slim) THEN HierarchyLimit ELSE slim

-----------------------------------------------------------------------------
(* Buckets                                                                 *)

\* Where the first bucket of p is; 0 if there is none.
FirstBucket(d, p) == SelectInSeq(d[p].parts, IsBucket)

\* The positions of the Itemlist are not taken along.
WithItemBucketMutant(d, p) ==
    IF FirstBucket(d, p) # 0 THEN d
    ELSE [d EXCEPT ![p] = [list |-> <<>>, parts |-> Append(@.parts, <<>>)]]

\* withItemBucket: the first bucket serves, else the Itemlist is wrapped,
\* else an empty bucket is appended.
WithItemBucket(d, p) ==
    IF FirstBucket(d, p) # 0 THEN d
    ELSE [d EXCEPT ![p] = [list |-> <<>>, parts |-> Append(@.parts, @.list)]]

\* s with the sequence t in the place of its k-th element.
Splice(s, k, t) == SubSeq(s, 1, k - 1) \o t \o SubSeq(s, k + 1, Len(s))

BucketOf(d, p, item) ==
    SelectInSeq(d[p].parts, LAMBDA part : IsBucket(part) /\ Contains(part, item))

\* newItemBucket: with a tail (a position of the k-th bucket) that bucket is
\* split, and the positions from the tail on follow it in a new one.
EmptyBucketAt(d, p, k) == [d EXCEPT ![p].parts = InsertAt(@, k, <<>>)]

\* The tail ends up behind all other sections.
SplitBucketMutant(d, p, k, tail) ==
    LET bucket == d[p].parts[k]
        at     == Tree!PlaceOf(bucket, tail)
    IN  [d EXCEPT ![p].parts =
            Append(Splice(@, k, <<SubSeq(bucket, 1, at - 1)>>), SubSeq(bucket, at, Len(bucket)))]

SplitBucket(d, p, k, tail) ==
    LET bucket == d[p].parts[k]
        at     == Tree!PlaceOf(bucket, tail)
    IN  [d EXCEPT ![p].parts =
            Splice(@, k, <<SubSeq(bucket, 1, at - 1), SubSeq(bucket, at, Len(bucket))>>)]

-----------------------------------------------------------------------------
(* moveEntry                                                               *)

\* The parts without e, in whichever bucket it is.
Cleared(parts, e) ==
    LET rest == Tree!Omit(parts, {e})
    IN  [k \in DOMAIN rest |-> IF IsBucket(rest[k]) THEN Tree!Omit(rest[k], {e}) ELSE rest[k]]

Detach(d, e) ==
    [c \in Containers |->
        [list |-> Tree!Omit(d[c].list, {e}), parts |-> Cleared(d[c].parts, e)]]

\* s with e moved or put in front of its k-th element.
Put(s, e, k) ==
    Tree!Omit(SubSeq(s, 1, k - 1), {e}) \o <<e>> \o Tree!Omit(SubSeq(s, k, Len(s)), {e})

\* e is where it is asked to go: it is its own "before", or already right before it.
AlreadyAt(s, e, before) ==
    /\ Contains(s, e)
    /\ \/ before = e
       \/ LET at == Tree!PlaceOf(s, e)
          IN  IF at = Len(s) THEN before = NoEntry ELSE before = s[at + 1]

PutInList(d, e, p, before) ==
    IF before # NoEntry /\ ~Contains(d[p].list, before) THEN HierarchyLayout
    ELSE IF AlreadyAt(d[p].list, e, before) THEN d
    ELSE NormalizeHierarchy(
        [Detach(d, e) EXCEPT ![p].list = Put(d[p].list, e, Tree!PlaceOf(d[p].list, before))])

PutInBucket(d, e, p, k, before) ==
    LET bucket == d[p].parts[k]
    IN  IF AlreadyAt(bucket, e, before) THEN d
        ELSE NormalizeHierarchy(
            [Detach(d, e) EXCEPT ![p].parts =
                Splice(@, k, <<Put(bucket, e, Tree!PlaceOf(bucket, before))>>)])

\* k is the place of the part to precede: Len + 1 for the end.
PutInParts(d, e, p, k) ==
    LET parts == d[p].parts
    IN  IF AlreadyAt(parts, e, IF k > Len(parts) THEN NoEntry ELSE parts[k]) THEN d
        ELSE NormalizeHierarchy([Detach(d, e) EXCEPT ![p].parts = Put(parts, e, k)])

MoveItem(d, e, p, before) ==
    LET parts == d[p].parts
        last  == Len(parts)
    IN  CASE parts = <<>> -> PutInList(d, e, p, before)
          [] parts # <<>> /\ before \in Cats ->
                LET k == Tree!PlaceOf(parts, before)
                IN  PutInBucket(EmptyBucketAt(d, p, k), e, p, k, NoEntry)
          [] parts # <<>> /\ before \in Items /\ BucketOf(d, p, before) # 0 ->
                PutInBucket(d, e, p, BucketOf(d, p, before), before)
          [] parts # <<>> /\ before \in Items /\ BucketOf(d, p, before) = 0 -> HierarchyLayout
          [] OTHER ->
                IF IsBucket(parts[last]) THEN PutInBucket(d, e, p, last, NoEntry)
                ELSE PutInBucket(EmptyBucketAt(d, p, last + 1), e, p, last + 1, NoEntry)

MoveCategory(d, e, p, before) ==
    LET wrapped == IF d[p].list # <<>> THEN WithItemBucket(d, p) ELSE d
        parts   == wrapped[p].parts
        k       == BucketOf(wrapped, p, before)
    IN  CASE before \notin Items -> PutInParts(wrapped, e, p, Tree!PlaceOf(parts, before))
          [] before \in Items /\ k = 0 -> HierarchyLayout
          [] before \in Items /\ k # 0 ->
                IF parts[k][1] = before THEN PutInParts(wrapped, e, p, k)
                ELSE PutInParts(SplitBucket(wrapped, p, k, before), e, p, k + 1)

MoveEntry(d, e, p, before) ==
    IF p \in Items \/ Within(d, e, p) THEN HierarchyCycle
    ELSE IF e \in Items THEN MoveItem(d, e, p, before)
    ELSE MoveCategory(d, e, p, before)

-----------------------------------------------------------------------------
(* Adding and removing                                                     *)

\* addItemInCategory: beside sections, the first bucket takes the position.
AddItemInCategory(d, e, p) ==
    IF d[p].parts = <<>> THEN [d EXCEPT ![p].list = Append(@, e)]
    ELSE LET model == WithItemBucket(d, p)
             k     == FirstBucket(model, p)
         IN  NormalizeHierarchy([model EXCEPT ![p].parts =
                Splice(@, k, <<Append(model[p].parts[k], e)>>)])

AddCategory(d, e, p) ==
    LET model == IF d[p].list # <<>> THEN WithItemBucket(d, p) ELSE d
    IN  NormalizeHierarchy([model EXCEPT ![p].parts = Append(@, e)])

RemoveEntry(d, e) ==
    LET rest == Detach(d, e)
    IN  NormalizeHierarchy([c \in Containers |->
            IF e \in Cats /\ Within(d, e, c) THEN Blank[c] ELSE rest[c]])

\* addItem and insertPosition of the editor: the position is added to the group of
\* the chosen entry and, if that is a position with a successor, moved below it.
AddBelow(d, e, chosen) ==
    LET p      == IF chosen \in Items THEN OutlineParent(d, chosen) ELSE chosen
        added  == AddItemInCategory(d, e, p)
        before == IF chosen \in Items THEN NextOf(d, chosen) ELSE NoEntry
    IN  IF added \in Errors \/ before = NoEntry THEN added ELSE MoveEntry(added, e, p, before)

-----------------------------------------------------------------------------
(* Where the user interface can ask an entry to go: pairs of the parent    *)
(* and the entry to precede                                                *)

ReorderTargets(d, e) ==
    LET p     == OutlineParent(d, e)
        peers == OutlineChildren(d, p)
        at    == Tree!PlaceOf(peers, e)
    IN  (IF at > 1 THEN {<<p, peers[at - 1]>>} ELSE {})
        \cup (IF at = Len(peers) THEN {}
              ELSE {<<p, IF at + 2 <= Len(peers) THEN peers[at + 2] ELSE NoEntry>>})

\* indent looks for the entry of the same kind before e and makes it the parent.
IndentTargets(d, e) ==
    LET others == IF e \in Cats THEN Items ELSE Cats
        peers  == Tree!Omit(OutlineChildren(d, OutlineParent(d, e)), others)
        at     == Tree!PlaceOf(peers, e)
    IN  IF at > 1 THEN {<<peers[at - 1], NoEntry>>} ELSE {}

OutdentTargets(d, e) ==
    LET owner == OutlineParent(d, e)
    IN  IF owner = Root THEN {} ELSE {<<OutlineParent(d, owner), NextOf(d, owner)>>}

\* dropLocation: into a section, in front of an entry or behind it, or on the root.
DropTargets(d, e) ==
    LET onto   == {<<p, NoEntry>> : p \in Present(d) \cap Cats}
        around == UNION {{<<OutlineParent(d, x), x>>, <<OutlineParent(d, x), NextOf(d, x)>>} :
                            x \in Present(d) \ {e}}
    IN  {<<Root, NoEntry>>} \cup {l \in onto \cup around : ~Within(d, e, l[1])}

Targets(d, e) ==
    ReorderTargets(d, e) \cup IndentTargets(d, e) \cup OutdentTargets(d, e) \cup DropTargets(d, e)

-----------------------------------------------------------------------------

\* applyHierarchy with a plan that was made for the document as it is.
Apply(result) == result \notin Errors /\ doc' = result

MoveTo(e, targets) == \E l \in targets : Apply(MoveEntry(doc, e, l[1], l[2]))

AddTitle(e) ==
    /\ e \notin Present(doc)
    /\ \E p \in Tree!Groups(Outline(doc)) : Apply(AddCategory(doc, e, p))

AddPosition(e) ==
    /\ e \notin Present(doc)
    /\ \E chosen \in {Root} \cup Present(doc) : Apply(AddBelow(doc, e, chosen))

Reorder(e) == e \in Present(doc) /\ MoveTo(e, ReorderTargets(doc, e))
Indent(e)  == e \in Present(doc) /\ MoveTo(e, IndentTargets(doc, e))
Outdent(e) == e \in Present(doc) /\ MoveTo(e, OutdentTargets(doc, e))
Drop(e)    == e \in Present(doc) /\ MoveTo(e, DropTargets(doc, e))
Delete(e)  == e \in Present(doc) /\ Apply(RemoveEntry(doc, e))

Init == doc = Blank

Next ==
    \/ \E c \in Cats : AddTitle(c)
    \/ \E i \in Items : AddPosition(i)
    \/ \E e \in Entries : Reorder(e) \/ Indent(e) \/ Outdent(e) \/ Drop(e) \/ Delete(e)

Spec == Init /\ [][Next]_doc

-----------------------------------------------------------------------------
(* Properties                                                              *)

\* Every document is one GAEB allows: a container has sections or a list, a bucket
\* has positions, nothing occurs twice or hangs below something removed, and the
\* breakdown has at most MaxLevels levels.
NativeLayout ==
    /\ doc \in Documents
    /\ \A c \in Containers :
        /\ doc[c].list = <<>> \/ doc[c].parts = <<>>
        /\ ~Contains(doc[c].parts, <<>>)
    /\ Tree!IsTree(Outline(doc))
    /\ ~TooDeep(doc)

\* An outline that cannot do with less than n levels: one for each nesting of
\* sections, one more where positions stand next to sections.
NeedsLevels(t, n) ==
    \E c \in Tree!Groups(t) :
        Tree!Level(t, c)
            + (IF \E x, y \in ToSet(t[c]) : x \in Cats /\ y \in Items THEN 1 ELSE 0) >= n

\* Wherever the interface lets an entry go, it arrives exactly there in the outline
\* and everything else keeps its place (moveEntry: "Mixed logical siblings use hidden
\* native item containers").  A place is refused only when an outline with it comes
\* within one level of the limit: a bucket outlives the sections that called for it.
EntriesLandWhereAsked ==
    \A e \in Present(doc) : \A l \in Targets(doc, e) :
        LET asked == Tree!Placing(Outline(doc), e, l[1], l[2])
            moved == MoveEntry(doc, e, l[1], l[2])
        IN  IF l[1] \in Items THEN moved = HierarchyCycle
            ELSE IF l[2] = e THEN moved = doc
            ELSE \/ moved \notin Errors /\ Outline(moved) = asked
                 \/ moved = HierarchyLimit /\ NeedsLevels(asked, MaxLevels)

\* Every operation is one move, one insertion or one removal of an ordered tree.
ImplementsOutlineTree == Tree!OutlineSpec
=============================================================================
