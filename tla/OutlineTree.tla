---------------------------- MODULE OutlineTree ----------------------------
(***************************************************************************)
(* What the outline of a bill of quantities promises its user: an ordered  *)
(* tree in which sections and positions may be mixed freely.  It knows     *)
(* neither item lists nor the containers that GAEB needs around positions. *)
(***************************************************************************)
EXTENDS Sequences, SequencesExt

CONSTANTS
    Cats,       \* sections (BoQCtgy)
    Items,      \* positions (Item)
    Root        \* the bill of quantities itself

VARIABLE tree   \* [Containers -> the children of each, in their order]

Containers == Cats \cup {Root}
Elements   == Cats \cup Items

EmptyTree == [c \in Containers |-> <<>>]

Placed(t) == UNION {ToSet(t[c]) : c \in Containers}

\* The containers that stand.
Groups(t) == {Root} \cup (Placed(t) \cap Cats)

ParentIn(t, e) == CHOOSE c \in Containers : Contains(t[c], e)

\* p is c or hangs below it.
InsideOf(t, c, p) ==
    LET inside[x \in Elements \cup {Root}] ==
            x = c \/ (x \in Placed(t) /\ inside[ParentIn(t, x)])
    IN  inside[p]

\* How deep the container c stands.
Level(t, c) ==
    LET level[x \in Groups(t)] == IF x = Root THEN 0 ELSE 1 + level[ParentIn(t, x)]
    IN  level[c]

\* s without the members of X.
Omit(s, X) ==
    LET kept[k \in 0..Len(s)] ==
            IF k = 0 THEN <<>>
            ELSE IF s[k] \in X THEN kept[k - 1] ELSE Append(kept[k - 1], s[k])
    IN  kept[Len(s)]

Detached(t, e) == [c \in Containers |-> Omit(t[c], {e})]

\* The position in s of the element b, or the end of s if there is none.
PlaceOf(s, b) == IF Contains(s, b) THEN CHOOSE k \in DOMAIN s : s[k] = b ELSE Len(s) + 1

\* e among the children of p, right before b; b = e or no b means the end.
Placing(t, e, p, b) ==
    LET rest == Detached(t, e) IN [rest EXCEPT ![p] = InsertAt(@, PlaceOf(@, b), e)]

Without(t, e) ==
    [c \in Containers |->
        IF e \in Cats /\ InsideOf(t, e, c) THEN <<>> ELSE Omit(t[c], {e})]

Move(e) ==
    /\ e \in Placed(tree)
    /\ \E p \in Containers, b \in Elements :
        /\ p \in Groups(tree)
        /\ ~InsideOf(tree, e, p)
        /\ tree' = Placing(tree, e, p, b)

Insert(e) ==
    /\ e \notin Placed(tree)
    /\ \E p \in Containers, b \in Elements :
        /\ p \in Groups(tree)
        /\ tree' = Placing(tree, e, p, b)

Delete(e) ==
    /\ e \in Placed(tree)
    /\ tree' = Without(tree, e)

\* An ordered tree: nothing occurs twice, only what stands has children, and every
\* entry hangs below the root.
IsTree(t) ==
    /\ \A c, p \in Containers : \A j \in DOMAIN t[c], k \in DOMAIN t[p] :
        t[c][j] = t[p][k] => c = p /\ j = k
    /\ \A c \in Containers \ Groups(t) : t[c] = <<>>
    /\ \A e \in Placed(t) : InsideOf(t, Root, e)

OutlineInit == tree = EmptyTree
OutlineNext == \E e \in Elements : Move(e) \/ Insert(e) \/ Delete(e)
OutlineSpec == OutlineInit /\ [][OutlineNext]_tree
=============================================================================
