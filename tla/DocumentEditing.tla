-------------------------- MODULE DocumentEditing --------------------------
(***************************************************************************)
(* Several people edit one GAEB document: the versioned row at the server  *)
(* (xml_documents.rs), the dialog that loads and saves it and listens for  *)
(* newer versions (GaebFileModal.tsx, core/live.ts), the editor with its   *)
(* autosave, its undo history and its recovery copy in IndexedDB           *)
(* (GaebEditor.tsx, core/recovery.ts) and the three-way merge              *)
(* (core/merge.ts, core/mergeDocument.ts).                                 *)
(*                                                                         *)
(* A document is a value per field, a price or a quantity: something the   *)
(* merge does not blend.  Every edit writes a value of its own, its number *)
(* in edits; 0 is what the document was created with.  Versions are named  *)
(* by their numbers.  Invalid input, signed documents and the text that    *)
(* live sessions synchronise before a save are left out.                   *)
(***************************************************************************)
EXTENDS Naturals, Sequences, SequencesExt

CONSTANTS
    Editors,    \* open dialogs of different users
    Fields,
    Touches,    \* [Editors -> the fields its user edits]
    MaxEdits,   \* edits in one history
    MaxTries,   \* attempts of a save: 5 in the code
    MaxRare,    \* of each editor: closings, crashes, lost answers and undos, together
    Conflict,   \* the error merge-conflict
    NoCopy      \* no recovery copy

Values == 0..MaxEdits
Docs   == [Fields -> Values]

ASSUME EditingAssumption ==
    /\ Editors # {} /\ Touches \in [Editors -> SUBSET Fields]
    /\ MaxEdits \in Nat /\ MaxRare \in [Editors -> Nat] /\ MaxTries \in Nat \ {0}
    /\ Conflict \notin Docs /\ NoCopy \notin [base : Docs, source : Docs]

VARIABLES
    versions,   \* the stored documents; the row holds the last one
    by,         \* who stored the last one (office_modified_by_user_id)
    ed,         \* [Editors -> the state of the dialog and its editor]
    copy,       \* [Editors -> the recovery copy of the browser]
    edits,      \* history: by whom each edit was made and what it replaced
    rare,
    raced       \* history: a copy was restored over a newer version

vars == <<versions, by, ed, copy, edits, rare, raced>>

Fresh == [f \in Fields |-> 0]

Server == Last(versions)

\* combine: whatever only one side has changed is taken from that side.
Merge(base, local, remote) ==
    IF \A f \in Fields : local[f] = base[f] \/ remote[f] = base[f] \/ local[f] = remote[f]
    THEN [f \in Fields |-> IF local[f] = base[f] THEN remote[f] ELSE local[f]]
    ELSE Conflict

\* at is the version a save is based on or has created.
Save == [step : {"idle", "validating", "sending", "stored", "refused", "failed"},
         source : Docs, base : Docs, sent : Docs, at : Nat, tries : 0..MaxTries]

NoSave == [step |-> "idle", source |-> Fresh, base |-> Fresh, sent |-> Fresh, at |-> 0, tries |-> 0]

\* Version numbers are 0 where the code has undefined.
Editor == [phase : {"closed", "restoring", "ready"},
           xml : Nat,               \* the version the dialog was opened with
           model : Docs,            \* modelRef
           saved : Docs,            \* savedRef
           latest : Nat,            \* latest.current of the dialog
           snapshot : Nat,          \* the version the live connection knows
           remote : Nat,            \* remoteXml
           observed : Nat,          \* observedRemote
           load : Nat,              \* the answer of a load on its way
           past : Seq(Docs), future : Seq(Docs),
           save : Save]

Closed == [phase |-> "closed", xml |-> 0, model |-> Fresh, saved |-> Fresh, latest |-> 0,
           snapshot |-> 0, remote |-> 0, observed |-> 0, load |-> 0,
           past |-> <<>>, future |-> <<>>, save |-> NoSave]

Init ==
    /\ versions = <<Fresh>>
    /\ by       = CHOOSE e \in Editors : TRUE
    /\ ed       = [e \in Editors |-> Closed]
    /\ copy     = [e \in Editors |-> NoCopy]
    /\ edits    = <<>>
    /\ rare     = [e \in Editors |-> 0]
    /\ raced    = FALSE

Rare(e) == rare[e] < MaxRare[e] /\ rare' = [rare EXCEPT ![e] = @ + 1]

Open(e) == ed[e].phase # "closed"

-----------------------------------------------------------------------------
(* Opening, restoring, closing                                             *)

OpenDialog(e) ==
    /\ ~Open(e)
    /\ LET v == Len(versions)
       IN  ed' = [ed EXCEPT ![e] = [Closed EXCEPT !.phase = "restoring", !.xml = v,
                      !.model = Server, !.saved = Server, !.latest = v, !.snapshot = v]]
    /\ UNCHANGED <<versions, by, copy, edits, rare, raced>>

\* A mutant of RestoredModel: a conflict of the merge is not caught.
RestoredModelMutant(e) ==
    LET xml      == versions[ed[e].xml]
        restored == IF copy[e] = NoCopy THEN xml ELSE Merge(copy[e].base, copy[e].source, xml)
    IN  IF restored = xml THEN ed[e].model ELSE restored

\* The copy is merged with the XML the editor was opened with, whatever it shows now.
RestoredModel(e) ==
    LET xml      == versions[ed[e].xml]
        restored == IF copy[e] = NoCopy THEN xml ELSE Merge(copy[e].base, copy[e].source, xml)
    IN  IF restored = Conflict \/ restored = xml THEN ed[e].model ELSE restored

Restore(e) ==
    /\ ed[e].phase = "restoring"
    /\ ed' = [ed EXCEPT ![e].phase = "ready", ![e].xml = 0, ![e].model = RestoredModel(e)]
    /\ raced' = (raced \/ (RestoredModel(e) # ed[e].model /\ ed[e].saved # versions[ed[e].xml]))
    /\ UNCHANGED <<versions, by, copy, edits, rare>>

\* requestClose of an editor without unsaved changes.
Close(e) ==
    /\ ed[e].phase = "ready"
    /\ ed[e].model = ed[e].saved
    /\ ed[e].save.step = "idle"
    /\ Rare(e)
    /\ ed' = [ed EXCEPT ![e] = Closed]
    /\ UNCHANGED <<versions, by, copy, edits, raced>>

Crash(e) ==
    /\ Open(e)
    /\ Rare(e)
    /\ ed' = [ed EXCEPT ![e] = Closed]
    /\ UNCHANGED <<versions, by, copy, edits, raced>>

-----------------------------------------------------------------------------
(* The editor: change, moveHistory and the recovery copy                   *)

Edit(e, f) ==
    /\ ed[e].phase = "ready"
    /\ f \in Touches[e] /\ Len(edits) < MaxEdits
    /\ edits' = Append(edits, [by |-> e, under |-> ed[e].model[f]])
    /\ ed' = [ed EXCEPT ![e].model[f] = Len(edits) + 1,
                        ![e].past     = Append(@, ed[e].model),
                        ![e].future   = <<>>]
    /\ UNCHANGED <<versions, by, copy, rare, raced>>

Undo(e) ==
    /\ ed[e].past # <<>> /\ ed[e].save.step = "idle"
    /\ Rare(e)
    /\ ed' = [ed EXCEPT ![e].past   = Front(@),
                        ![e].future = Append(@, ed[e].model),
                        ![e].model  = Last(ed[e].past)]
    /\ UNCHANGED <<versions, by, copy, edits, raced>>

Redo(e) ==
    /\ ed[e].future # <<>> /\ ed[e].save.step = "idle"
    /\ ed' = [ed EXCEPT ![e].future = Front(@),
                        ![e].past   = Append(@, ed[e].model),
                        ![e].model  = Last(ed[e].future)]
    /\ UNCHANGED <<versions, by, copy, edits, rare, raced>>

Unsaved(e) == ed[e].phase = "ready" /\ ed[e].model # ed[e].saved

KeepCopy(e) ==
    /\ Unsaved(e)
    /\ copy' = [copy EXCEPT ![e] = [base |-> ed[e].saved, source |-> ed[e].model]]
    /\ UNCHANGED <<versions, by, ed, edits, rare, raced>>

-----------------------------------------------------------------------------
(* Saving                                                                  *)

\* One turn of the loop in save of the editor, up to the call of onSave.
Turn(editor) ==
    [editor EXCEPT !.save = [NoSave EXCEPT !.step = "validating",
        !.source = editor.model, !.base = editor.saved]]

StartSave(e) ==
    /\ Unsaved(e)
    /\ ed[e].save.step = "idle"
    /\ ed' = [ed EXCEPT ![e] = Turn(@)]
    /\ copy' = [copy EXCEPT ![e] = [base |-> ed[e].saved, source |-> ed[e].model]]
    /\ UNCHANGED <<versions, by, edits, rare, raced>>

\* A mutant of GiveUp: the copy is deleted whether the save succeeded or not.
GiveUpMutant(e, editor) ==
    /\ ed' = [ed EXCEPT ![e] = [editor EXCEPT !.save = NoSave]]
    /\ copy' = [copy EXCEPT ![e] = NoCopy]

\* The loop ends with an error: what the save brought the editor stays, and so does
\* the copy.
GiveUp(e, editor) ==
    /\ ed' = [ed EXCEPT ![e] = [editor EXCEPT !.save = NoSave]]
    /\ UNCHANGED copy

\* What the editor does with the stored document: what was typed meanwhile is merged
\* into it; the loop ends, and the copy is deleted, when nothing is left to save.
TakeStored(e, editor, stored) ==
    LET merged == Merge(editor.save.source, editor.model, stored)
        taken  == IF merged = editor.model THEN [editor EXCEPT !.saved = stored]
                  ELSE [editor EXCEPT !.saved = stored, !.model = merged,
                                      !.past = <<>>, !.future = <<>>]
    IN  \/ merged = Conflict /\ GiveUp(e, editor)
        \/ /\ merged = stored
           /\ ed'   = [ed EXCEPT ![e] = [taken EXCEPT !.save = NoSave]]
           /\ copy' = [copy EXCEPT ![e] = NoCopy]
        \/ /\ merged \notin {Conflict, stored}
           /\ ed'   = [ed EXCEPT ![e] = Turn(taken)]
           /\ copy' = [copy EXCEPT ![e] = [base |-> stored, source |-> merged]]

\* The save of the dialog: a merge with the latest version it knows, then the request.
Send(e) ==
    /\ ed[e].save.step = "validating"
    /\ LET save    == ed[e].save
           current == versions[ed[e].latest]
           merged  == Merge(save.base, save.source, current)
       IN  \/ merged = Conflict /\ GiveUp(e, ed[e])
           \/ merged = current /\ TakeStored(e, ed[e], merged)
           \/ /\ merged \notin {Conflict, current}
              /\ ed' = [ed EXCEPT ![e].save.step = "sending", ![e].save.sent = merged,
                                  ![e].save.at = ed[e].latest]
              /\ UNCHANGED copy
    /\ UNCHANGED <<versions, by, edits, rare, raced>>

\* A mutant of Store: the version is not compared.
StoreMutant(e) == versions' = Append(versions, ed[e].save.sent) /\ by' = e

\* save of xml_documents.rs: the row is locked, its version compared, then replaced.
Store(e) ==
    IF ed[e].save.at = Len(versions)
    THEN versions' = Append(versions, ed[e].save.sent) /\ by' = e
    ELSE UNCHANGED <<versions, by>>

ServeSave(e) ==
    /\ ed[e].save.step = "sending"
    /\ Store(e)
    /\ ed' = [ed EXCEPT ![e].save.step = IF ed[e].save.at = Len(versions) THEN "stored" ELSE "refused",
                        ![e].save.at   = @ + 1]
    /\ UNCHANGED <<copy, edits, rare, raced>>

\* The request or its answer is lost.
LoseSave(e) ==
    /\ ed[e].save.step = "sending"
    /\ Rare(e)
    /\ Store(e) \/ UNCHANGED <<versions, by>>
    /\ ed' = [ed EXCEPT ![e].save.step = "failed"]
    /\ UNCHANGED <<copy, edits, raced>>

SaveAnswered(e) ==
    /\ ed[e].save.step = "stored"
    /\ LET v      == ed[e].save.at
           newest == IF v >= ed[e].latest THEN v ELSE ed[e].latest
           editor == [ed[e] EXCEPT !.latest = newest, !.remote = newest,
                                   !.snapshot = IF v >= @ THEN v ELSE @]
       IN  TakeStored(e, editor, ed[e].save.sent)
    /\ UNCHANGED <<versions, by, edits, rare, raced>>

\* "changed in another editor": load the current version and merge again.
SaveRefused(e) ==
    /\ ed[e].save.step = "refused"
    /\ LET tries == ed[e].save.tries + 1
       IN  ed' = [ed EXCEPT ![e].latest = Len(versions),
                            ![e].save = IF tries = MaxTries THEN NoSave
                                        ELSE [@ EXCEPT !.step = "validating", !.sent = Fresh,
                                                       !.at = 0, !.tries = tries]]
    /\ UNCHANGED <<versions, by, copy, edits, rare, raced>>

SaveFailed(e) ==
    /\ ed[e].save.step = "failed"
    /\ GiveUp(e, ed[e])
    /\ UNCHANGED <<versions, by, edits, rare, raced>>

-----------------------------------------------------------------------------
(* Versions of others: the live connection and the editor                  *)

\* A message (ready or changed) names a newer version than the connection has: load.
Refresh(e) ==
    /\ Open(e)
    /\ ed[e].load = 0 /\ ed[e].snapshot < Len(versions)
    /\ ed' = [ed EXCEPT ![e].load = Len(versions)]
    /\ UNCHANGED <<versions, by, copy, edits, rare, raced>>

\* A mutant of Loaded: the snapshot is kept but not handed to the editor.
LoadedMutant(e) ==
    /\ ed[e].load # 0
    /\ LET v == ed[e].load
       IN  ed' = [ed EXCEPT ![e].load     = 0,
                            ![e].latest   = IF v >= @ THEN v ELSE @,
                            ![e].snapshot = IF v >= @ THEN v ELSE @]
    /\ UNCHANGED <<versions, by, copy, edits, rare, raced>>

Loaded(e) ==
    /\ ed[e].load # 0
    /\ LET v == ed[e].load
       IN  ed' = [ed EXCEPT ![e].load     = 0,
                            ![e].latest   = IF v >= @ THEN v ELSE @,
                            ![e].snapshot = IF v >= @ THEN v ELSE @,
                            ![e].remote   = IF v >= ed[e].snapshot /\ v >= ed[e].latest THEN v ELSE @]
    /\ UNCHANGED <<versions, by, copy, edits, rare, raced>>

\* A mutant of TakeRemote: the undo history survives a change of others.
TakeRemoteMutant(e) ==
    /\ ed[e].remote # 0
    /\ ed[e].observed # 0 => versions[ed[e].remote] # versions[ed[e].observed]
    /\ ed[e].save.step = "idle"
    /\ LET remote == versions[ed[e].remote]
           merged == Merge(ed[e].saved, ed[e].model, remote)
           seen   == [ed[e] EXCEPT !.observed = ed[e].remote]
       IN  ed' = [ed EXCEPT ![e] =
                    IF remote = ed[e].saved \/ merged = Conflict THEN seen
                    ELSE [seen EXCEPT !.model = merged, !.saved = remote]]
    /\ UNCHANGED <<versions, by, copy, edits, rare, raced>>

\* The editor's effect on remoteXml; it waits for a save that is under way.
TakeRemote(e) ==
    /\ ed[e].remote # 0
    /\ ed[e].observed # 0 => versions[ed[e].remote] # versions[ed[e].observed]
    /\ ed[e].save.step = "idle"
    /\ LET remote == versions[ed[e].remote]
           merged == Merge(ed[e].saved, ed[e].model, remote)
           seen   == [ed[e] EXCEPT !.observed = ed[e].remote]
       IN  ed' = [ed EXCEPT ![e] =
                    IF remote = ed[e].saved \/ merged = Conflict THEN seen
                    ELSE [seen EXCEPT !.model = merged, !.saved = remote,
                                      !.past = <<>>, !.future = <<>>]]
    /\ UNCHANGED <<versions, by, copy, edits, rare, raced>>

-----------------------------------------------------------------------------

UserStep ==
    \E e \in Editors :
        \/ OpenDialog(e) \/ Close(e) \/ Crash(e) \/ Undo(e) \/ Redo(e)
        \/ \E f \in Fields : Edit(e, f)

\* The editor's own chain of callbacks: one of these at a time.
EditorStep(e) ==
    Restore(e) \/ StartSave(e) \/ Send(e) \/ ServeSave(e)
        \/ SaveAnswered(e) \/ SaveRefused(e) \/ SaveFailed(e)

LiveStep(e) == Refresh(e) \/ Loaded(e)

SystemStep(e) == EditorStep(e) \/ KeepCopy(e) \/ LiveStep(e) \/ TakeRemote(e)

Next == UserStep \/ \E e \in Editors : SystemStep(e) \/ LoseSave(e)

Spec == Init /\ [][Next]_vars

\* Timers fire, requests are answered, the live connection announces versions.
FairSpec ==
    /\ Spec
    /\ \A e \in Editors :
        WF_vars(EditorStep(e)) /\ WF_vars(LiveStep(e)) /\ SF_vars(TakeRemote(e))

-----------------------------------------------------------------------------
(* Properties                                                              *)

EditingTypeOK ==
    /\ versions \in Seq(Docs)
    /\ by \in Editors
    /\ ed \in [Editors -> Editor]
    /\ copy \in [Editors -> [base : Docs, source : Docs] \cup {NoCopy}]
    /\ edits \in Seq([by : Editors, under : Values])
    /\ \A e \in Editors : rare[e] \in 0..MaxRare[e]
    /\ raced \in BOOLEAN

\* The values v was put on top of, and v itself.
Line(v) ==
    LET line[w \in 0..Len(edits)] == IF w = 0 THEN {0} ELSE {w} \cup line[edits[w].under]
    IN  line[v]

\* w of e may take the place of v: what v has and w lacks was withdrawn by e itself.
Supersedes(w, v, e) == \A u \in Line(v) \ Line(w) : edits[u].by = e

\* A save never replaces a value its author had not before them (merge.ts: "never
\* resolve an ambiguous business value by silently overwriting another editor"), with
\* late answers, lost answers, undo, crashes and restored copies.
NothingUnseenIsOverwritten ==
    [][\A f \in Fields :
        Last(versions')[f] # Server[f] => Supersedes(Last(versions')[f], Server[f], by')]_vars

\* The same, except after a copy was restored over a version that arrived first.
OverwritesOnlyWhatWasSeen ==
    [][raced \/ \A f \in Fields :
        Last(versions')[f] # Server[f] => Supersedes(Last(versions')[f], Server[f], by')]_vars

\* A change in the recovery copy that the editor still shows leaves the copy only when
\* the server has it or something entered over it (technik.md: IndexedDB holds
\* unconfirmed XML).
CopiesOutliveUnconfirmedWork ==
    [][\A e \in Editors : copy[e] # NoCopy =>
        \A f \in Fields :
            LET v == copy[e].source[f]
            IN  \/ v = copy[e].base[f] \/ v # ed[e].model[f]
                \/ copy'[e] # NoCopy /\ copy'[e].source[f] = v
                \/ \E n \in 1..Len(versions') : v \in Line(versions'[n][f])]_vars

\* What is on display is never older than what has been seen: undo does not bring back
\* a value that a colleague has replaced.
UndoKeepsForeignWork ==
    [][\A e \in Editors : Undo(e) \/ Redo(e) =>
        \A f \in Fields :
            LET old == ed[e].model[f] new == ed'[e].model[f]
            IN  old = new \/ (old # 0 /\ edits[old].by = e) \/ (new # 0 /\ edits[new].by = e)]_vars

\* After a conflict the editor does not look at that version again, even when undo or
\* redo withdraws the change that was in its way: it then shows its old base.
Withdrawn(e) ==
    /\ ed[e].model = ed[e].saved
    /\ ed[e].past # <<>> \/ ed[e].future # <<>>
    /\ ed[e].observed # 0 /\ versions[ed[e].observed] = Server

Agrees(e) ==
    ed[e].phase = "ready" =>
        \/ ed[e].model = Server
        \/ Merge(ed[e].saved, ed[e].model, Server) = Conflict
        \/ Withdrawn(e)

\* Users do finitely many things here; then all editors end up with the stored
\* document, unless there is a conflict that only a user can resolve or has just
\* withdrawn from.
EditorsConverge == <>[](\A e \in Editors : Agrees(e))
=============================================================================
