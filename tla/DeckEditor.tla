---------------------------- MODULE DeckEditor ----------------------------
(***************************************************************************)
(* The visual deck editor: its document, its undo history, and the tasks   *)
(* that load the document from a deck file and save it back                *)
(* (apps/nec-gui/src/app_state.rs, model_doc.rs, deck_write.rs and the     *)
(* spawns of main.rs).                                                     *)
(*                                                                         *)
(* A document is its text: one that renders, or Bad, a half-typed field.   *)
(* A deck file holds a text, or Template, a text with $VARIABLES in it     *)
(* that loads, through a vars file, as the text Instance.  A file's        *)
(* content is two halves, so that a writer can be seen between them; a     *)
(* save writes a temporary file and renames it.  The process may die       *)
(* between any two steps and start again on the files it left (under a new *)
(* process id, so that a temporary file it left is never used again).      *)
(*                                                                         *)
(* from, owned and own are history: the file a document was read from, the *)
(* files it has been read from or saved to, and whether a save was asked   *)
(* for by path or is to one of those.                                      *)
(***************************************************************************)
EXTENDS Integers, Sequences, FiniteSets

CONSTANTS Files,
          Texts,       \* texts that render and load
          Bad,         \* a document that does not render
          Template, Instance,
          None,
          MAX_HISTORY,
          MaxLoads, MaxSaves, \* bounds: tasks in flight
          Overlap      \* may a file be saved while a save to it is in flight?

EditorAssumption ==
    /\ Instance \in Texts /\ {Bad, Template, None} \cap Texts = {}
    /\ Bad # Template /\ None \notin {Bad, Template} \cup Files
    /\ MAX_HISTORY \in Nat \ {0} /\ {MaxLoads, MaxSaves} \subseteq Nat /\ Overlap \in BOOLEAN

VARIABLES deckPath, templated,  \* deck_path, and whether vars_path is set
          ed,                   \* EditorState
          loads, saves,         \* the tasks in flight
          file, temp            \* the deck files, and the temporary of each

session == <<deckPath, templated, ed, loads, saves>>
vars == <<session, file, temp>>

Absent == None
Whole(t) == <<t, t>>
Contents == (Texts \cup {Template, None}) \X (Texts \cup {Template, None})

Doc == [text : Texts \cup {Bad}, dirty : BOOLEAN, from : Files \cup {None}]
NoDoc == [text |-> Instance, dirty |-> FALSE, from |-> None]

Runs == 0 .. MaxLoads + MaxSaves + 2
EditorState ==
    [doc : Doc, undo : Seq(Doc), redo : Seq(Doc),
     typing : BOOLEAN,                          \* last_key: a typing run is open
     filePath : Files \cup {None}, fromTemplate : BOOLEAN,
     loadRun : Runs, saveRun : Runs,            \* 0 for none
     owned : SUBSET Files]
NoEditor == [doc |-> NoDoc, undo |-> <<>>, redo |-> <<>>, typing |-> FALSE,
             filePath |-> None, fromTemplate |-> FALSE, loadRun |-> 0, saveRun |-> 0,
             owned |-> {}]

Load == [run : Runs, path : Files, templated : BOOLEAN, got : Texts \cup {None, "failed"}]
Save == [run : Runs, path : Files \cup {None}, text : Texts \cup {Bad},
         at : {"dialog", "create", "begin", "finish", "rename", "saved", "failed"},
         to : {"nothing", "temp", "file"},      \* the file its descriptor names now
         own : BOOLEAN]

TypeOK == /\ deckPath \in Files /\ templated \in BOOLEAN
          /\ ed \in EditorState
          /\ Len(ed.undo) + Len(ed.redo) <= MAX_HISTORY
          /\ loads \subseteq Load /\ saves \subseteq Save
          /\ file \in [Files -> Contents] /\ temp \in [Files -> Contents \cup {Absent}]

Init == /\ deckPath \in Files /\ templated = FALSE
        /\ ed = NoEditor
        /\ loads = {} /\ saves = {}
        /\ file \in [Files -> {Whole(t) : t \in Texts \cup {Template}}]
        /\ temp = [f \in Files |-> Absent]

\* mint_run.  Ids are only compared, so an id that nothing holds any more stands
\* for the next new one.
InUse == {ed.loadRun, ed.saveRun} \cup {l.run : l \in loads} \cup {s.run : s \in saves}
Mint == CHOOSE r \in Runs \ {0} : r \notin InUse

Loaded == ed.filePath # None
Renders(d) == d.text # Bad
-----------------------------------------------------------------------------
(* The history (EditHistory)                                               *)

\* Mutant: the history is not bounded.
PushedAll(stack, d) == Append(stack, d)

\* push_undo: at MAX_HISTORY the oldest snapshot goes.
Pushed(stack, d) == LET s == Append(stack, d)
                    IN  IF Len(s) > MAX_HISTORY THEN Tail(s) ELSE s

\* Mutant: a save in flight outlives an edit.
KeepSaveRun(e) == [e EXCEPT !.loadRun = 0]

\* refresh_editor_preview: an edit retires a load and a save in flight, whether or
\* not the document renders.
Refreshed(e) == [e EXCEPT !.loadRun = 0, !.saveRun = 0]

Edited(e, t) == [e EXCEPT !.doc = [@ EXCEPT !.text = t, !.dirty = TRUE]]

\* before_field_edit: a typing run is one undo step.
BeforeField(e, same) ==
    IF e.typing /\ same THEN e
    ELSE [e EXCEPT !.undo = Pushed(@, e.doc), !.redo = <<>>, !.typing = TRUE]

BeforeStructural(e) == [e EXCEPT !.undo = Pushed(@, e.doc), !.redo = <<>>, !.typing = FALSE]

\* EditWireField, EditControl: to the field being typed into, or to another.
EditField(t) ==
    /\ Loaded
    /\ \E same \in BOOLEAN : ed' = Refreshed(Edited(BeforeField(ed, same), t))
    /\ UNCHANGED <<deckPath, templated, loads, saves, file, temp>>

\* EditWireAdd, EditWireDelete, EditAddControl, EditDeleteControl
EditRows(t) ==
    /\ Loaded
    /\ ed' = Refreshed(Edited(BeforeStructural(ed), t))
    /\ UNCHANGED <<deckPath, templated, loads, saves, file, temp>>

Undo ==
    /\ Loaded /\ ed.undo # <<>>
    /\ LET n == Len(ed.undo)
       IN  ed' = Refreshed([ed EXCEPT !.undo = SubSeq(@, 1, n - 1), !.doc = ed.undo[n],
                                      !.redo = Append(@, ed.doc), !.typing = FALSE])
    /\ UNCHANGED <<deckPath, templated, loads, saves, file, temp>>

Redo ==
    /\ Loaded /\ ed.redo # <<>>
    /\ LET n == Len(ed.redo)
       IN  ed' = Refreshed([ed EXCEPT !.redo = SubSeq(@, 1, n - 1), !.doc = ed.redo[n],
                                      !.undo = Append(@, ed.doc), !.typing = FALSE])
    /\ UNCHANGED <<deckPath, templated, loads, saves, file, temp>>
-----------------------------------------------------------------------------
(* The paths and the load                                                  *)

\* A load in flight is retired, a save is not: it has captured its target.
PathRetiresLoad(e) == [e EXCEPT !.loadRun = 0]

DeckPathChanged(f) ==
    /\ deckPath' = f
    /\ ed' = PathRetiresLoad(ed)
    /\ UNCHANGED <<templated, loads, saves, file, temp>>

VarsRetireLoad(e) == [e EXCEPT !.loadRun = 0]

VarsPathChanged(set) ==
    /\ templated' = set
    /\ ed' = VarsRetireLoad(ed)
    /\ UNCHANGED <<deckPath, loads, saves, file, temp>>

EditDeckLoad ==
    /\ Cardinality(loads) < MaxLoads
    /\ ed' = [ed EXCEPT !.loadRun = Mint]
    /\ loads' = loads \cup {[run |-> Mint, path |-> deckPath, templated |-> templated, got |-> None]}
    /\ UNCHANGED <<deckPath, templated, saves, file, temp>>

\* What a deck file loads as.  A template loads through a vars file only.
Parsed(content, withVars) ==
    IF content = Whole(Template) THEN (IF withVars THEN Instance ELSE "failed")
    ELSE IF content[1] \in Texts /\ content = Whole(content[1]) THEN content[1]
    ELSE "failed"

\* load_model_doc_path, which may also fail to read the deck or the vars file.
LoadReads(l) ==
    /\ l.got = None
    /\ \E got \in {Parsed(file[l.path], l.templated), "failed"} :
         loads' = (loads \ {l}) \cup {[l EXCEPT !.got = got]}
    /\ UNCHANGED <<deckPath, templated, ed, saves, file, temp>>

\* The document belongs to the deck path and to the vars path of now: an accepted
\* load is one they have not changed since.
Opened(e, l) ==
    Refreshed([e EXCEPT !.filePath = deckPath, !.fromTemplate = templated,
                        !.doc = [text |-> l.got, dirty |-> FALSE, from |-> l.path],
                        !.undo = <<>>, !.redo = <<>>, !.typing = FALSE,
                        !.owned = {l.path}])

EditDeckLoaded(l) ==
    /\ l.got # None
    /\ loads' = loads \ {l}
    /\ ed' = IF l.run # ed.loadRun THEN ed
             ELSE IF l.got = "failed" THEN [ed EXCEPT !.loadRun = 0]
             ELSE Opened(ed, l)
    /\ UNCHANGED <<deckPath, templated, saves, file, temp>>
-----------------------------------------------------------------------------
(* The saves                                                               *)

\* Mutant: the target is the path in the chrome (FND-103).
ChromeTarget(e) == IF e.fromTemplate THEN None ELSE deckPath

\* save_target: no plain save writes over a template.
SaveTarget(e) == IF e.fromTemplate THEN None ELSE e.filePath

Unsaved(f) == Overlap \/ \A s \in saves : s.path # f

SaveTask(f, place) ==
    [run |-> Mint, path |-> f, text |-> ed.doc.text, at |-> place, to |-> "nothing",
     own |-> place = "dialog" \/ f \in ed.owned]

\* A document that does not render is answered at once, with its error.
SaveDeck ==
    /\ Loaded /\ Cardinality(saves) < MaxSaves
    /\ SaveTarget(ed) # None /\ Unsaved(SaveTarget(ed))
    /\ IF Renders(ed.doc)
       THEN /\ ed' = [ed EXCEPT !.saveRun = Mint]
            /\ saves' = saves \cup {SaveTask(SaveTarget(ed), "create")}
       ELSE /\ ed' = [ed EXCEPT !.saveRun = 0]
            /\ UNCHANGED saves
    /\ UNCHANGED <<deckPath, templated, loads, file, temp>>

\* BrowseSaveDeck: the document is rendered now, whatever is edited while the
\* dialog is open.
BrowseSaveDeck ==
    /\ Loaded /\ Cardinality(saves) < MaxSaves
    /\ ed' = [ed EXCEPT !.saveRun = Mint]
    /\ saves' = saves \cup {SaveTask(None, "dialog")}
    /\ UNCHANGED <<deckPath, templated, loads, file, temp>>

Moved(s, t) == saves' = (saves \ {s}) \cup {t}
AtRest == UNCHANGED <<deckPath, templated, ed, loads>>

\* The dialog ends with a path, or is cancelled and leaves its run armed.
DialogEnds(s) ==
    /\ s.at = "dialog"
    /\ \/ s.text = Bad /\ Moved(s, [s EXCEPT !.at = "failed"])
       \/ s.text # Bad /\ \E f \in Files :
             Unsaved(f) /\ Moved(s, [s EXCEPT !.path = f, !.at = "create"])
       \/ saves' = saves \ {s}
    /\ UNCHANGED <<file, temp>> /\ AtRest

\* save_deck_file.  A temporary file that exists is truncated.
SaveCreates(s) ==
    /\ s.at = "create"
    /\ temp' = [temp EXCEPT ![s.path] = Whole(None)]
    /\ Moved(s, [s EXCEPT !.at = "begin", !.to = "temp"])
    /\ UNCHANGED file /\ AtRest

\* Mutant: the deck itself is written, as std::fs::write would (FND-152).
WrittenInPlace(s, half) ==
    /\ file' = [file EXCEPT ![s.path] = IF half = 1 THEN <<s.text, None>>
                                        ELSE [@ EXCEPT ![half] = s.text]]
    /\ UNCHANGED temp

\* The descriptor follows its file across a rename.
Written(s, half) ==
    /\ temp' = IF s.to = "temp" THEN [temp EXCEPT ![s.path][half] = s.text] ELSE temp
    /\ file' = IF s.to = "file" THEN [file EXCEPT ![s.path][half] = s.text] ELSE file

SaveWrites(s) ==
    /\ \/ s.at = "begin" /\ Written(s, 1) /\ Moved(s, [s EXCEPT !.at = "finish"])
       \/ s.at = "finish" /\ Written(s, 2) /\ Moved(s, [s EXCEPT !.at = "rename"])
    /\ AtRest

\* What becomes of the descriptors of one path when its temporary file goes.
Redirected(f, ss, renamed) ==
    {IF t.path # f THEN t
     ELSE [t EXCEPT !.to = IF t.to = "temp" /\ renamed THEN "file" ELSE "nothing"] : t \in ss}

SaveRenames(s) ==
    /\ s.at = "rename" /\ temp[s.path] # Absent
    /\ file' = [file EXCEPT ![s.path] = temp[s.path]]
    /\ temp' = [temp EXCEPT ![s.path] = Absent]
    /\ saves' = Redirected(s.path, saves \ {s}, TRUE)
                  \cup {[s EXCEPT !.at = "saved", !.to = "nothing"]}
    /\ AtRest

\* The temporary file is removed on every error path.
TempRemoved(s) == /\ temp' = [temp EXCEPT ![s.path] = Absent]
                  /\ saves' = Redirected(s.path, saves \ {s}, FALSE)
                                \cup {[s EXCEPT !.at = "failed", !.to = "nothing"]}

\* A disk that is full, a directory that may not be written, a temporary file that
\* is gone: any step may fail.
SaveFails(s) ==
    /\ s.at \in {"create", "begin", "finish", "rename"}
    /\ TempRemoved(s)
    /\ UNCHANGED file /\ AtRest

\* mark_saved, and the document bound to the file it was written to.
MarkedSaved(e, f) == [e EXCEPT !.saveRun = 0, !.filePath = f, !.fromTemplate = FALSE,
                               !.doc.dirty = FALSE, !.owned = @ \cup {f}]

DeckSaved(s) ==
    /\ s.at \in {"saved", "failed"}
    /\ saves' = saves \ {s}
    /\ ed' = IF s.run # ed.saveRun THEN ed
             ELSE IF s.at = "failed" THEN [ed EXCEPT !.saveRun = 0]
             ELSE MarkedSaved(ed, s.path)
    /\ UNCHANGED <<deckPath, templated, loads, file, temp>>

\* The process dies, and is started again on the files it left.
Crash ==
    /\ deckPath' \in Files /\ templated' = FALSE
    /\ ed' = NoEditor
    /\ loads' = {} /\ saves' = {}
    /\ temp' = [f \in Files |-> Absent]
    /\ UNCHANGED file
-----------------------------------------------------------------------------
User == \/ \E t \in Texts \cup {Bad} : EditField(t) \/ EditRows(t)
        \/ Undo \/ Redo
        \/ \E f \in Files : DeckPathChanged(f)
        \/ \E set \in BOOLEAN : VarsPathChanged(set)
        \/ EditDeckLoad \/ SaveDeck \/ BrowseSaveDeck

Tasks == \/ \E l \in loads : LoadReads(l) \/ EditDeckLoaded(l)
         \/ \E s \in saves : \/ DialogEnds(s) \/ SaveCreates(s) \/ SaveWrites(s)
                             \/ SaveRenames(s) \/ SaveFails(s) \/ DeckSaved(s)

Next == User \/ Tasks \/ Crash

Spec == Init /\ [][Next]_vars
-----------------------------------------------------------------------------
(* Properties                                                              *)

\* A deck file is always one whole deck, the old one or the new one (deck_write.rs:291).
NoPartialDeck == \A f \in Files : \E t \in Texts \cup {Template} : file[f] = Whole(t)

\* A deck file is one whole deck, whichever step of a save is interrupted, fails, or is
\* being taken (FND-152), and a temporary file is one a save in flight is writing: no
\* error path leaves one.
FilesWhole ==
    /\ NoPartialDeck
    /\ \A f \in Files : temp[f] # Absent => \E s \in saves : s.path = f /\ s.to = "temp"

\* The document, and every snapshot undo or redo can bring back, came from one
\* load, and the file a plain save writes is one that this document was read from or
\* saved to: never the path in the chrome, nor another document's file (FND-103); and
\* no plain save replaces a file that holds $VARIABLES: such a document is saved
\* elsewhere (FND-153), whatever was typed into either path while it was loading.
DocumentOfItsFile ==
    /\ Loaded => ed.filePath \in ed.owned
    /\ \A d \in {ed.undo[i] : i \in DOMAIN ed.undo} \cup {ed.redo[i] : i \in DOMAIN ed.redo} :
         d.from = ed.doc.from
    /\ \A s \in saves : s.own
    /\ \A f \in Files : file[f] = Whole(Template) /\ ed.filePath = f => ed.fromTemplate

\* "The document tracks a `dirty` flag (set on any edit, cleared on save)" (model_doc.rs:13):
\* with no save in flight, a document not marked "unsaved" is what its file holds.  The code
\* breaks it: an undo past a save, or while it writes, restores a snapshot with the flag it
\* had before; and a load may read the file a save in flight is about to replace.
UnmarkedIsOnDisk ==
    Loaded /\ ~ed.doc.dirty /\ ~ed.fromTemplate /\ saves = {}
        => file[ed.filePath] = Whole(ed.doc.text)

\* A save that marks the document unmodified has left in its file the text that is
\* in the editor: an edit made while it was in flight keeps its mark (FND-133).
SavedIsOnDisk ==
    [][\A s \in saves : DeckSaved(s) /\ s.at = "saved" /\ ed' # ed
         => file'[ed'.filePath] = Whole(ed'.doc.text)]_vars
=============================================================================
