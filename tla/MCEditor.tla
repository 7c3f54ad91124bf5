------------------------------ MODULE MCEditor ------------------------------
(***************************************************************************)
(* The deck editor for TLC: what becomes of a text on its way through the  *)
(* parser, the document and the writer (DeckDocument), or the files,       *)
(* tasks and history of a document that is only its text (DeckEditor).  A  *)
(* behaviour is one of either.                                             *)
(***************************************************************************)
EXTENDS MCText

CONSTANTS Files, Texts, Bad, Template, Instance, None, MAX_HISTORY, MaxLoads, MaxSaves,
          Overlap

VARIABLES panel, deckPath, templated, ed, loads, saves, file, temp

fileVars == <<deckPath, templated, ed, loads, saves, file, temp>>
vars == <<panel, fileVars, docVars>>

Editor == INSTANCE DeckEditor

ASSUME EditorAndDocument == Editor!EditorAssumption /\ DocumentAssumption

\* The files of a behaviour about a text stay as they are; so does its text of one about
\* the files.
Init == /\ panel \in {"files", "text"}
        /\ Editor!Init /\ DocInit
        /\ panel = "files" => alphabet = "tapers"
        /\ panel = "text" => file = [f \in Files |-> Editor!Whole(Instance)]

FilesStep == panel = "files" /\ Editor!Next /\ UNCHANGED <<panel, docVars>>
TextStep == panel = "text" /\ DocNext /\ UNCHANGED <<panel, fileVars>>

Next == FilesStep \/ TextStep

Spec == Init /\ [][Next]_vars

\* The deck files are interchangeable.
Symmetry == Permutations(Files)
-----------------------------------------------------------------------------
TypeOK == Editor!TypeOK /\ DocTypeOK

\* A deck file is one whole deck, whichever step of a save is interrupted, fails, or is
\* being taken, and no error path leaves a temporary file (FND-152).
FilesWhole == Editor!FilesWhole

\* The document and its snapshots came from one load, and a plain save writes the file it
\* was read from or saved to, and no template (FND-103, FND-153).
DocumentOfItsFile == Editor!DocumentOfItsFile

\* A save that marks the document unmodified has left in its file the text that is in the
\* editor (FND-133).
SavedIsOnDisk == Editor!SavedIsOnDisk
=============================================================================
