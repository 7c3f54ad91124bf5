---------------------------- MODULE EditorProofs ----------------------------
(***************************************************************************)
(* Proofs about the deck editor, in the behaviours of MCEditor.            *)
(*                                                                         *)
(* Of its files, tasks and history (DeckEditor), for any files and texts,  *)
(* any length of history and any number of loads and saves in flight,      *)
(* whenever the process dies: what the document says of its file holds     *)
(* even where a file is saved twice at once; that a file is one whole deck *)
(* needs one save at a time.                                               *)
(*                                                                         *)
(* Of the parser of its text (DeckText, in the behaviours of               *)
(* DeckDocument), for any lines and texts of any length: what a deck says  *)
(* is in its cards, or is warned of.                                       *)
(***************************************************************************)
EXTENDS MCEditor, FiniteSetTheorems, SequenceTheorems, WellFoundedInduction, TLAPS

\* The tasks in flight are as many as are allowed, and each has a run of its own kind.
InFlight ==
    /\ IsFiniteSet(loads) /\ Cardinality(loads) <= MaxLoads
    /\ IsFiniteSet(saves) /\ Cardinality(saves) <= MaxSaves
    /\ \A l \in loads : l.run # 0
    /\ \A s \in saves : s.run # 0

\* A save has its file, and a text that renders, from the moment it writes, and what its
\* descriptor names as a temporary file is there.
SavesFormed ==
    \A s \in saves :
        /\ s.to = "temp" => temp[s.path] \in Editor!Contents
        /\ s.at \in {"dialog", "create", "saved", "failed"} => s.to = "nothing"
        /\ s.at \in {"create", "begin", "finish", "rename", "saved"} =>
             s.path \in Files /\ s.text \in Texts

TypeInv == Editor!TypeOK /\ InFlight /\ SavesFormed

Snapshots(e) == {e.undo[i] : i \in DOMAIN e.undo} \cup {e.redo[i] : i \in DOMAIN e.redo}

\* The load the editor waits for is of the deck path and the vars file of now, and what
\* was read without one was no template.
LoadsCurrent ==
    \A l \in loads :
        /\ l.run = ed.loadRun => l.path = deckPath /\ l.templated = templated
        /\ l.got \notin {None, "failed"} /\ ~l.templated => file[l.path] # Editor!Whole(Template)

\* No step of a save makes a template.
NoTemplateSaved ==
    /\ \A f \in Files : temp[f] # None => temp[f] # Editor!Whole(Template)
    /\ \A s \in saves : s.at = "saved" => file[s.path] # Editor!Whole(Template)

\* The save the editor waits for is of the document of now.
AwaitedText == \A s \in saves : s.run = ed.saveRun => s.text = ed.doc.text

DocumentInv == Editor!DocumentOfItsFile /\ LoadsCurrent /\ NoTemplateSaved /\ AwaitedText

\* Where one file has one save in flight, its temporary file holds what that save has
\* written of its text.
WriterInv ==
    /\ \A s, t \in saves : s.path = t.path /\ s.path # None => s = t
    /\ \A s \in saves :
         /\ s.to = "file" => FALSE
         /\ s.at \in {"begin", "finish", "rename"} => s.to = "temp"
         /\ s.at = "begin" => temp[s.path] = <<None, None>>
         /\ s.at = "finish" => temp[s.path] = <<s.text, None>>
         /\ s.at = "rename" => temp[s.path] = <<s.text, s.text>>
         /\ s.at = "saved" => file[s.path] = <<s.text, s.text>>
    /\ Editor!FilesWhole
-----------------------------------------------------------------------------
(* Counting tasks                                                          *)

\* The instance's count is the count.
LEMMA SameCount == \A S : Editor!Cardinality(S) = Cardinality(S)
BY DEF Editor!Cardinality, Cardinality

\* One more element is at most one more to count.
LEMMA OneMore ==
    ASSUME NEW S, IsFiniteSet(S), NEW x
    PROVE  /\ IsFiniteSet(S \cup {x}) /\ Cardinality(S \cup {x}) \in Nat
           /\ Cardinality(S \cup {x}) <= Cardinality(S) + 1
<1>1. /\ Cardinality(S) \in Nat /\ IsFiniteSet(S \cup {x})
      /\ Cardinality(S \cup {x}) = IF x \in S THEN Cardinality(S) ELSE Cardinality(S) + 1
  BY FS_AddElement, FS_CardinalityType
<1>2. Cardinality(S \cup {x}) \in Nat
  BY <1>1, FS_CardinalityType
<1> QED BY <1>1, <1>2

\* What is left without one, or with another in its place, is no more.
LEMMA OneReplaced ==
    ASSUME NEW S, IsFiniteSet(S), NEW x \in S
    PROVE  /\ IsFiniteSet(S \ {x}) /\ Cardinality(S \ {x}) <= Cardinality(S)
           /\ \A y : /\ IsFiniteSet((S \ {x}) \cup {y})
                     /\ Cardinality((S \ {x}) \cup {y}) <= Cardinality(S)
<1>1. /\ Cardinality(S) \in Nat /\ IsFiniteSet(S \ {x}) /\ Cardinality(S \ {x}) = Cardinality(S) - 1
  BY FS_RemoveElement, FS_CardinalityType
<1>2. ASSUME NEW y
      PROVE  /\ IsFiniteSet((S \ {x}) \cup {y}) /\ Cardinality((S \ {x}) \cup {y}) <= Cardinality(S)
  <2> DEFINE T == S \ {x}
  <2>1. IsFiniteSet(T) /\ Cardinality(T) = Cardinality(S) - 1
    BY <1>1
  <2> HIDE DEF T
  <2>2. /\ IsFiniteSet(T \cup {y}) /\ Cardinality(T \cup {y}) \in Nat
        /\ Cardinality(T \cup {y}) <= Cardinality(T) + 1
    BY <2>1, OneMore
  <2>3. IsFiniteSet(T \cup {y}) /\ Cardinality(T \cup {y}) <= Cardinality(S)
    BY <1>1, <2>1, <2>2
  <2> QED BY <2>3 DEF T
<1> QED BY <1>1, <1>2

\* The runs of the tasks of a set are no more than the tasks.
LEMMA RunsOf ==
    ASSUME NEW S, IsFiniteSet(S)
    PROVE  /\ IsFiniteSet({x.run : x \in S}) /\ Cardinality({x.run : x \in S}) \in Nat
           /\ Cardinality({x.run : x \in S}) <= Cardinality(S)
<1> DEFINE Ids == {x.run : x \in S}
           f == [x \in S |-> x.run]
<1>1. f \in Surjection(S, Ids)
  BY DEF Surjection
<1>2. IsFiniteSet(Ids) /\ Cardinality(Ids) <= Cardinality(S)
  <2> HIDE DEF f, Ids
  <2> QED BY <1>1, FS_Surjection
<1>3. Cardinality(Ids) \in Nat
  BY <1>2, FS_CardinalityType
<1> QED BY <1>2, <1>3

\* mint_run finds a run id nothing holds while one more task is allowed.
LEMMA MintFacts ==
    ASSUME TypeInv, Cardinality(loads) < MaxLoads \/ Cardinality(saves) < MaxSaves
    PROVE  /\ Editor!Mint \in Editor!Runs \ {0}
           /\ Editor!Mint # ed.loadRun /\ Editor!Mint # ed.saveRun
           /\ \A l \in loads : l.run # Editor!Mint
           /\ \A s \in saves : s.run # Editor!Mint
<1> DEFINE A == {l.run : l \in loads}
           B == {s.run : s \in saves}
           N == MaxLoads + MaxSaves
           U == A \cup B
           V == U \cup {ed.loadRun}
           W == V \cup {ed.saveRun}
           S == 1 .. N + 2
<1>1. /\ MaxLoads \in Nat /\ MaxSaves \in Nat /\ IsFiniteSet(loads) /\ IsFiniteSet(saves)
      /\ Cardinality(loads) <= MaxLoads /\ Cardinality(saves) <= MaxSaves
      /\ Cardinality(loads) \in Nat /\ Cardinality(saves) \in Nat
  BY EditorAndDocument, FS_CardinalityType DEF TypeInv, InFlight, Editor!EditorAssumption
<1>2. /\ IsFiniteSet(A) /\ Cardinality(A) \in Nat /\ Cardinality(A) <= Cardinality(loads)
      /\ IsFiniteSet(B) /\ Cardinality(B) \in Nat /\ Cardinality(B) <= Cardinality(saves)
  BY <1>1, RunsOf
<1>3. IsFiniteSet(U) /\ Cardinality(U) \in Nat /\ Cardinality(U) <= N - 1
  <2> HIDE DEF A, B
  <2>1. /\ IsFiniteSet(U) /\ Cardinality(U) = Cardinality(A) + Cardinality(B) - Cardinality(A \cap B)
    BY <1>2, FS_Union
  <2>2. IsFiniteSet(A \cap B) /\ Cardinality(A \cap B) \in Nat
    <3>1. A \cap B \in SUBSET A
      OBVIOUS
    <3>2. IsFiniteSet(A \cap B)
      BY <1>2, <3>1, FS_Subset
    <3> QED BY <3>2, FS_CardinalityType
  <2>3. Cardinality(U) \in Nat
    BY <2>1, FS_CardinalityType
  <2> QED BY <1>1, <1>2, <2>1, <2>2, <2>3
<1>4. IsFiniteSet(W) /\ Cardinality(W) \in Nat /\ Cardinality(W) <= N + 1
  <2>1. IsFiniteSet(V) /\ Cardinality(V) \in Nat /\ Cardinality(V) <= Cardinality(U) + 1
    <3> HIDE DEF U
    <3> QED BY <1>3, OneMore
  <2>2. IsFiniteSet(W) /\ Cardinality(W) \in Nat /\ Cardinality(W) <= Cardinality(V) + 1
    <3> HIDE DEF V
    <3> QED BY <2>1, OneMore
  <2> HIDE DEF U, V, W
  <2> QED BY <1>1, <1>3, <2>1, <2>2
<1>5. Cardinality(S) = N + 2
  BY <1>1, FS_Interval
<1>6. PICK r \in S : r \notin W
  <2>1. CASE S \subseteq W
    <3> HIDE DEF S, W
    <3>1. Cardinality(S) <= Cardinality(W)
      BY <1>4, <2>1, FS_Subset
    <3> QED BY <1>1, <1>4, <1>5, <3>1
  <2> QED BY <2>1
<1>7. r \in Editor!Runs \ {0} /\ r \notin Editor!InUse
  BY <1>1, <1>6 DEF Editor!Runs, Editor!InUse
<1>8. Editor!Mint \in Editor!Runs \ {0} /\ Editor!Mint \notin Editor!InUse
  BY <1>7 DEF Editor!Mint
<1> QED BY <1>8 DEF Editor!InUse
-----------------------------------------------------------------------------
(* The history                                                             *)

\* push_undo keeps a bounded stack bounded, and adds the document to it and nothing else.
LEMMA PushedFacts ==
    ASSUME NEW S, NEW stack \in Seq(S), NEW d \in S, Len(stack) <= MAX_HISTORY
    PROVE  /\ Editor!Pushed(stack, d) \in Seq(S)
           /\ Len(Editor!Pushed(stack, d)) <= MAX_HISTORY
           /\ \A i \in DOMAIN Editor!Pushed(stack, d) :
                Editor!Pushed(stack, d)[i] \in {stack[j] : j \in DOMAIN stack} \cup {d}
<1> DEFINE s == Append(stack, d)
<1>1. /\ s \in Seq(S) /\ Len(stack) \in Nat /\ Len(s) = Len(stack) + 1 /\ s[Len(stack) + 1] = d
      /\ \A i \in 1 .. Len(stack) : s[i] = stack[i]
      /\ DOMAIN stack = 1 .. Len(stack)
  BY AppendProperties
<1>2. \A i \in 1 .. Len(s) : s[i] \in {stack[j] : j \in DOMAIN stack} \cup {d}
  <2>1. \A i \in 1 .. Len(s) : i \in 1 .. Len(stack) \/ i = Len(stack) + 1
    BY <1>1
  <2> HIDE DEF s
  <2> QED BY <1>1, <2>1
<1>3. Editor!Pushed(stack, d) = IF Len(s) > MAX_HISTORY THEN Tail(s) ELSE s
  BY DEF Editor!Pushed
<1>4. MAX_HISTORY \in Nat
  BY EditorAndDocument DEF Editor!EditorAssumption
<1> HIDE DEF s
<1>5. CASE Len(s) > MAX_HISTORY
  <2>1. s # <<>>
    BY <1>1
  <2>2. /\ Tail(s) \in Seq(S) /\ Len(Tail(s)) = Len(s) - 1
        /\ \A i \in 1 .. Len(Tail(s)) : Tail(s)[i] = s[i + 1]
    BY <1>1, <2>1, HeadTailProperties
  <2>3. DOMAIN Tail(s) = 1 .. Len(Tail(s)) /\ \A i \in 1 .. Len(Tail(s)) : i + 1 \in 1 .. Len(s)
    BY <1>1, <2>2
  <2> QED BY <1>1, <1>2, <1>3, <1>4, <1>5, <2>2, <2>3
<1>6. CASE ~(Len(s) > MAX_HISTORY)
  <2>1. DOMAIN s = 1 .. Len(s)
    BY <1>1
  <2> QED BY <1>1, <1>2, <1>3, <1>4, <1>6, <2>1
<1> QED BY <1>5, <1>6
\* The fields of the editor.
LEMMA EditorFields ==
    ASSUME NEW e \in Editor!EditorState
    PROVE  /\ e.doc \in Editor!Doc /\ e.undo \in Seq(Editor!Doc) /\ e.redo \in Seq(Editor!Doc)
           /\ e.typing \in BOOLEAN /\ e.filePath \in Files \cup {None}
           /\ e.fromTemplate \in BOOLEAN /\ e.loadRun \in Editor!Runs /\ e.saveRun \in Editor!Runs
           /\ e.owned \in SUBSET Files
           /\ Len(e.undo) \in Nat /\ Len(e.redo) \in Nat
           /\ DOMAIN e.undo = 1 .. Len(e.undo) /\ DOMAIN e.redo = 1 .. Len(e.redo)
<1>1. /\ e.doc \in Editor!Doc /\ e.undo \in Seq(Editor!Doc) /\ e.redo \in Seq(Editor!Doc)
      /\ e.typing \in BOOLEAN /\ e.filePath \in Files \cup {None}
      /\ e.fromTemplate \in BOOLEAN /\ e.loadRun \in Editor!Runs /\ e.saveRun \in Editor!Runs
      /\ e.owned \in SUBSET Files
  BY DEF Editor!EditorState
<1> QED BY <1>1

\* What an edit does with the history, from e to f: nothing is in f's stacks that was not
\* in e's, or its document, and they are no longer than allowed.
Bounded(e) == Len(e.undo) + Len(e.redo) <= MAX_HISTORY
Stacked(e, f) ==
    /\ f \in Editor!EditorState /\ Bounded(f)
    /\ Snapshots(f) \subseteq Snapshots(e) \cup {e.doc}
    /\ f.filePath = e.filePath /\ f.fromTemplate = e.fromTemplate /\ f.owned = e.owned

\* before_field_edit and the edit of rows push the document, or leave an open run.
LEMMA BeforeFacts ==
    ASSUME NEW e \in Editor!EditorState, Bounded(e)
    PROVE  /\ Stacked(e, Editor!BeforeStructural(e)) /\ Editor!BeforeStructural(e).doc = e.doc
           /\ \A same \in BOOLEAN : /\ Stacked(e, Editor!BeforeField(e, same))
                                     /\ Editor!BeforeField(e, same).doc = e.doc
<1>1. /\ e.doc \in Editor!Doc /\ e.undo \in Seq(Editor!Doc) /\ e.redo \in Seq(Editor!Doc)
      /\ Len(e.undo) \in Nat /\ Len(e.redo) \in Nat
  BY EditorFields
<1> DEFINE u == Editor!Pushed(e.undo, e.doc)
<1>2. MAX_HISTORY \in Nat
  BY EditorAndDocument DEF Editor!EditorAssumption
<1>3. Len(e.undo) <= MAX_HISTORY
  <2>1. \A a, b, c \in Nat : a + b <= c => a <= c
    OBVIOUS
  <2> QED BY <1>1, <1>2, <2>1 DEF Bounded
<1>4. /\ u \in Seq(Editor!Doc) /\ Len(u) <= MAX_HISTORY
      /\ \A i \in DOMAIN u : u[i] \in {e.undo[j] : j \in DOMAIN e.undo} \cup {e.doc}
  BY <1>1, <1>3, PushedFacts
<1>5. ASSUME NEW typing \in BOOLEAN
      PROVE  LET f == [e EXCEPT !.undo = u, !.redo = <<>>, !.typing = typing]
             IN  Stacked(e, f) /\ f.doc = e.doc
  <2> HIDE DEF u
  <2> DEFINE f == [e EXCEPT !.undo = u, !.redo = <<>>, !.typing = typing]
  <2>1. <<>> \in Seq(Editor!Doc) /\ Len(<<>>) = 0 /\ DOMAIN <<>> = {}
    OBVIOUS
  <2>2. /\ f \in Editor!EditorState /\ f.undo = u /\ f.redo = <<>> /\ f.doc = e.doc
        /\ f.filePath = e.filePath /\ f.fromTemplate = e.fromTemplate /\ f.owned = e.owned
    BY <1>4, <2>1 DEF Editor!EditorState
  <2> HIDE DEF f
  <2>3. Snapshots(f) \subseteq Snapshots(e) \cup {e.doc}
    BY <1>4, <2>1, <2>2 DEF Snapshots
  <2>4. Len(u) \in Nat
    BY <1>4
  <2>5. Bounded(f)
    BY <1>2, <1>4, <2>1, <2>2, <2>4 DEF Bounded
  <2> QED BY <2>2, <2>3, <2>5 DEF Stacked, f
<1>6. Stacked(e, e)
  BY DEF Stacked
<1> QED BY <1>5, <1>6 DEF Editor!BeforeStructural, Editor!BeforeField

\* The edit itself changes the text, and marks the document.
LEMMA EditedFacts ==
    ASSUME NEW e \in Editor!EditorState, NEW f, Stacked(e, f), f.doc = e.doc,
           NEW t \in Texts \cup {Bad}
    PROVE  LET g == Editor!Refreshed(Editor!Edited(f, t))
           IN  /\ Stacked(e, g) /\ g.doc.from = e.doc.from
               /\ g.loadRun = 0 /\ g.saveRun = 0
<1> DEFINE d == [f.doc EXCEPT !.text = t, !.dirty = TRUE]
           g == Editor!Refreshed(Editor!Edited(f, t))
<1>1. f \in Editor!EditorState /\ f.doc \in Editor!Doc
  BY EditorFields DEF Stacked
<1>2. d \in Editor!Doc /\ d.from = e.doc.from
  BY <1>1 DEF Editor!Doc
<1>3. 0 \in Editor!Runs
  BY EditorAndDocument DEF Editor!Runs, Editor!EditorAssumption
<1>4. g = [f EXCEPT !.doc = d, !.loadRun = 0, !.saveRun = 0]
  BY DEF Editor!Refreshed, Editor!Edited
<1> HIDE DEF d, g
<1>5. /\ g \in Editor!EditorState /\ g.doc = d /\ g.undo = f.undo /\ g.redo = f.redo
      /\ g.filePath = f.filePath /\ g.fromTemplate = f.fromTemplate /\ g.owned = f.owned
      /\ g.loadRun = 0 /\ g.saveRun = 0
  BY <1>1, <1>2, <1>3, <1>4 DEF Editor!EditorState
<1> QED BY <1>2, <1>5 DEF Stacked, Bounded, Snapshots, g

\* Undo and redo take the last snapshot of one stack, and put the document on the other.
LEMMA TurnedBack ==
    ASSUME NEW from \in Seq(Editor!Doc), NEW to \in Seq(Editor!Doc), NEW d \in Editor!Doc,
           from # <<>>,
           NEW rest, rest = SubSeq(from, 1, Len(from) - 1), NEW more, more = Append(to, d)
    PROVE  /\ rest \in Seq(Editor!Doc) /\ more \in Seq(Editor!Doc)
           /\ from[Len(from)] \in Editor!Doc /\ Len(from) \in DOMAIN from
           /\ Len(rest) + Len(more) = Len(from) + Len(to)
           /\ \A i \in DOMAIN rest : i \in DOMAIN from /\ rest[i] = from[i]
           /\ \A i \in DOMAIN more : more[i] \in {to[j] : j \in DOMAIN to} \cup {d}
<1>1. Len(from) \in Nat \ {0} /\ Len(to) \in Nat /\ DOMAIN from = 1 .. Len(from)
      /\ DOMAIN to = 1 .. Len(to)
  BY EmptySeq, LenProperties
<1>2. /\ rest \in Seq(Editor!Doc) /\ Len(rest) = Len(from) - 1
      /\ \A i \in 1 .. Len(from) - 1 : rest[i] = from[i]
  BY <1>1
<1>3. /\ more \in Seq(Editor!Doc) /\ Len(more) = Len(to) + 1 /\ more[Len(to) + 1] = d
      /\ \A i \in 1 .. Len(to) : more[i] = to[i]
  BY AppendProperties
<1>4. DOMAIN rest = 1 .. Len(from) - 1 /\ DOMAIN more = 1 .. Len(to) + 1
  BY <1>2, <1>3
<1>5. \A i \in DOMAIN more : i \in 1 .. Len(to) \/ i = Len(to) + 1
  BY <1>1, <1>4
<1>6. \A i \in DOMAIN more : more[i] \in {to[j] : j \in DOMAIN to} \cup {d}
  BY <1>1, <1>3, <1>5
<1>7. \A i \in DOMAIN rest : i \in DOMAIN from /\ rest[i] = from[i]
  BY <1>1, <1>2, <1>4
<1>8. Len(from) \in DOMAIN from /\ from[Len(from)] \in Editor!Doc
  BY <1>1
<1>9. Len(rest) + Len(more) = Len(from) + Len(to)
  <2>1. \A a, b \in Nat : (a - 1) + (b + 1) = a + b
    OBVIOUS
  <2> QED BY <1>1, <1>2, <1>3, <2>1
<1> QED BY <1>2, <1>3, <1>6, <1>7, <1>8, <1>9

\* An edit, an undo or a redo: the history of the document stays its own, and a load or a
\* save in flight is retired.
LEMMA EditingStep ==
    ASSUME TypeInv,
           \/ \E t \in Texts \cup {Bad} : Editor!EditField(t) \/ Editor!EditRows(t)
           \/ Editor!Undo \/ Editor!Redo
    PROVE  /\ Stacked(ed, ed') /\ ed'.loadRun = 0 /\ ed'.saveRun = 0
           /\ ed'.doc.from \in {x.from : x \in Snapshots(ed) \cup {ed.doc}}
           /\ UNCHANGED <<deckPath, templated, loads, saves, file, temp>>
<1>1. ed \in Editor!EditorState /\ Bounded(ed)
  BY DEF TypeInv, Editor!TypeOK, Bounded
<1>2. /\ ed.doc \in Editor!Doc /\ ed.undo \in Seq(Editor!Doc) /\ ed.redo \in Seq(Editor!Doc)
  BY <1>1, EditorFields
<1>3. 0 \in Editor!Runs
  BY EditorAndDocument DEF Editor!Runs, Editor!EditorAssumption
<1>4. ASSUME NEW t \in Texts \cup {Bad}, Editor!EditField(t)
      PROVE  /\ Stacked(ed, ed') /\ ed'.loadRun = 0 /\ ed'.saveRun = 0 /\ ed'.doc.from = ed.doc.from
  <2>1. PICK same \in BOOLEAN :
          ed' = Editor!Refreshed(Editor!Edited(Editor!BeforeField(ed, same), t))
    BY <1>4 DEF Editor!EditField
  <2>2. Stacked(ed, Editor!BeforeField(ed, same)) /\ Editor!BeforeField(ed, same).doc = ed.doc
    BY <1>1, BeforeFacts
  <2> QED BY <1>1, <2>1, <2>2, EditedFacts
<1>5. ASSUME NEW t \in Texts \cup {Bad}, Editor!EditRows(t)
      PROVE  /\ Stacked(ed, ed') /\ ed'.loadRun = 0 /\ ed'.saveRun = 0 /\ ed'.doc.from = ed.doc.from
  <2>1. ed' = Editor!Refreshed(Editor!Edited(Editor!BeforeStructural(ed), t))
    BY <1>5 DEF Editor!EditRows
  <2>2. Stacked(ed, Editor!BeforeStructural(ed)) /\ Editor!BeforeStructural(ed).doc = ed.doc
    BY <1>1, BeforeFacts
  <2> QED BY <1>1, <2>1, <2>2, EditedFacts
<1>6. ASSUME NEW from \in Seq(Editor!Doc), NEW to \in Seq(Editor!Doc), from # <<>>,
             \/ from = ed.undo /\ to = ed.redo
             \/ from = ed.redo /\ to = ed.undo,
             NEW rest, rest = SubSeq(from, 1, Len(from) - 1), NEW more, more = Append(to, ed.doc),
             ed' \in Editor!EditorState,
             \/ ed'.undo = rest /\ ed'.redo = more
             \/ ed'.undo = more /\ ed'.redo = rest,
             ed'.doc = from[Len(from)], ed'.filePath = ed.filePath,
             ed'.fromTemplate = ed.fromTemplate, ed'.owned = ed.owned
      PROVE  Stacked(ed, ed') /\ ed'.doc \in Snapshots(ed)
  <2>1. /\ rest \in Seq(Editor!Doc) /\ more \in Seq(Editor!Doc)
        /\ Len(from) \in DOMAIN from
        /\ Len(rest) + Len(more) = Len(from) + Len(to)
        /\ \A i \in DOMAIN rest : i \in DOMAIN from /\ rest[i] = from[i]
        /\ \A i \in DOMAIN more : more[i] \in {to[j] : j \in DOMAIN to} \cup {ed.doc}
    <3> DEFINE r == SubSeq(from, 1, Len(from) - 1)
               m == Append(to, ed.doc)
    <3>1. /\ r \in Seq(Editor!Doc) /\ m \in Seq(Editor!Doc)
          /\ Len(from) \in DOMAIN from
          /\ Len(r) + Len(m) = Len(from) + Len(to)
          /\ \A i \in DOMAIN r : i \in DOMAIN from /\ r[i] = from[i]
          /\ \A i \in DOMAIN m : m[i] \in {to[j] : j \in DOMAIN to} \cup {ed.doc}
      <4>1. r \in Seq(Editor!Doc) /\ m \in Seq(Editor!Doc)
        BY <1>2, <1>6, TurnedBack
      <4>2. Len(from) \in DOMAIN from
        BY <1>2, <1>6, TurnedBack
      <4>3. Len(r) + Len(m) = Len(from) + Len(to)
        <5>1. Len(from) \in Nat \ {0} /\ Len(to) \in Nat
          BY <1>6, EmptySeq, LenProperties
        <5>2. Len(m) = Len(to) + 1
          BY <1>2, AppendProperties
        <5>4. Len(r) = Len(from) - 1
          <6>1. /\ Len(from) - 1 \in Int /\ \A i \in 1 .. Len(from) - 1 : from[i] \in Editor!Doc
                /\ (Len(from) - 1) - 1 + 1 = Len(from) - 1
            BY <5>1
          <6> QED BY <5>1, <6>1, SubSeqProperties
        <5>3. \A a, b \in Nat : (a - 1) + (b + 1) = a + b
          OBVIOUS
        <5> HIDE DEF r, m
        <5> QED BY <5>1, <5>2, <5>3, <5>4
      <4>4. \A i \in DOMAIN r : i \in DOMAIN from /\ r[i] = from[i]
        BY <1>2, <1>6, TurnedBack
      <4>5. \A i \in DOMAIN m : m[i] \in {to[j] : j \in DOMAIN to} \cup {ed.doc}
        BY <1>2, <1>6, TurnedBack
      <4> QED BY <4>1, <4>2, <4>3, <4>4, <4>5
    <3>2. rest = r /\ more = m
      BY <1>6
    <3> HIDE DEF r, m
    <3> QED BY <3>1, <3>2
  <2>2. Snapshots(ed) = {from[j] : j \in DOMAIN from} \cup {to[j] : j \in DOMAIN to}
    BY <1>6 DEF Snapshots
  <2>3. Snapshots(ed') = {rest[j] : j \in DOMAIN rest} \cup {more[j] : j \in DOMAIN more}
    BY <1>6 DEF Snapshots
  <2>4. Snapshots(ed') \subseteq Snapshots(ed) \cup {ed.doc}
    BY <2>1, <2>2, <2>3
  <2>5. Bounded(ed')
    <3>1. Len(ed.undo) + Len(ed.redo) = Len(from) + Len(to)
      <4>1. Len(from) \in Nat /\ Len(to) \in Nat
        OBVIOUS
      <4>2. \A a, b \in Nat : a + b = b + a
        OBVIOUS
      <4> QED BY <1>6, <4>1, <4>2
    <3>2. Len(ed'.undo) + Len(ed'.redo) = Len(rest) + Len(more)
      <4>1. Len(rest) \in Nat /\ Len(more) \in Nat
        BY <2>1
      <4>2. \A a, b \in Nat : a + b = b + a
        OBVIOUS
      <4> QED BY <1>6, <4>1, <4>2
    <3> QED BY <1>1, <2>1, <3>1, <3>2 DEF Bounded
  <2> QED BY <1>6, <2>1, <2>2, <2>4, <2>5 DEF Stacked
<1>7. CASE Editor!Undo
  <2> DEFINE rest == SubSeq(ed.undo, 1, Len(ed.undo) - 1)
             more == Append(ed.redo, ed.doc)
             last == ed.undo[Len(ed.undo)]
  <2>1. ed.undo # <<>> /\ ed' = [ed EXCEPT !.undo = rest, !.doc = last, !.redo = more,
                                         !.typing = FALSE, !.loadRun = 0, !.saveRun = 0]
    BY <1>7 DEF Editor!Undo, Editor!Refreshed
  <2>2. rest \in Seq(Editor!Doc) /\ more \in Seq(Editor!Doc) /\ last \in Editor!Doc
    BY <1>2, <2>1, TurnedBack
  <2> HIDE DEF rest, more, last
  <2>3. /\ ed' \in Editor!EditorState /\ ed'.undo = rest /\ ed'.redo = more /\ ed'.doc = last
        /\ ed'.filePath = ed.filePath /\ ed'.fromTemplate = ed.fromTemplate
        /\ ed'.owned = ed.owned /\ ed'.loadRun = 0 /\ ed'.saveRun = 0
    BY <1>1, <1>3, <2>1, <2>2 DEF Editor!EditorState
  <2>4. Stacked(ed, ed') /\ ed'.doc \in Snapshots(ed)
    BY <1>2, <1>6, <2>1, <2>3 DEF rest, more, last
  <2> QED BY <1>7, <2>3, <2>4 DEF Editor!Undo
<1>8. CASE Editor!Redo
  <2> DEFINE rest == SubSeq(ed.redo, 1, Len(ed.redo) - 1)
             more == Append(ed.undo, ed.doc)
             last == ed.redo[Len(ed.redo)]
  <2>1. ed.redo # <<>> /\ ed' = [ed EXCEPT !.redo = rest, !.doc = last, !.undo = more,
                                         !.typing = FALSE, !.loadRun = 0, !.saveRun = 0]
    BY <1>8 DEF Editor!Redo, Editor!Refreshed
  <2>2. rest \in Seq(Editor!Doc) /\ more \in Seq(Editor!Doc) /\ last \in Editor!Doc
    BY <1>2, <2>1, TurnedBack
  <2> HIDE DEF rest, more, last
  <2>3. /\ ed' \in Editor!EditorState /\ ed'.redo = rest /\ ed'.undo = more /\ ed'.doc = last
        /\ ed'.filePath = ed.filePath /\ ed'.fromTemplate = ed.fromTemplate
        /\ ed'.owned = ed.owned /\ ed'.loadRun = 0 /\ ed'.saveRun = 0
    BY <1>1, <1>3, <2>1, <2>2 DEF Editor!EditorState
  <2>4. Stacked(ed, ed') /\ ed'.doc \in Snapshots(ed)
    BY <1>2, <1>6, <2>1, <2>3 DEF rest, more, last
  <2> QED BY <1>8, <2>3, <2>4 DEF Editor!Redo
<1> QED BY <1>4, <1>5, <1>7, <1>8 DEF Editor!EditField, Editor!EditRows
-----------------------------------------------------------------------------
(* The other steps, as they leave the editor                               *)

\* Only what is awaited differs.
Same(e, f) ==
    /\ f \in Editor!EditorState /\ f.doc = e.doc /\ f.undo = e.undo /\ f.redo = e.redo
    /\ f.filePath = e.filePath /\ f.fromTemplate = e.fromTemplate /\ f.owned = e.owned

LEMMA AwaitFacts ==
    ASSUME NEW e \in Editor!EditorState, NEW r \in Editor!Runs
    PROVE  /\ Same(e, e)
           /\ Same(e, [e EXCEPT !.loadRun = r]) /\ [e EXCEPT !.loadRun = r].loadRun = r
           /\ [e EXCEPT !.loadRun = r].saveRun = e.saveRun
           /\ Same(e, [e EXCEPT !.saveRun = r]) /\ [e EXCEPT !.saveRun = r].saveRun = r
           /\ [e EXCEPT !.saveRun = r].loadRun = e.loadRun
BY DEF Same, Editor!EditorState

\* What an accepted load leaves, a save that is marked, and a restart.
LEMMA OpenedFacts ==
    ASSUME Editor!TypeOK, NEW l \in loads, l.got \in Texts, NEW e, e = Editor!Opened(ed, l)
    PROVE  /\ e \in Editor!EditorState /\ e.undo = <<>> /\ e.redo = <<>>
           /\ e.filePath = deckPath /\ e.fromTemplate = templated /\ e.owned = {l.path}
           /\ e.loadRun = 0 /\ e.saveRun = 0 /\ e.doc.from = l.path
<1> DEFINE d == [text |-> l.got, dirty |-> FALSE, from |-> l.path]
<1>1. /\ ed \in Editor!EditorState /\ deckPath \in Files /\ templated \in BOOLEAN
      /\ l.path \in Files
  BY DEF Editor!TypeOK, Editor!Load
<1>2. d \in Editor!Doc /\ 0 \in Editor!Runs /\ <<>> \in Seq(Editor!Doc)
  BY <1>1, EditorAndDocument DEF Editor!Doc, Editor!Runs, Editor!EditorAssumption
<1>3. e = [ed EXCEPT !.filePath = deckPath, !.fromTemplate = templated, !.doc = d,
                     !.undo = <<>>, !.redo = <<>>, !.typing = FALSE, !.owned = {l.path},
                     !.loadRun = 0, !.saveRun = 0]
  BY DEF Editor!Opened, Editor!Refreshed
<1>5. d.from = l.path
  OBVIOUS
<1> HIDE DEF d
<1> DEFINE x == [ed EXCEPT !.filePath = deckPath, !.fromTemplate = templated, !.doc = d,
                          !.owned = {l.path}]
<1>4. /\ x \in Editor!EditorState /\ x.doc = d /\ x.filePath = deckPath
      /\ x.fromTemplate = templated /\ x.owned = {l.path}
  BY <1>1, <1>2 DEF Editor!EditorState
<1>6. e = [x EXCEPT !.undo = <<>>, !.redo = <<>>, !.typing = FALSE, !.loadRun = 0, !.saveRun = 0]
  BY <1>1, <1>3 DEF Editor!EditorState
<1> HIDE DEF x
<1>7. /\ e \in Editor!EditorState /\ e.undo = <<>> /\ e.redo = <<>>
      /\ e.filePath = deckPath /\ e.fromTemplate = templated /\ e.owned = {l.path}
      /\ e.loadRun = 0 /\ e.saveRun = 0 /\ e.doc = d
  BY <1>2, <1>4, <1>6 DEF Editor!EditorState
<1> QED BY <1>5, <1>7

LEMMA MarkedFacts ==
    ASSUME ed \in Editor!EditorState, NEW f, f \in Files, ed' = Editor!MarkedSaved(ed, f)
    PROVE  /\ ed' \in Editor!EditorState /\ ed'.undo = ed.undo /\ ed'.redo = ed.redo
           /\ ed'.filePath = f /\ ed'.fromTemplate = FALSE /\ ed'.owned = ed.owned \cup {f}
           /\ ed'.saveRun = 0 /\ ed'.loadRun = ed.loadRun
           /\ ed'.doc.text = ed.doc.text /\ ed'.doc.from = ed.doc.from
<1> DEFINE d == [ed.doc EXCEPT !.dirty = FALSE]
           o == ed.owned \cup {f}
<1>1. ed.doc \in Editor!Doc /\ ed.owned \in SUBSET Files
  BY EditorFields
<1>2. d \in Editor!Doc /\ d.text = ed.doc.text /\ d.from = ed.doc.from
  BY <1>1 DEF Editor!Doc
<1>3. 0 \in Editor!Runs /\ o \in SUBSET Files
  BY <1>1, EditorAndDocument DEF Editor!Runs, Editor!EditorAssumption
<1>4. ed' = [ed EXCEPT !.saveRun = 0, !.filePath = f, !.fromTemplate = FALSE, !.doc = d,
                       !.owned = o]
  BY DEF Editor!MarkedSaved
<1> HIDE DEF d, o
<1>5. /\ ed' \in Editor!EditorState /\ ed'.undo = ed.undo /\ ed'.redo = ed.redo
      /\ ed'.filePath = f /\ ed'.fromTemplate = FALSE /\ ed'.owned = o
      /\ ed'.saveRun = 0 /\ ed'.loadRun = ed.loadRun /\ ed'.doc = d
  BY <1>2, <1>3, <1>4 DEF Editor!EditorState
<1> QED BY <1>2, <1>5 DEF o

LEMMA RestartFacts ==
    ASSUME NEW e, e = Editor!NoEditor
    PROVE  /\ e \in Editor!EditorState /\ e.undo = <<>> /\ e.redo = <<>> /\ e.filePath = None
           /\ e.loadRun = 0 /\ e.saveRun = 0
<1>1. Editor!NoDoc \in Editor!Doc
  BY EditorAndDocument DEF Editor!NoDoc, Editor!Doc, Editor!EditorAssumption
<1>2. 0 \in Editor!Runs /\ <<>> \in Seq(Editor!Doc)
  BY EditorAndDocument DEF Editor!Runs, Editor!EditorAssumption
<1> QED BY <1>1, <1>2 DEF Editor!NoEditor, Editor!EditorState
-----------------------------------------------------------------------------
(* The saves                                                               *)

\* Half of a file written: the other half stays, and no template comes of it.
LEMMA HalfWritten ==
    ASSUME NEW c \in Editor!Contents, NEW half \in {1, 2}, NEW t \in Texts
    PROVE  /\ [c EXCEPT ![half] = t] \in Editor!Contents
           /\ [c EXCEPT ![half] = t] # Editor!Whole(Template)
           /\ half = 1 => [c EXCEPT ![half] = t] = <<t, c[2]>>
           /\ half = 2 => [c EXCEPT ![half] = t] = <<c[1], t>>
<1>1. PICK a \in Texts \cup {Template, None}, b \in Texts \cup {Template, None} : c = <<a, b>>
  BY DEF Editor!Contents
<1>2. /\ half = 1 => [c EXCEPT ![half] = t] = <<t, b>>
      /\ half = 2 => [c EXCEPT ![half] = t] = <<a, t>>
  BY <1>1
<1>3. Template \notin Texts
  BY EditorAndDocument DEF Editor!EditorAssumption
<1> QED BY <1>1, <1>2, <1>3 DEF Editor!Contents, Editor!Whole

\* When a temporary file goes, the saves to it keep all but what their descriptor names,
\* and none of them names it any more.
LEMMA RedirectedFacts ==
    ASSUME NEW S, S \subseteq Editor!Save, IsFiniteSet(S), NEW f, NEW b \in BOOLEAN,
           NEW T, T = Editor!Redirected(f, S, b)
    PROVE  /\ T \subseteq Editor!Save /\ IsFiniteSet(T) /\ Cardinality(T) <= Cardinality(S)
           /\ \A y \in T : \E x \in S :
                /\ y.run = x.run /\ y.path = x.path /\ y.text = x.text /\ y.at = x.at
                /\ y.own = x.own
                /\ x.to = "nothing" => y.to = "nothing"
                /\ x.path # f => y = x
                /\ x.path = f => y.to # "temp"
           /\ (\A x \in S : x.path # f) => T = S
<1> DEFINE g(x) == IF x.path # f THEN x
                   ELSE [x EXCEPT !.to = IF x.to = "temp" /\ b THEN "file" ELSE "nothing"]
           h == [x \in S |-> g(x)]
<1>1. T = {g(x) : x \in S}
  BY DEF Editor!Redirected
<1>2. h \in Surjection(S, T)
  BY <1>1 DEF Surjection
<1>3. IsFiniteSet(T) /\ Cardinality(T) <= Cardinality(S)
  <2> HIDE DEF h
  <2> QED BY <1>2, FS_Surjection
<1>4. ASSUME NEW x \in S
      PROVE  /\ g(x) \in Editor!Save
             /\ g(x).run = x.run /\ g(x).path = x.path /\ g(x).text = x.text /\ g(x).at = x.at
             /\ g(x).own = x.own
             /\ x.to = "nothing" => g(x).to = "nothing"
             /\ x.path # f => g(x) = x
             /\ x.path = f => g(x).to # "temp"
  BY DEF Editor!Save
<1>5. (\A x \in S : x.path # f) => T = S
  BY <1>1
<1> HIDE DEF g
<1> QED BY <1>1, <1>3, <1>4, <1>5

\* One save has moved on, and the others have it no worse.
LEMMA SavesReplaced ==
    ASSUME TypeInv, NEW s \in saves, NEW T, T \subseteq Editor!Save, IsFiniteSet(T),
           Cardinality(T) <= Cardinality(saves \ {s}),
           \A y \in T : \E x \in saves : y.run = x.run,
           NEW t \in Editor!Save, t.run = s.run, saves' = T \cup {t}
    PROVE  /\ saves' \subseteq Editor!Save
           /\ IsFiniteSet(saves') /\ Cardinality(saves') <= MaxSaves
           /\ \A x \in saves' : x.run # 0
<1>1. /\ IsFiniteSet(saves) /\ Cardinality(saves) <= MaxSaves /\ \A x \in saves : x.run # 0
      /\ MaxSaves \in Nat
  BY EditorAndDocument DEF TypeInv, InFlight, Editor!EditorAssumption
<1>2. Cardinality(saves \ {s}) = Cardinality(saves) - 1 /\ Cardinality(saves) \in Nat
  BY <1>1, FS_RemoveElement, FS_CardinalityType
<1>3. /\ IsFiniteSet(T \cup {t}) /\ Cardinality(T \cup {t}) \in Nat
      /\ Cardinality(T \cup {t}) <= Cardinality(T) + 1 /\ Cardinality(T) \in Nat
  BY OneMore, FS_CardinalityType
<1>4. \A a, b, c, d, m \in Nat : a <= b + 1 /\ b <= c - 1 /\ c <= m => a <= m
  OBVIOUS
<1>5. Cardinality(saves') <= MaxSaves
  <2> DEFINE a == Cardinality(T \cup {t})
             b == Cardinality(T)
             c == Cardinality(saves)
  <2>1. a \in Nat /\ b \in Nat /\ c \in Nat /\ a <= b + 1 /\ b <= c - 1 /\ c <= MaxSaves
    BY <1>1, <1>2, <1>3
  <2>2. a = Cardinality(saves')
    OBVIOUS
  <2> HIDE DEF a, b, c
  <2> QED BY <1>1, <2>1, <2>2
<1>6. IsFiniteSet(saves')
  BY <1>3
<1> QED BY <1>1, <1>5, <1>6

LEMMA OneMoved ==
    ASSUME TypeInv, NEW s \in saves, NEW t \in Editor!Save, t.run = s.run, Editor!Moved(s, t)
    PROVE  /\ saves' \subseteq Editor!Save
           /\ IsFiniteSet(saves') /\ Cardinality(saves') <= MaxSaves
           /\ \A x \in saves' : x.run # 0
<1> DEFINE T == saves \ {s}
<1>1. saves \subseteq Editor!Save /\ IsFiniteSet(saves)
  BY DEF TypeInv, Editor!TypeOK, InFlight
<1>2. IsFiniteSet(T)
  BY <1>1, FS_RemoveElement
<1>3. Cardinality(T) \in Nat
  BY <1>2, FS_CardinalityType
<1>4. /\ T \subseteq Editor!Save /\ Cardinality(T) <= Cardinality(saves \ {s})
      /\ \A y \in T : \E x \in saves : y.run = x.run
      /\ saves' = T \cup {t}
  BY <1>1, <1>3 DEF Editor!Moved
<1> HIDE DEF T
<1> QED BY <1>2, <1>4, SavesReplaced
-----------------------------------------------------------------------------
(* The types are kept                                                      *)

LEMMA InitType ==
    ASSUME Editor!Init
    PROVE  TypeInv
<1>1. Editor!NoEditor \in Editor!EditorState /\ Len(Editor!NoEditor.undo) = 0
      /\ Len(Editor!NoEditor.redo) = 0
  BY RestartFacts
<1>2. IsFiniteSet({}) /\ Cardinality({}) = 0
  BY FS_EmptySet
<1>3. \A t \in Texts \cup {Template} : Editor!Whole(t) \in Editor!Contents
  BY DEF Editor!Whole, Editor!Contents
<1>4. file \in [Files -> Editor!Contents]
  BY <1>3 DEF Editor!Init
<1>5. MaxLoads \in Nat /\ MaxSaves \in Nat /\ MAX_HISTORY \in Nat
  BY EditorAndDocument DEF Editor!EditorAssumption
<1>6. ed = Editor!NoEditor /\ loads = {} /\ saves = {} /\ deckPath \in Files
      /\ templated = FALSE /\ temp = [f \in Files |-> None]
  BY DEF Editor!Init, Editor!Absent
<1>7. Len(ed.undo) + Len(ed.redo) <= MAX_HISTORY
  <2> DEFINE u == Len(ed.undo)
             r == Len(ed.redo)
  <2>1. u = 0 /\ r = 0
    BY <1>1, <1>6
  <2> HIDE DEF u, r
  <2>2. u + r <= MAX_HISTORY
    BY <1>5, <2>1
  <2> QED BY <2>2 DEF u, r
<1>8. Editor!TypeOK
  BY <1>1, <1>4, <1>6, <1>7 DEF Editor!TypeOK, Editor!Absent
<1> QED BY <1>2, <1>5, <1>6, <1>8 DEF TypeInv, InFlight, SavesFormed

\* A step that moves only the editor, the paths or the loads.
LEMMA EditorTypes ==
    ASSUME TypeInv, deckPath' \in Files, templated' \in BOOLEAN,
           ed' \in Editor!EditorState, Bounded(ed'),
           loads' \subseteq Editor!Load, IsFiniteSet(loads'), Cardinality(loads') <= MaxLoads,
           \A l \in loads' : l.run # 0,
           UNCHANGED <<saves, file, temp>>
    PROVE  TypeInv'
<1>1. Editor!TypeOK'
  BY DEF TypeInv, Editor!TypeOK, Bounded
<1> QED BY <1>1 DEF TypeInv, InFlight, SavesFormed

\* A step that moves only the saves and the files.
LEMMA WriterTypes ==
    ASSUME TypeInv, saves' \subseteq Editor!Save, IsFiniteSet(saves'),
           Cardinality(saves') <= MaxSaves, \A s \in saves' : s.run # 0, SavesFormed',
           file' \in [Files -> Editor!Contents],
           temp' \in [Files -> Editor!Contents \cup {Editor!Absent}],
           UNCHANGED <<deckPath, templated, loads>>,
           ed' \in Editor!EditorState, Bounded(ed')
    PROVE  TypeInv'
<1>1. Editor!TypeOK'
  BY DEF TypeInv, Editor!TypeOK, Bounded
<1> QED BY <1>1 DEF TypeInv, InFlight

LEMMA EditingTypes ==
    ASSUME TypeInv,
           \/ \E t \in Texts \cup {Bad} : Editor!EditField(t) \/ Editor!EditRows(t)
           \/ Editor!Undo \/ Editor!Redo
    PROVE  TypeInv'
<1>1. /\ ed' \in Editor!EditorState /\ Bounded(ed')
      /\ UNCHANGED <<deckPath, templated, loads, saves, file, temp>>
  BY EditingStep DEF Stacked
<1> QED BY <1>1, EditorTypes DEF TypeInv, Editor!TypeOK, InFlight

LEMMA PathTypes ==
    ASSUME TypeInv,
           \/ \E f \in Files : Editor!DeckPathChanged(f)
           \/ \E set \in BOOLEAN : Editor!VarsPathChanged(set)
    PROVE  /\ TypeInv' /\ Same(ed, ed') /\ ed'.loadRun = 0 /\ ed'.saveRun = ed.saveRun
           /\ UNCHANGED <<loads, saves, file, temp>>
<1>1. 0 \in Editor!Runs
  BY EditorAndDocument DEF Editor!Runs, Editor!EditorAssumption
<1>2. ed \in Editor!EditorState /\ Bounded(ed)
  BY DEF TypeInv, Editor!TypeOK, Bounded
<1>3. /\ ed' = [ed EXCEPT !.loadRun = 0] /\ UNCHANGED <<loads, saves, file, temp>>
      /\ deckPath' \in Files /\ templated' \in BOOLEAN
  BY DEF TypeInv, Editor!TypeOK, Editor!DeckPathChanged, Editor!VarsPathChanged,
         Editor!PathRetiresLoad, Editor!VarsRetireLoad
<1>4. Same(ed, ed') /\ ed'.loadRun = 0 /\ ed'.saveRun = ed.saveRun
  BY <1>1, <1>2, <1>3, AwaitFacts
<1>5. ed' \in Editor!EditorState /\ Bounded(ed')
  BY <1>2, <1>4 DEF Same, Bounded
<1>6. TypeInv'
  BY <1>3, <1>5, EditorTypes DEF TypeInv, Editor!TypeOK, InFlight
<1> QED BY <1>3, <1>4, <1>6

LEMMA LoadStarts ==
    ASSUME TypeInv, Editor!EditDeckLoad
    PROVE  /\ TypeInv' /\ Same(ed, ed') /\ ed'.loadRun = Editor!Mint /\ ed'.saveRun = ed.saveRun
           /\ loads' = loads \cup {[run |-> Editor!Mint, path |-> deckPath,
                                    templated |-> templated, got |-> None]}
           /\ \A l \in loads : l.run # Editor!Mint
           /\ UNCHANGED <<deckPath, templated, saves, file, temp>>
<1> DEFINE m == Editor!Mint
           n == [run |-> m, path |-> deckPath, templated |-> templated, got |-> None]
<1>1. ed \in Editor!EditorState /\ Bounded(ed) /\ deckPath \in Files /\ templated \in BOOLEAN
  BY DEF TypeInv, Editor!TypeOK, Bounded
<1>2. Cardinality(loads) < MaxLoads
  BY SameCount DEF Editor!EditDeckLoad
<1>3. m \in Editor!Runs \ {0} /\ \A l \in loads : l.run # m
  BY <1>2, MintFacts
<1>4. /\ ed' = [ed EXCEPT !.loadRun = m] /\ loads' = loads \cup {n}
      /\ UNCHANGED <<deckPath, templated, saves, file, temp>>
  BY DEF Editor!EditDeckLoad
<1> HIDE DEF m
<1>5. Same(ed, ed') /\ ed'.loadRun = m /\ ed'.saveRun = ed.saveRun
  BY <1>1, <1>3, <1>4, AwaitFacts
<1>6. ed' \in Editor!EditorState /\ Bounded(ed')
  BY <1>1, <1>5 DEF Same, Bounded
<1>7. n \in Editor!Load /\ n.run # 0
  BY <1>1, <1>3 DEF Editor!Load
<1> HIDE DEF n
<1>8. /\ IsFiniteSet(loads') /\ Cardinality(loads') <= MaxLoads
  <2>1. IsFiniteSet(loads) /\ MaxLoads \in Nat
    BY EditorAndDocument DEF TypeInv, InFlight, Editor!EditorAssumption
  <2>2. /\ IsFiniteSet(loads \cup {n}) /\ Cardinality(loads \cup {n}) \in Nat
        /\ Cardinality(loads \cup {n}) <= Cardinality(loads) + 1
    BY <2>1, OneMore
  <2>3. Cardinality(loads) \in Nat
    BY <2>1, FS_CardinalityType
  <2> QED BY <1>2, <1>4, <2>1, <2>2, <2>3
<1>9. loads' \subseteq Editor!Load /\ \A l \in loads' : l.run # 0
  BY <1>4, <1>7 DEF TypeInv, Editor!TypeOK, InFlight
<1>10. TypeInv'
  BY <1>1, <1>4, <1>6, <1>8, <1>9, EditorTypes
<1> QED BY <1>3, <1>4, <1>5, <1>10 DEF m, n

LEMMA LoadIsRead ==
    ASSUME TypeInv, NEW l \in loads, Editor!LoadReads(l)
    PROVE  /\ TypeInv'
           /\ \E got \in Texts \cup {"failed"} :
                /\ loads' = (loads \ {l}) \cup {[l EXCEPT !.got = got]}
                /\ ~l.templated /\ file[l.path] = Editor!Whole(Template) => got = "failed"
           /\ UNCHANGED <<deckPath, templated, ed, saves, file, temp>>
<1>1. PICK got \in {Editor!Parsed(file[l.path], l.templated), "failed"} :
        loads' = (loads \ {l}) \cup {[l EXCEPT !.got = got]}
  BY DEF Editor!LoadReads
<1>2. Instance \in Texts
  BY EditorAndDocument DEF Editor!EditorAssumption
<1>3. /\ got \in Texts \cup {"failed"}
      /\ ~l.templated /\ file[l.path] = Editor!Whole(Template) => got = "failed"
  BY <1>2 DEF Editor!Parsed
<1>4. UNCHANGED <<deckPath, templated, ed, saves, file, temp>>
  BY DEF Editor!LoadReads
<1> DEFINE m == [l EXCEPT !.got = got]
<1>5. l \in Editor!Load /\ l.run # 0
  BY DEF TypeInv, Editor!TypeOK, InFlight
<1>6. m \in Editor!Load /\ m.run = l.run
  BY <1>3, <1>5 DEF Editor!Load
<1> HIDE DEF m
<1>7. IsFiniteSet(loads') /\ Cardinality(loads') <= MaxLoads
  <2>1. /\ IsFiniteSet(loads) /\ Cardinality(loads) <= MaxLoads /\ MaxLoads \in Nat
        /\ Cardinality(loads) \in Nat
    BY EditorAndDocument, FS_CardinalityType DEF TypeInv, InFlight, Editor!EditorAssumption
  <2>2. /\ IsFiniteSet((loads \ {l}) \cup {m})
        /\ Cardinality((loads \ {l}) \cup {m}) <= Cardinality(loads)
    BY <2>1, OneReplaced
  <2>3. loads' = (loads \ {l}) \cup {m}
    BY <1>1 DEF m
  <2>4. Cardinality(loads') \in Nat
    BY <2>2, <2>3, FS_CardinalityType
  <2> QED BY <2>1, <2>2, <2>3, <2>4
<1>8. loads' \subseteq Editor!Load /\ \A x \in loads' : x.run # 0
  BY <1>1, <1>5, <1>6 DEF m, TypeInv, Editor!TypeOK, InFlight
<1>9. TypeInv'
  <2>1. /\ deckPath' \in Files /\ templated' \in BOOLEAN
        /\ ed' \in Editor!EditorState /\ Bounded(ed')
    BY <1>4 DEF TypeInv, Editor!TypeOK, Bounded
  <2> QED BY <1>4, <1>7, <1>8, <2>1, EditorTypes
<1> QED BY <1>1, <1>3, <1>4, <1>9

LEMMA LoadIsAnswered ==
    ASSUME TypeInv, NEW l \in loads, Editor!EditDeckLoaded(l)
    PROVE  /\ TypeInv' /\ loads' \subseteq loads
           /\ \/ UNCHANGED ed
              \/ Same(ed, ed') /\ ed'.loadRun = 0 /\ ed'.saveRun = ed.saveRun
              \/ /\ l.run = ed.loadRun /\ l.got \notin {None, "failed"}
                 /\ ed' \in Editor!EditorState /\ ed'.undo = <<>> /\ ed'.redo = <<>>
                 /\ ed'.filePath = deckPath /\ ed'.fromTemplate = templated
                 /\ ed'.owned = {l.path} /\ ed'.loadRun = 0 /\ ed'.saveRun = 0
           /\ UNCHANGED <<deckPath, templated, saves, file, temp>>
<1>1. /\ ed \in Editor!EditorState /\ Bounded(ed) /\ deckPath \in Files /\ templated \in BOOLEAN
      /\ loads \subseteq Editor!Load /\ Editor!TypeOK
  BY DEF TypeInv, Editor!TypeOK, Bounded
<1>2. /\ loads' = loads \ {l} /\ l.got # None
      /\ UNCHANGED <<deckPath, templated, saves, file, temp>>
      /\ ed' = IF l.run # ed.loadRun THEN ed
               ELSE IF l.got = "failed" THEN [ed EXCEPT !.loadRun = 0]
               ELSE Editor!Opened(ed, l)
  BY DEF Editor!EditDeckLoaded
<1>3. 0 \in Editor!Runs /\ MAX_HISTORY \in Nat
  BY EditorAndDocument DEF Editor!Runs, Editor!EditorAssumption
<1>4. /\ ed' \in Editor!EditorState /\ Bounded(ed')
      /\ \/ UNCHANGED ed
         \/ Same(ed, ed') /\ ed'.loadRun = 0 /\ ed'.saveRun = ed.saveRun
         \/ /\ l.run = ed.loadRun /\ l.got \notin {None, "failed"}
            /\ ed' \in Editor!EditorState /\ ed'.undo = <<>> /\ ed'.redo = <<>>
            /\ ed'.filePath = deckPath /\ ed'.fromTemplate = templated
            /\ ed'.owned = {l.path} /\ ed'.loadRun = 0 /\ ed'.saveRun = 0
  <2>1. CASE l.run # ed.loadRun
    BY <1>1, <1>2, <2>1
  <2>2. CASE l.run = ed.loadRun /\ l.got = "failed"
    <3>1. ed' = [ed EXCEPT !.loadRun = 0]
      BY <1>2, <2>2
    <3>2. Same(ed, ed') /\ ed'.loadRun = 0 /\ ed'.saveRun = ed.saveRun
      BY <1>1, <1>3, <3>1, AwaitFacts
    <3> QED BY <1>1, <3>2 DEF Same, Bounded
  <2>3. CASE l.run = ed.loadRun /\ l.got # "failed"
    <3>1. ed' = Editor!Opened(ed, l) /\ l.got \in Texts
      BY <1>1, <1>2, <2>3 DEF Editor!Load
    <3>2. /\ ed' \in Editor!EditorState /\ ed'.undo = <<>> /\ ed'.redo = <<>>
          /\ ed'.filePath = deckPath /\ ed'.fromTemplate = templated
          /\ ed'.owned = {l.path} /\ ed'.loadRun = 0 /\ ed'.saveRun = 0
      BY <1>1, <3>1, OpenedFacts
    <3>3. Bounded(ed')
      <4>1. Len(ed'.undo) = 0 /\ Len(ed'.redo) = 0
        BY <3>2
      <4>2. 0 + 0 <= MAX_HISTORY
        BY <1>3
      <4> QED BY <4>1, <4>2 DEF Bounded
    <3> QED BY <1>2, <2>3, <3>2, <3>3
  <2> QED BY <2>1, <2>2, <2>3
<1>5. IsFiniteSet(loads') /\ Cardinality(loads') <= MaxLoads
  <2>1. /\ IsFiniteSet(loads) /\ Cardinality(loads) <= MaxLoads /\ MaxLoads \in Nat
        /\ Cardinality(loads) \in Nat
    BY EditorAndDocument, FS_CardinalityType DEF TypeInv, InFlight, Editor!EditorAssumption
  <2>2. IsFiniteSet(loads \ {l}) /\ Cardinality(loads \ {l}) <= Cardinality(loads)
    BY <2>1, OneReplaced
  <2>3. Cardinality(loads \ {l}) \in Nat
    BY <2>2, FS_CardinalityType
  <2> QED BY <1>2, <2>1, <2>2, <2>3
<1>6. TypeInv'
  <2>1. /\ deckPath' \in Files /\ templated' \in BOOLEAN
        /\ loads' \subseteq Editor!Load /\ \A x \in loads' : x.run # 0
    BY <1>1, <1>2 DEF TypeInv, InFlight
  <2> QED BY <1>2, <1>4, <1>5, <2>1, EditorTypes
<1> QED BY <1>2, <1>4, <1>6

\* A save asked for: with a new run, the text of now and, unless it is left to the dialog,
\* the file of the document.
SaveAsked(t) ==
    /\ t \in Editor!Save /\ t.run = Editor!Mint /\ t.text = ed.doc.text /\ t.to = "nothing"
    /\ saves' = saves \cup {t}
    /\ \A s \in saves : s.run # t.run
    /\ Same(ed, ed') /\ ed'.saveRun = t.run
    /\ \/ t.at = "dialog" /\ t.path = None /\ t.own = TRUE
       \/ /\ t.at = "create" /\ t.path = ed.filePath /\ t.path # None
          /\ t.own = (ed.filePath \in ed.owned)
          /\ Overlap \/ \A s \in saves : s.path # t.path

LEMMA SaveStarts ==
    ASSUME TypeInv, Editor!SaveDeck \/ Editor!BrowseSaveDeck
    PROVE  /\ TypeInv' /\ ed'.loadRun = ed.loadRun
           /\ UNCHANGED <<deckPath, templated, loads, file, temp>>
           /\ \/ Same(ed, ed') /\ ed'.saveRun = 0 /\ UNCHANGED saves
              \/ \E t : SaveAsked(t)
<1>1. /\ ed \in Editor!EditorState /\ Bounded(ed) /\ saves \subseteq Editor!Save
  BY DEF TypeInv, Editor!TypeOK, Bounded
<1>2. 0 \in Editor!Runs /\ Bad \notin Texts
  BY EditorAndDocument DEF Editor!Runs, Editor!EditorAssumption
<1>3. /\ UNCHANGED <<deckPath, templated, loads, file, temp>>
      /\ Cardinality(saves) < MaxSaves
  BY SameCount DEF Editor!SaveDeck, Editor!BrowseSaveDeck
<1> DEFINE m == Editor!Mint
<1>4. m \in Editor!Runs \ {0} /\ \A s \in saves : s.run # m
  BY <1>3, MintFacts
<1>5. ASSUME ~Editor!Renders(ed.doc), Editor!SaveDeck
      PROVE  /\ TypeInv' /\ ed'.loadRun = ed.loadRun
             /\ Same(ed, ed') /\ ed'.saveRun = 0 /\ UNCHANGED saves
  <2>1. ed' = [ed EXCEPT !.saveRun = 0] /\ UNCHANGED saves
    BY <1>5 DEF Editor!SaveDeck
  <2>2. Same(ed, ed') /\ ed'.saveRun = 0 /\ ed'.loadRun = ed.loadRun
    BY <1>1, <1>2, <2>1, AwaitFacts
  <2>3. ed' \in Editor!EditorState /\ Bounded(ed')
    BY <1>1, <2>2 DEF Same, Bounded
  <2>4. TypeInv'
    BY <1>3, <2>1, <2>3, EditorTypes DEF TypeInv, Editor!TypeOK, InFlight
  <2> QED BY <2>1, <2>2, <2>4
<1>6. ASSUME NEW t \in Editor!Save, t.run = m, t.text = ed.doc.text, t.to = "nothing",
             saves' = saves \cup {t}, ed' = [ed EXCEPT !.saveRun = m],
             \/ t.at = "dialog" /\ t.path = None /\ t.own = TRUE
             \/ /\ t.at = "create" /\ t.path = ed.filePath /\ t.path # None
                /\ t.own = (ed.filePath \in ed.owned) /\ t.text # Bad
                /\ Overlap \/ \A s \in saves : s.path # t.path
      PROVE  TypeInv' /\ ed'.loadRun = ed.loadRun /\ SaveAsked(t)
  <2> HIDE DEF m
  <2>1. Same(ed, ed') /\ ed'.saveRun = m /\ ed'.loadRun = ed.loadRun
    BY <1>1, <1>4, <1>6, AwaitFacts
  <2>2. SaveAsked(t)
    BY <1>4, <1>6, <2>1 DEF SaveAsked, m
  <2>3. ed' \in Editor!EditorState /\ Bounded(ed')
    BY <1>1, <2>1 DEF Same, Bounded
  <2>4. /\ IsFiniteSet(saves') /\ Cardinality(saves') <= MaxSaves
    <3>1. IsFiniteSet(saves) /\ MaxSaves \in Nat
      BY EditorAndDocument DEF TypeInv, InFlight, Editor!EditorAssumption
    <3>2. /\ IsFiniteSet(saves \cup {t}) /\ Cardinality(saves \cup {t}) \in Nat
          /\ Cardinality(saves \cup {t}) <= Cardinality(saves) + 1
      BY <3>1, OneMore
    <3>3. Cardinality(saves) \in Nat
      BY <3>1, FS_CardinalityType
    <3> QED BY <1>3, <1>6, <3>1, <3>2, <3>3
  <2>5. saves' \subseteq Editor!Save /\ \A s \in saves' : s.run # 0
    BY <1>1, <1>4, <1>6 DEF TypeInv, InFlight
  <2>6. SavesFormed'
    <3>1. t.at = "create" => t.path \in Files /\ t.text \in Texts
      <4>1. ed.filePath \in Files \cup {None} /\ t.text \in Texts \cup {Bad}
        BY <1>1, <1>6, EditorFields DEF Editor!Save
      <4> QED BY <1>6, <4>1
    <3> QED BY <1>3, <1>6, <3>1 DEF TypeInv, SavesFormed
  <2>7. TypeInv'
    BY <1>3, <2>3, <2>4, <2>5, <2>6, WriterTypes DEF TypeInv, Editor!TypeOK
  <2> QED BY <2>1, <2>2, <2>7
<1>7. ASSUME Editor!Renders(ed.doc), Editor!SaveDeck
      PROVE  TypeInv' /\ ed'.loadRun = ed.loadRun /\ \E t : SaveAsked(t)
  <2> DEFINE t == Editor!SaveTask(Editor!SaveTarget(ed), "create")
  <2>1. /\ Editor!SaveTarget(ed) = ed.filePath /\ ed.filePath # None
    BY <1>7 DEF Editor!SaveDeck, Editor!SaveTarget
  <2>2. t = [run |-> m, path |-> ed.filePath, text |-> ed.doc.text, at |-> "create",
             to |-> "nothing", own |-> ed.filePath \in ed.owned]
    BY <2>1 DEF Editor!SaveTask
  <2>3. /\ ed' = [ed EXCEPT !.saveRun = m] /\ saves' = saves \cup {t}
        /\ Overlap \/ \A s \in saves : s.path # ed.filePath
    BY <1>7, <2>1 DEF Editor!SaveDeck, Editor!Unsaved
  <2>4. ed.filePath \in Files \cup {None} /\ ed.doc.text \in Texts \cup {Bad}
    BY <1>1, EditorFields DEF Editor!Doc
  <2>5. ed.doc.text # Bad
    BY <1>7 DEF Editor!Renders
  <2> DEFINE o == ed.filePath \in ed.owned
  <2>7. o \in BOOLEAN
    OBVIOUS
  <2>8. t = [run |-> m, path |-> ed.filePath, text |-> ed.doc.text, at |-> "create",
             to |-> "nothing", own |-> o]
    BY <2>2
  <2> HIDE DEF m, o, t
  <2>6. /\ t \in Editor!Save /\ t.run = m /\ t.text = ed.doc.text /\ t.to = "nothing"
        /\ t.at = "create" /\ t.path = ed.filePath /\ t.own = o
    BY <1>4, <2>4, <2>7, <2>8 DEF Editor!Save
  <2> USE DEF o
  <2> QED BY <1>6, <2>1, <2>3, <2>5, <2>6
<1>8. ASSUME Editor!BrowseSaveDeck
      PROVE  TypeInv' /\ ed'.loadRun = ed.loadRun /\ \E t : SaveAsked(t)
  <2> DEFINE t == Editor!SaveTask(None, "dialog")
  <2>1. t = [run |-> m, path |-> None, text |-> ed.doc.text, at |-> "dialog",
             to |-> "nothing", own |-> TRUE]
    BY DEF Editor!SaveTask
  <2>2. /\ ed' = [ed EXCEPT !.saveRun = m] /\ saves' = saves \cup {t}
    BY <1>8 DEF Editor!BrowseSaveDeck
  <2>3. ed.doc.text \in Texts \cup {Bad}
    BY <1>1, EditorFields DEF Editor!Doc
  <2> HIDE DEF m, t
  <2>4. /\ t \in Editor!Save /\ t.run = m /\ t.text = ed.doc.text /\ t.to = "nothing"
        /\ t.at = "dialog" /\ t.path = None /\ t.own = TRUE
    BY <1>4, <2>1, <2>3 DEF Editor!Save
  <2> QED BY <1>6, <2>2, <2>4
<1> QED BY <1>3, <1>5, <1>7, <1>8

\* A step of a save leaves the editor and the loads alone.
LEMMA DialogTypes ==
    ASSUME TypeInv, NEW s \in saves, Editor!DialogEnds(s)
    PROVE  TypeInv'
<1>1. /\ s \in Editor!Save /\ s.to = "nothing" /\ saves \subseteq Editor!Save
      /\ IsFiniteSet(saves)
  BY DEF TypeInv, Editor!TypeOK, SavesFormed, InFlight, Editor!DialogEnds
<1>2. UNCHANGED <<file, temp, deckPath, templated, ed, loads>>
  BY DEF Editor!DialogEnds, Editor!AtRest
<1>3. ASSUME NEW t \in Editor!Save, t.run = s.run, t.to = "nothing", Editor!Moved(s, t),
             \/ t.at = "failed"
             \/ t.at = "create" /\ t.path \in Files /\ t.text \in Texts
      PROVE  TypeInv'
  <2>1. /\ saves' \subseteq Editor!Save /\ IsFiniteSet(saves') /\ Cardinality(saves') <= MaxSaves
        /\ \A x \in saves' : x.run # 0
    BY <1>3, OneMoved
  <2>2. SavesFormed'
    BY <1>2, <1>3 DEF TypeInv, SavesFormed, Editor!Moved
  <2> QED BY <1>2, <2>1, <2>2, WriterTypes DEF TypeInv, Editor!TypeOK, Bounded
<1>4. CASE s.text = Bad /\ Editor!Moved(s, [s EXCEPT !.at = "failed"])
  <2> DEFINE t == [s EXCEPT !.at = "failed"]
  <2>1. t \in Editor!Save /\ t.run = s.run /\ t.to = "nothing" /\ t.at = "failed"
    BY <1>1 DEF Editor!Save
  <2> QED BY <1>3, <1>4, <2>1
<1>5. ASSUME NEW f \in Files, s.text # Bad, Editor!Moved(s, [s EXCEPT !.path = f, !.at = "create"])
      PROVE  TypeInv'
  <2> DEFINE t == [s EXCEPT !.path = f, !.at = "create"]
  <2>1. /\ t \in Editor!Save /\ t.run = s.run /\ t.to = "nothing" /\ t.at = "create"
        /\ t.path = f /\ t.text \in Texts
    BY <1>1, <1>5 DEF Editor!Save
  <2> QED BY <1>3, <1>5, <2>1
<1>6. CASE saves' = saves \ {s}
  <2>1. IsFiniteSet(saves') /\ Cardinality(saves') <= MaxSaves
    <3>1. /\ IsFiniteSet(saves) /\ Cardinality(saves) <= MaxSaves /\ MaxSaves \in Nat
          /\ Cardinality(saves) \in Nat
      BY EditorAndDocument, FS_CardinalityType DEF TypeInv, InFlight, Editor!EditorAssumption
    <3>2. IsFiniteSet(saves \ {s}) /\ Cardinality(saves \ {s}) <= Cardinality(saves)
      BY <3>1, OneReplaced
    <3>3. Cardinality(saves \ {s}) \in Nat
      BY <3>2, FS_CardinalityType
    <3> QED BY <1>6, <3>1, <3>2, <3>3
  <2>2. saves' \subseteq Editor!Save /\ (\A x \in saves' : x.run # 0) /\ SavesFormed'
    BY <1>1, <1>2, <1>6 DEF TypeInv, InFlight, SavesFormed
  <2> QED BY <1>2, <2>1, <2>2, WriterTypes DEF TypeInv, Editor!TypeOK, Bounded
<1> QED BY <1>4, <1>5, <1>6 DEF Editor!DialogEnds

LEMMA CreateTypes ==
    ASSUME TypeInv, NEW s \in saves, Editor!SaveCreates(s)
    PROVE  TypeInv'
<1> DEFINE t == [s EXCEPT !.at = "begin", !.to = "temp"]
<1>1. s \in Editor!Save /\ s.path \in Files /\ s.text \in Texts
  BY DEF TypeInv, Editor!TypeOK, SavesFormed, Editor!SaveCreates
<1>2. /\ UNCHANGED <<file, deckPath, templated, ed, loads>>
      /\ temp' = [temp EXCEPT ![s.path] = Editor!Whole(None)] /\ Editor!Moved(s, t)
  BY DEF Editor!SaveCreates, Editor!AtRest
<1>3. /\ t \in Editor!Save /\ t.run = s.run /\ t.path = s.path /\ t.text = s.text
      /\ t.at = "begin" /\ t.to = "temp"
  BY <1>1 DEF Editor!Save
<1> HIDE DEF t
<1>4. /\ saves' \subseteq Editor!Save /\ IsFiniteSet(saves') /\ Cardinality(saves') <= MaxSaves
      /\ \A x \in saves' : x.run # 0
  BY <1>2, <1>3, OneMoved
<1>5. /\ Editor!Whole(None) \in Editor!Contents
      /\ temp \in [Files -> Editor!Contents \cup {Editor!Absent}]
  BY DEF Editor!Whole, Editor!Contents, TypeInv, Editor!TypeOK
<1>6. /\ temp' \in [Files -> Editor!Contents \cup {Editor!Absent}]
      /\ \A f \in Files : temp'[f] = IF f = s.path THEN Editor!Whole(None) ELSE temp[f]
  BY <1>1, <1>2, <1>5
<1>7. SavesFormed'
  <2> SUFFICES ASSUME NEW x \in saves'
               PROVE  /\ x.to = "temp" => temp'[x.path] \in Editor!Contents
                      /\ x.at \in {"dialog", "create", "saved", "failed"} => x.to = "nothing"
                      /\ x.at \in {"create", "begin", "finish", "rename", "saved"} =>
                           x.path \in Files /\ x.text \in Texts
    BY DEF SavesFormed
  <2>1. CASE x = t
    BY <1>1, <1>3, <1>5, <1>6, <2>1
  <2>2. CASE x \in saves
    <3>1. x.to = "temp" => x.path \in Files
      BY <1>4, <2>2 DEF TypeInv, SavesFormed, Editor!TypeOK, Editor!Save
    <3> QED BY <1>5, <1>6, <2>2, <3>1 DEF TypeInv, SavesFormed
  <2> QED BY <1>2, <2>1, <2>2 DEF Editor!Moved
<1> QED BY <1>2, <1>4, <1>6, <1>7, WriterTypes DEF TypeInv, Editor!TypeOK, Bounded

\* What a write leaves in the temporary file, or in the file it has become.
WriteEffect(s, half) ==
    /\ file' \in [Files -> Editor!Contents]
    /\ temp' \in [Files -> Editor!Contents \cup {Editor!Absent}]
    /\ s.to = "temp" => /\ temp' = [temp EXCEPT ![s.path] = [@ EXCEPT ![half] = s.text]]
                        /\ temp[s.path] \in Editor!Contents /\ temp'[s.path] \in Editor!Contents
                        /\ UNCHANGED file
    /\ s.to = "file" => /\ file' = [file EXCEPT ![s.path] = [@ EXCEPT ![half] = s.text]]
                        /\ file[s.path] \in Editor!Contents
                        /\ UNCHANGED temp
    /\ s.to = "nothing" => UNCHANGED <<file, temp>>
    /\ \A f \in Files : file'[f] = Editor!Whole(Template) => file[f] = Editor!Whole(Template)
    /\ \A f \in Files : temp'[f] = Editor!Whole(Template) => temp[f] = Editor!Whole(Template)

LEMMA WriteEffects ==
    ASSUME TypeInv, NEW s \in saves, s.at \in {"begin", "finish"},
           NEW half \in {1, 2}, Editor!Written(s, half)
    PROVE  WriteEffect(s, half)
<1>1. /\ s \in Editor!Save /\ s.path \in Files /\ s.text \in Texts
      /\ s.to = "temp" => temp[s.path] \in Editor!Contents
  BY DEF TypeInv, Editor!TypeOK, SavesFormed
<1>2. /\ file \in [Files -> Editor!Contents]
      /\ temp \in [Files -> Editor!Contents \cup {Editor!Absent}]
  BY DEF TypeInv, Editor!TypeOK
<1>3. s.to \in {"temp", "file", "nothing"}
  BY <1>1 DEF Editor!Save
<1>4. CASE s.to = "temp"
  <2> DEFINE c == [temp[s.path] EXCEPT ![half] = s.text]
  <2>1. c \in Editor!Contents /\ c # Editor!Whole(Template)
    BY <1>1, <1>4, HalfWritten
  <2>2. temp' = [temp EXCEPT ![s.path] = c] /\ UNCHANGED file
    BY <1>4 DEF Editor!Written
  <2> HIDE DEF c
  <2>3. /\ temp' \in [Files -> Editor!Contents \cup {Editor!Absent}]
        /\ \A f \in Files : temp'[f] = IF f = s.path THEN c ELSE temp[f]
    BY <1>1, <1>2, <2>1, <2>2
  <2> QED BY <1>1, <1>2, <1>4, <2>1, <2>2, <2>3 DEF WriteEffect, c
<1>5. CASE s.to = "file"
  <2> DEFINE c == [file[s.path] EXCEPT ![half] = s.text]
  <2>1. file[s.path] \in Editor!Contents
    BY <1>1, <1>2
  <2>2. c \in Editor!Contents /\ c # Editor!Whole(Template)
    BY <1>1, <2>1, HalfWritten
  <2>3. file' = [file EXCEPT ![s.path] = c] /\ UNCHANGED temp
    BY <1>5 DEF Editor!Written
  <2> HIDE DEF c
  <2>4. /\ file' \in [Files -> Editor!Contents]
        /\ \A f \in Files : file'[f] = IF f = s.path THEN c ELSE file[f]
    BY <1>1, <1>2, <2>2, <2>3
  <2> QED BY <1>1, <1>2, <1>5, <2>1, <2>2, <2>3, <2>4 DEF WriteEffect, c
<1>6. CASE s.to = "nothing"
  BY <1>2, <1>6 DEF WriteEffect, Editor!Written
<1> QED BY <1>3, <1>4, <1>5, <1>6

LEMMA WriteTypes ==
    ASSUME TypeInv, NEW s \in saves, Editor!SaveWrites(s)
    PROVE  /\ TypeInv' /\ UNCHANGED <<deckPath, templated, ed, loads>>
           /\ \/ /\ s.at = "begin" /\ Editor!Moved(s, [s EXCEPT !.at = "finish"])
                 /\ WriteEffect(s, 1)
              \/ /\ s.at = "finish" /\ Editor!Moved(s, [s EXCEPT !.at = "rename"])
                 /\ WriteEffect(s, 2)
<1>1. /\ s \in Editor!Save
      /\ s.at \in {"begin", "finish"} => s.path \in Files /\ s.text \in Texts
  BY DEF TypeInv, Editor!TypeOK, SavesFormed
<1>2. UNCHANGED <<deckPath, templated, ed, loads>>
  BY DEF Editor!SaveWrites, Editor!AtRest
<1>3. \/ /\ s.at = "begin" /\ Editor!Moved(s, [s EXCEPT !.at = "finish"]) /\ WriteEffect(s, 1)
      \/ /\ s.at = "finish" /\ Editor!Moved(s, [s EXCEPT !.at = "rename"]) /\ WriteEffect(s, 2)
  BY WriteEffects DEF Editor!SaveWrites
<1>4. ASSUME NEW half \in {1, 2}, WriteEffect(s, half), s.path \in Files, s.text \in Texts,
             NEW t \in Editor!Save, t.run = s.run, t.path = s.path, t.text = s.text, t.to = s.to,
             t.at \in {"finish", "rename"}, Editor!Moved(s, t)
      PROVE  TypeInv'
  <2>1. /\ saves' \subseteq Editor!Save /\ IsFiniteSet(saves') /\ Cardinality(saves') <= MaxSaves
        /\ \A x \in saves' : x.run # 0
    BY <1>4, OneMoved
  <2>2. \A f \in Files : temp[f] \in Editor!Contents => temp'[f] \in Editor!Contents
    <3>1. s.to \in {"temp", "file", "nothing"} /\ temp \in [Files -> Editor!Contents \cup {Editor!Absent}]
      BY <1>1 DEF Editor!Save, TypeInv, Editor!TypeOK
    <3> QED BY <1>4, <3>1 DEF WriteEffect
  <2>3. \A x \in saves : x.to = "temp" => x.path \in Files /\ temp[x.path] \in Editor!Contents
    BY DEF TypeInv, SavesFormed, Editor!TypeOK, Editor!Save
  <2>4. SavesFormed'
    BY <1>1, <1>4, <2>2, <2>3 DEF TypeInv, SavesFormed, Editor!Moved
  <2> QED BY <1>2, <1>4, <2>1, <2>4, WriterTypes DEF TypeInv, Editor!TypeOK, Bounded, WriteEffect
<1>5. \A place \in {"finish", "rename"} :
        LET t == [s EXCEPT !.at = place]
        IN  /\ t \in Editor!Save /\ t.run = s.run /\ t.path = s.path /\ t.text = s.text
            /\ t.to = s.to /\ t.at = place
  BY <1>1 DEF Editor!Save
<1>6. TypeInv'
  BY <1>1, <1>3, <1>4, <1>5
<1> QED BY <1>2, <1>3, <1>6

\* A save that lets go of its temporary file: it has ended, and so has what any other
\* descriptor called by that name.
LetGo(s, b, place) ==
    /\ s.path \in Files
    /\ temp' = [temp EXCEPT ![s.path] = None]
    /\ saves' = Editor!Redirected(s.path, saves \ {s}, b)
                  \cup {[s EXCEPT !.at = place, !.to = "nothing"]}
    /\ UNCHANGED <<deckPath, templated, ed, loads>>

\* What is then in flight, one by one: the save itself, or what one of the others is now.
NowIs(s, place, y) ==
    \/ /\ y.run = s.run /\ y.path = s.path /\ y.text = s.text /\ y.own = s.own
       /\ y.at = place /\ y.to = "nothing"
    \/ \E x \in saves \ {s} :
         /\ y.run = x.run /\ y.path = x.path /\ y.text = x.text /\ y.at = x.at /\ y.own = x.own
         /\ x.to = "nothing" => y.to = "nothing"
         /\ x.path # s.path => y = x
         /\ x.path = s.path => y.to # "temp"

LEMMA LetGoTypes ==
    ASSUME TypeInv, NEW s \in saves, NEW b \in BOOLEAN, NEW place \in {"saved", "failed"},
           LetGo(s, b, place), file' \in [Files -> Editor!Contents],
           place = "saved" => s.text \in Texts
    PROVE  TypeInv' /\ \A y \in saves' : NowIs(s, place, y)
<1> DEFINE T == Editor!Redirected(s.path, saves \ {s}, b)
           t == [s EXCEPT !.at = place, !.to = "nothing"]
<1>1. s \in Editor!Save /\ saves \subseteq Editor!Save /\ IsFiniteSet(saves)
  BY DEF TypeInv, Editor!TypeOK, InFlight
<1>2. saves \ {s} \subseteq Editor!Save /\ IsFiniteSet(saves \ {s})
  BY <1>1, FS_RemoveElement
<1>3. /\ T \subseteq Editor!Save /\ IsFiniteSet(T) /\ Cardinality(T) <= Cardinality(saves \ {s})
      /\ \A y \in T : \E x \in saves \ {s} :
           /\ y.run = x.run /\ y.path = x.path /\ y.text = x.text /\ y.at = x.at /\ y.own = x.own
           /\ x.to = "nothing" => y.to = "nothing"
           /\ x.path # s.path => y = x
           /\ x.path = s.path => y.to # "temp"
  <2> DEFINE U == saves \ {s}
             p == s.path
  <2>1. U \subseteq Editor!Save /\ IsFiniteSet(U) /\ T = Editor!Redirected(p, U, b)
    BY <1>2
  <2> HIDE DEF U, p, T
  <2>2. /\ T \subseteq Editor!Save /\ IsFiniteSet(T) /\ Cardinality(T) <= Cardinality(U)
        /\ \A y \in T : \E x \in U :
             /\ y.run = x.run /\ y.path = x.path /\ y.text = x.text /\ y.at = x.at
             /\ y.own = x.own
             /\ x.to = "nothing" => y.to = "nothing"
             /\ x.path # p => y = x
             /\ x.path = p => y.to # "temp"
    BY <2>1, RedirectedFacts
  <2> QED BY <2>2 DEF U, p
<1>4. /\ t \in Editor!Save /\ t.run = s.run /\ t.path = s.path /\ t.text = s.text
      /\ t.own = s.own /\ t.at = place /\ t.to = "nothing"
  BY <1>1 DEF Editor!Save
<1>5. saves' = T \cup {t}
  BY DEF LetGo
<1> HIDE DEF T, t
<1>6. \A y \in saves' : NowIs(s, place, y)
  <2> TAKE y \in saves'
  <2>1. CASE y \in T
    BY <1>3, <2>1 DEF NowIs
  <2>2. CASE y = t
    BY <1>4, <2>2 DEF NowIs
  <2> QED BY <1>5, <2>1, <2>2
<1>7. /\ saves' \subseteq Editor!Save /\ IsFiniteSet(saves') /\ Cardinality(saves') <= MaxSaves
      /\ \A x \in saves' : x.run # 0
  <2>1. T \subseteq Editor!Save /\ IsFiniteSet(T) /\ Cardinality(T) <= Cardinality(saves \ {s})
    BY <1>3
  <2>2. \A y \in T : \E x \in saves : y.run = x.run
    BY <1>3
  <2>3. t \in Editor!Save /\ t.run = s.run
    BY <1>4
  <2> QED BY <1>5, <2>1, <2>2, <2>3, SavesReplaced
<1>8. /\ temp' \in [Files -> Editor!Contents \cup {Editor!Absent}]
      /\ \A f \in Files : f # s.path => temp'[f] = temp[f]
  BY DEF LetGo, TypeInv, Editor!TypeOK, Editor!Absent
<1>9. SavesFormed'
  <2> SUFFICES ASSUME NEW y \in saves'
               PROVE  /\ y.to = "temp" => temp'[y.path] \in Editor!Contents
                      /\ y.at \in {"dialog", "create", "saved", "failed"} => y.to = "nothing"
                      /\ y.at \in {"create", "begin", "finish", "rename", "saved"} =>
                           y.path \in Files /\ y.text \in Texts
    BY DEF SavesFormed
  <2>1. CASE /\ y.path = s.path /\ y.text = s.text /\ y.at = place /\ y.to = "nothing"
    BY <2>1 DEF LetGo
  <2>2. ASSUME NEW x \in saves \ {s},
               y.path = x.path, y.text = x.text, y.at = x.at,
               x.to = "nothing" => y.to = "nothing",
               x.path # s.path => y = x,
               x.path = s.path => y.to # "temp"
        PROVE  /\ y.to = "temp" => temp'[y.path] \in Editor!Contents
               /\ y.at \in {"dialog", "create", "saved", "failed"} => y.to = "nothing"
               /\ y.at \in {"create", "begin", "finish", "rename", "saved"} =>
                    y.path \in Files /\ y.text \in Texts
    <3>1. /\ x.to = "temp" => temp[x.path] \in Editor!Contents
          /\ x.at \in {"dialog", "create", "saved", "failed"} => x.to = "nothing"
          /\ x.at \in {"create", "begin", "finish", "rename", "saved"} =>
               x.path \in Files /\ x.text \in Texts
          /\ x \in Editor!Save
      BY <1>1 DEF TypeInv, SavesFormed
    <3>2. y.to = "temp" => x.path # s.path /\ x.to = "temp" /\ x.path \in Files
      BY <2>2, <3>1 DEF Editor!Save
    <3> QED BY <1>8, <2>2, <3>1, <3>2
  <2> QED BY <1>6, <2>1, <2>2 DEF NowIs
<1> QED BY <1>6, <1>7, <1>8, <1>9, WriterTypes DEF LetGo, TypeInv, Editor!TypeOK, Bounded

LEMMA RenameTypes ==
    ASSUME TypeInv, NEW s \in saves, Editor!SaveRenames(s)
    PROVE  /\ TypeInv' /\ LetGo(s, TRUE, "saved") /\ \A y \in saves' : NowIs(s, "saved", y)
           /\ s.at = "rename" /\ s.text \in Texts /\ temp[s.path] # None
           /\ file' = [file EXCEPT ![s.path] = temp[s.path]]
<1>1. /\ s.at = "rename" /\ s.path \in Files /\ s.text \in Texts
  BY DEF Editor!SaveRenames, TypeInv, SavesFormed
<1>2. /\ temp[s.path] # None /\ file' = [file EXCEPT ![s.path] = temp[s.path]]
      /\ LetGo(s, TRUE, "saved")
  BY <1>1 DEF Editor!SaveRenames, Editor!AtRest, Editor!Absent, LetGo
<1>3. file' \in [Files -> Editor!Contents]
  BY <1>1, <1>2 DEF TypeInv, Editor!TypeOK, Editor!Absent
<1> QED BY <1>1, <1>2, <1>3, LetGoTypes

LEMMA FailTypes ==
    ASSUME TypeInv, NEW s \in saves, Editor!SaveFails(s)
    PROVE  /\ TypeInv' /\ LetGo(s, FALSE, "failed") /\ \A y \in saves' : NowIs(s, "failed", y)
           /\ UNCHANGED file
<1>1. s.path \in Files
  BY DEF Editor!SaveFails, TypeInv, SavesFormed
<1>2. UNCHANGED file /\ LetGo(s, FALSE, "failed")
  BY <1>1 DEF Editor!SaveFails, Editor!TempRemoved, Editor!AtRest, Editor!Absent, LetGo
<1>3. file' \in [Files -> Editor!Contents]
  BY <1>2 DEF TypeInv, Editor!TypeOK
<1> QED BY <1>2, <1>3, LetGoTypes

LEMMA SaveIsAnswered ==
    ASSUME TypeInv, NEW s \in saves, Editor!DeckSaved(s)
    PROVE  /\ TypeInv' /\ saves' = saves \ {s}
           /\ \/ UNCHANGED ed
              \/ Same(ed, ed') /\ ed'.saveRun = 0 /\ ed'.loadRun = ed.loadRun
              \/ /\ s.at = "saved" /\ s.run = ed.saveRun /\ s.path \in Files
                 /\ ed' \in Editor!EditorState /\ ed'.undo = ed.undo /\ ed'.redo = ed.redo
                 /\ ed'.filePath = s.path /\ ed'.fromTemplate = FALSE
                 /\ ed'.owned = ed.owned \cup {s.path}
                 /\ ed'.saveRun = 0 /\ ed'.loadRun = ed.loadRun
                 /\ ed'.doc.text = ed.doc.text /\ ed'.doc.from = ed.doc.from
           /\ UNCHANGED <<deckPath, templated, loads, file, temp>>
<1>1. /\ ed \in Editor!EditorState /\ Bounded(ed)
      /\ s.at = "saved" => s.path \in Files
  BY DEF TypeInv, Editor!TypeOK, Bounded, SavesFormed
<1>2. /\ saves' = saves \ {s} /\ s.at \in {"saved", "failed"}
      /\ UNCHANGED <<deckPath, templated, loads, file, temp>>
      /\ ed' = IF s.run # ed.saveRun THEN ed
               ELSE IF s.at = "failed" THEN [ed EXCEPT !.saveRun = 0]
               ELSE Editor!MarkedSaved(ed, s.path)
  BY DEF Editor!DeckSaved
<1>3. 0 \in Editor!Runs
  BY EditorAndDocument DEF Editor!Runs, Editor!EditorAssumption
<1>4. /\ ed' \in Editor!EditorState /\ Bounded(ed')
      /\ \/ UNCHANGED ed
         \/ Same(ed, ed') /\ ed'.saveRun = 0 /\ ed'.loadRun = ed.loadRun
         \/ /\ s.at = "saved" /\ s.run = ed.saveRun /\ s.path \in Files
            /\ ed' \in Editor!EditorState /\ ed'.undo = ed.undo /\ ed'.redo = ed.redo
            /\ ed'.filePath = s.path /\ ed'.fromTemplate = FALSE
            /\ ed'.owned = ed.owned \cup {s.path}
            /\ ed'.saveRun = 0 /\ ed'.loadRun = ed.loadRun
            /\ ed'.doc.text = ed.doc.text /\ ed'.doc.from = ed.doc.from
  <2>1. CASE s.run # ed.saveRun
    BY <1>1, <1>2, <2>1
  <2>2. CASE s.run = ed.saveRun /\ s.at = "failed"
    <3>1. ed' = [ed EXCEPT !.saveRun = 0]
      BY <1>2, <2>2
    <3>2. Same(ed, ed') /\ ed'.saveRun = 0 /\ ed'.loadRun = ed.loadRun
      BY <1>1, <1>3, <3>1, AwaitFacts
    <3> QED BY <1>1, <3>2 DEF Same, Bounded
  <2>3. CASE s.run = ed.saveRun /\ s.at # "failed"
    <3>1. ed' = Editor!MarkedSaved(ed, s.path) /\ s.at = "saved"
      BY <1>2, <2>3
    <3>3. ed \in Editor!EditorState /\ s.path \in Files /\ ed' = Editor!MarkedSaved(ed, s.path)
      BY <1>1, <3>1
    <3>2. /\ ed' \in Editor!EditorState /\ ed'.undo = ed.undo /\ ed'.redo = ed.redo
          /\ ed'.filePath = s.path /\ ed'.fromTemplate = FALSE
          /\ ed'.owned = ed.owned \cup {s.path}
          /\ ed'.saveRun = 0 /\ ed'.loadRun = ed.loadRun
          /\ ed'.doc.text = ed.doc.text /\ ed'.doc.from = ed.doc.from
      BY <3>3, MarkedFacts
    <3> QED BY <1>1, <2>3, <3>1, <3>2 DEF Bounded
  <2> QED BY <2>1, <2>2, <2>3
<1>5. IsFiniteSet(saves') /\ Cardinality(saves') <= MaxSaves
  <2>1. /\ IsFiniteSet(saves) /\ Cardinality(saves) <= MaxSaves /\ MaxSaves \in Nat
        /\ Cardinality(saves) \in Nat
    BY EditorAndDocument, FS_CardinalityType DEF TypeInv, InFlight, Editor!EditorAssumption
  <2>2. IsFiniteSet(saves \ {s}) /\ Cardinality(saves \ {s}) <= Cardinality(saves)
    BY <2>1, OneReplaced
  <2>3. Cardinality(saves \ {s}) \in Nat
    BY <2>2, FS_CardinalityType
  <2> QED BY <1>2, <2>1, <2>2, <2>3
<1>6. saves' \subseteq Editor!Save /\ (\A x \in saves' : x.run # 0) /\ SavesFormed'
  BY <1>2 DEF TypeInv, InFlight, SavesFormed, Editor!TypeOK
<1>7. TypeInv'
  BY <1>2, <1>4, <1>5, <1>6, WriterTypes DEF TypeInv, Editor!TypeOK
<1> QED BY <1>2, <1>4, <1>7

LEMMA CrashTypes ==
    ASSUME TypeInv, Editor!Crash
    PROVE  /\ TypeInv' /\ ed'.filePath = None /\ ed'.undo = <<>> /\ ed'.redo = <<>>
           /\ ed'.loadRun = 0 /\ ed'.saveRun = 0
<1>1. /\ deckPath' \in Files /\ templated' = FALSE /\ ed' = Editor!NoEditor
      /\ loads' = {} /\ saves' = {} /\ temp' = [f \in Files |-> None] /\ UNCHANGED file
  BY DEF Editor!Crash, Editor!Absent
<1>2. /\ ed' \in Editor!EditorState /\ ed'.undo = <<>> /\ ed'.redo = <<>> /\ ed'.filePath = None
      /\ ed'.loadRun = 0 /\ ed'.saveRun = 0
  BY <1>1, RestartFacts
<1>3. IsFiniteSet({}) /\ Cardinality({}) = 0
  BY FS_EmptySet
<1>4. MaxLoads \in Nat /\ MaxSaves \in Nat /\ MAX_HISTORY \in Nat
  BY EditorAndDocument DEF Editor!EditorAssumption
<1>5. Bounded(ed')
  <2>1. Len(ed'.undo) = 0 /\ Len(ed'.redo) = 0
    BY <1>2
  <2>2. 0 + 0 <= MAX_HISTORY
    BY <1>4
  <2> QED BY <2>1, <2>2 DEF Bounded
<1>6. Editor!TypeOK'
  BY <1>1, <1>2, <1>5 DEF TypeInv, Editor!TypeOK, Bounded, Editor!Absent
<1> QED BY <1>1, <1>2, <1>3, <1>4, <1>6 DEF TypeInv, InFlight, SavesFormed

\* Every step keeps the types, the tasks in flight and the form of the saves.
LEMMA TypeKept ==
    ASSUME TypeInv, Editor!Next
    PROVE  TypeInv'
<1>1. ASSUME Editor!User PROVE TypeInv'
  BY <1>1, EditingTypes, PathTypes, LoadStarts, SaveStarts DEF Editor!User
<1>2. ASSUME Editor!Tasks PROVE TypeInv'
  BY <1>2, LoadIsRead, LoadIsAnswered, DialogTypes, CreateTypes, WriteTypes, RenameTypes,
     FailTypes, SaveIsAnswered DEF Editor!Tasks
<1> QED BY <1>1, <1>2, CrashTypes DEF Editor!Next
-----------------------------------------------------------------------------
(* The document stays its file's                                           *)

LEMMA InitDocument ==
    ASSUME Editor!Init
    PROVE  DocumentInv
<1>1. /\ ed = Editor!NoEditor /\ loads = {} /\ saves = {} /\ temp = [f \in Files |-> None]
  BY DEF Editor!Init, Editor!Absent
<1>2. ed.filePath = None /\ ed.undo = <<>> /\ ed.redo = <<>>
  BY <1>1, RestartFacts
<1>3. None \notin Files
  BY EditorAndDocument DEF Editor!EditorAssumption
<1> QED BY <1>1, <1>2, <1>3 DEF DocumentInv, Editor!DocumentOfItsFile, Editor!Loaded,
           LoadsCurrent, NoTemplateSaved, AwaitedText

\* No step makes a template of a file.
NoNewTemplate ==
    \A f \in Files : file'[f] = Editor!Whole(Template) => file[f] = Editor!Whole(Template)

\* The document is as it was, and the saves are still its own.
LEMMA DocumentSame ==
    ASSUME DocumentInv, Same(ed, ed'), NoNewTemplate, \A s \in saves' : s.own
    PROVE  Editor!DocumentOfItsFile'
BY DEF DocumentInv, Editor!DocumentOfItsFile, Editor!Loaded, Same, NoNewTemplate

LEMMA EditingDocument ==
    ASSUME TypeInv, DocumentInv,
           \/ \E t \in Texts \cup {Bad} : Editor!EditField(t) \/ Editor!EditRows(t)
           \/ Editor!Undo \/ Editor!Redo
    PROVE  DocumentInv'
<1>1. /\ Stacked(ed, ed') /\ ed'.loadRun = 0 /\ ed'.saveRun = 0
      /\ ed'.doc.from \in {x.from : x \in Snapshots(ed) \cup {ed.doc}}
      /\ UNCHANGED <<deckPath, templated, loads, saves, file, temp>>
  BY EditingStep
<1>2. \A x \in Snapshots(ed) \cup {ed.doc} : x.from = ed.doc.from
  BY DEF DocumentInv, Editor!DocumentOfItsFile, Snapshots
<1>3. \A x \in Snapshots(ed') : x.from = ed'.doc.from
  BY <1>1, <1>2 DEF Stacked
<1>4. Editor!DocumentOfItsFile'
  <2>1. Editor!Loaded' => ed'.filePath \in ed'.owned
    BY <1>1 DEF DocumentInv, Editor!DocumentOfItsFile, Editor!Loaded, Stacked
  <2>2. /\ \A s \in saves' : s.own
        /\ \A f \in Files : file'[f] = Editor!Whole(Template) /\ ed'.filePath = f
                              => ed'.fromTemplate
    BY <1>1 DEF DocumentInv, Editor!DocumentOfItsFile, Stacked
  <2> QED BY <1>3, <2>1, <2>2 DEF Editor!DocumentOfItsFile, Snapshots
<1>5. LoadsCurrent' /\ NoTemplateSaved' /\ AwaitedText'
  BY <1>1 DEF DocumentInv, LoadsCurrent, NoTemplateSaved, AwaitedText, TypeInv, InFlight
<1> QED BY <1>4, <1>5 DEF DocumentInv

LEMMA PathDocument ==
    ASSUME TypeInv, DocumentInv,
           \/ \E f \in Files : Editor!DeckPathChanged(f)
           \/ \E set \in BOOLEAN : Editor!VarsPathChanged(set)
    PROVE  DocumentInv'
<1>1. /\ Same(ed, ed') /\ ed'.loadRun = 0 /\ ed'.saveRun = ed.saveRun
      /\ UNCHANGED <<loads, saves, file, temp>>
  BY PathTypes
<1>2. Editor!DocumentOfItsFile'
  BY <1>1, DocumentSame DEF NoNewTemplate, DocumentInv, Editor!DocumentOfItsFile
<1>3. LoadsCurrent' /\ NoTemplateSaved' /\ AwaitedText'
  BY <1>1 DEF DocumentInv, LoadsCurrent, NoTemplateSaved, AwaitedText, TypeInv, InFlight, Same
<1> QED BY <1>2, <1>3 DEF DocumentInv

LEMMA LoadStartsDocument ==
    ASSUME TypeInv, DocumentInv, Editor!EditDeckLoad
    PROVE  DocumentInv'
<1> DEFINE m == Editor!Mint
           n == [run |-> m, path |-> deckPath, templated |-> templated, got |-> None]
<1>1. /\ Same(ed, ed') /\ ed'.loadRun = m /\ ed'.saveRun = ed.saveRun
      /\ loads' = loads \cup {n} /\ \A l \in loads : l.run # m
      /\ UNCHANGED <<deckPath, templated, saves, file, temp>>
  BY LoadStarts
<1>2. n.path = deckPath /\ n.templated = templated /\ n.got = None
  OBVIOUS
<1> HIDE DEF m, n
<1>3. Editor!DocumentOfItsFile'
  BY <1>1, DocumentSame DEF NoNewTemplate, DocumentInv, Editor!DocumentOfItsFile
<1>4. LoadsCurrent'
  BY <1>1, <1>2 DEF DocumentInv, LoadsCurrent
<1>5. NoTemplateSaved' /\ AwaitedText'
  BY <1>1 DEF DocumentInv, NoTemplateSaved, AwaitedText, Same
<1> QED BY <1>3, <1>4, <1>5 DEF DocumentInv

LEMMA LoadReadDocument ==
    ASSUME TypeInv, DocumentInv, NEW l \in loads, Editor!LoadReads(l)
    PROVE  DocumentInv'
<1>1. PICK got \in Texts \cup {"failed"} :
        /\ loads' = (loads \ {l}) \cup {[l EXCEPT !.got = got]}
        /\ ~l.templated /\ file[l.path] = Editor!Whole(Template) => got = "failed"
  BY LoadIsRead
<1>2. UNCHANGED <<deckPath, templated, ed, saves, file, temp>>
  BY LoadIsRead
<1> DEFINE m == [l EXCEPT !.got = got]
<1>3. /\ m.run = l.run /\ m.path = l.path /\ m.templated = l.templated /\ m.got = got
  BY DEF TypeInv, Editor!TypeOK, Editor!Load
<1>4. loads' = (loads \ {l}) \cup {m}
  BY <1>1
<1> HIDE DEF m
<1>5. LoadsCurrent'
  BY <1>1, <1>2, <1>3, <1>4 DEF DocumentInv, LoadsCurrent
<1> QED BY <1>2, <1>5 DEF DocumentInv, Editor!DocumentOfItsFile, Editor!Loaded, NoTemplateSaved,
           AwaitedText

LEMMA LoadAnsweredDocument ==
    ASSUME TypeInv, DocumentInv, NEW l \in loads, Editor!EditDeckLoaded(l)
    PROVE  DocumentInv'
<1>1. /\ loads' \subseteq loads
      /\ \/ UNCHANGED ed
         \/ Same(ed, ed') /\ ed'.loadRun = 0 /\ ed'.saveRun = ed.saveRun
         \/ /\ l.run = ed.loadRun /\ l.got \notin {None, "failed"}
            /\ ed' \in Editor!EditorState /\ ed'.undo = <<>> /\ ed'.redo = <<>>
            /\ ed'.filePath = deckPath /\ ed'.fromTemplate = templated
            /\ ed'.owned = {l.path} /\ ed'.loadRun = 0 /\ ed'.saveRun = 0
      /\ UNCHANGED <<deckPath, templated, saves, file, temp>>
  BY LoadIsAnswered
<1>2. NoTemplateSaved' /\ \A s \in saves' : s.own
  BY <1>1 DEF DocumentInv, NoTemplateSaved, Editor!DocumentOfItsFile
<1>3. (\A x \in loads : x.run # 0) /\ (\A x \in saves : x.run # 0)
  BY DEF TypeInv, InFlight
<1>4. CASE UNCHANGED ed
  BY <1>1, <1>4 DEF DocumentInv, Editor!DocumentOfItsFile, Editor!Loaded, LoadsCurrent,
     NoTemplateSaved, AwaitedText
<1>5. CASE Same(ed, ed') /\ ed'.loadRun = 0 /\ ed'.saveRun = ed.saveRun
  <2>1. Editor!DocumentOfItsFile'
    BY <1>1, <1>2, <1>5, DocumentSame DEF NoNewTemplate
  <2>2. LoadsCurrent' /\ AwaitedText'
    BY <1>1, <1>3, <1>5 DEF DocumentInv, LoadsCurrent, AwaitedText, Same
  <2> QED BY <1>2, <2>1, <2>2 DEF DocumentInv
<1>6. CASE /\ l.run = ed.loadRun /\ l.got \notin {None, "failed"}
           /\ ed' \in Editor!EditorState /\ ed'.undo = <<>> /\ ed'.redo = <<>>
           /\ ed'.filePath = deckPath /\ ed'.fromTemplate = templated
           /\ ed'.owned = {l.path} /\ ed'.loadRun = 0 /\ ed'.saveRun = 0
  <2>1. /\ l.path = deckPath /\ l.templated = templated
        /\ ~l.templated => file[l.path] # Editor!Whole(Template)
    BY <1>6 DEF DocumentInv, LoadsCurrent
  <2>2. Editor!DocumentOfItsFile'
    <3>1. ed'.filePath \in ed'.owned
      BY <1>6, <2>1
    <3>2. DOMAIN ed'.undo = {} /\ DOMAIN ed'.redo = {}
      BY <1>6
    <3>3. \A f \in Files : file'[f] = Editor!Whole(Template) /\ ed'.filePath = f => ed'.fromTemplate
      BY <1>1, <1>6, <2>1
    <3> QED BY <1>2, <3>1, <3>2, <3>3 DEF Editor!DocumentOfItsFile
  <2>3. LoadsCurrent' /\ AwaitedText'
    BY <1>1, <1>3, <1>6 DEF DocumentInv, LoadsCurrent, AwaitedText
  <2> QED BY <1>2, <2>2, <2>3 DEF DocumentInv
<1> QED BY <1>1, <1>4, <1>5, <1>6

LEMMA SaveStartsDocument ==
    ASSUME TypeInv, DocumentInv, Editor!SaveDeck \/ Editor!BrowseSaveDeck
    PROVE  DocumentInv'
<1>1. /\ ed'.loadRun = ed.loadRun
      /\ UNCHANGED <<deckPath, templated, loads, file, temp>>
      /\ \/ Same(ed, ed') /\ ed'.saveRun = 0 /\ UNCHANGED saves
         \/ \E t : SaveAsked(t)
  BY SaveStarts
<1>2. LoadsCurrent'
  BY <1>1 DEF DocumentInv, LoadsCurrent
<1>3. CASE Same(ed, ed') /\ ed'.saveRun = 0 /\ UNCHANGED saves
  <2>1. Editor!DocumentOfItsFile'
    BY <1>1, <1>3, DocumentSame DEF NoNewTemplate, DocumentInv, Editor!DocumentOfItsFile
  <2>2. NoTemplateSaved' /\ AwaitedText'
    BY <1>1, <1>3 DEF DocumentInv, NoTemplateSaved, AwaitedText, TypeInv, InFlight
  <2> QED BY <1>2, <2>1, <2>2 DEF DocumentInv
<1>4. ASSUME NEW t, SaveAsked(t)
      PROVE  DocumentInv'
  <2>1. t.own
    BY <1>4 DEF SaveAsked, DocumentInv, Editor!DocumentOfItsFile, Editor!Loaded
  <2>2. Same(ed, ed') /\ saves' = saves \cup {t} /\ ed'.saveRun = t.run /\ t.text = ed.doc.text
        /\ t.at \in {"dialog", "create"} /\ \A s \in saves : s.run # t.run
    BY <1>4 DEF SaveAsked
  <2>3. Editor!DocumentOfItsFile'
    BY <1>1, <2>1, <2>2, DocumentSame DEF NoNewTemplate, DocumentInv, Editor!DocumentOfItsFile
  <2>4. NoTemplateSaved' /\ AwaitedText'
    BY <1>1, <2>2 DEF DocumentInv, NoTemplateSaved, AwaitedText, Same
  <2> QED BY <1>2, <2>3, <2>4 DEF DocumentInv
<1> QED BY <1>1, <1>3, <1>4

\* A step of a save that makes no template of a file, and leaves each save its run, its
\* text and its target.
LEMMA TaskDocument ==
    ASSUME TypeInv, DocumentInv, UNCHANGED <<deckPath, templated, ed, loads>>, NoNewTemplate,
           \A f \in Files : temp'[f] # None => temp'[f] # Editor!Whole(Template),
           \A y \in saves' : \E x \in saves : y.run = x.run /\ y.text = x.text /\ y.own = x.own,
           \A y \in saves' : y.at = "saved" => file'[y.path] # Editor!Whole(Template)
    PROVE  DocumentInv'
<1>1. \A y \in saves' : y.own
  BY DEF DocumentInv, Editor!DocumentOfItsFile
<1>2. Editor!DocumentOfItsFile'
  BY <1>1 DEF DocumentInv, Editor!DocumentOfItsFile, Editor!Loaded, NoNewTemplate
<1>3. LoadsCurrent'
  <2>1. \A l \in loads : l.path \in Files
    BY DEF TypeInv, Editor!TypeOK, Editor!Load
  <2> QED BY <2>1 DEF DocumentInv, LoadsCurrent, NoNewTemplate
<1>4. NoTemplateSaved' /\ AwaitedText'
  BY DEF DocumentInv, NoTemplateSaved, AwaitedText
<1> QED BY <1>2, <1>3, <1>4 DEF DocumentInv

LEMMA DialogDocument ==
    ASSUME TypeInv, DocumentInv, NEW s \in saves, Editor!DialogEnds(s)
    PROVE  DocumentInv'
<1>1. UNCHANGED <<file, temp, deckPath, templated, ed, loads>>
  BY DEF Editor!DialogEnds, Editor!AtRest
<1>2. s \in Editor!Save
  BY DEF TypeInv, Editor!TypeOK
<1>3. \A y \in saves' : \/ y \in saves
                        \/ /\ y.run = s.run /\ y.text = s.text /\ y.own = s.own
                           /\ y.at \in {"failed", "create"}
  <2>1. CASE Editor!Moved(s, [s EXCEPT !.at = "failed"])
    BY <1>2, <2>1 DEF Editor!Moved, Editor!Save
  <2>2. ASSUME NEW f \in Files, Editor!Moved(s, [s EXCEPT !.path = f, !.at = "create"])
        PROVE  \A y \in saves' : \/ y \in saves
                                 \/ /\ y.run = s.run /\ y.text = s.text /\ y.own = s.own
                                    /\ y.at \in {"failed", "create"}
    BY <1>2, <2>2 DEF Editor!Moved, Editor!Save
  <2>3. CASE saves' = saves \ {s}
    BY <2>3
  <2> QED BY <2>1, <2>2, <2>3 DEF Editor!DialogEnds
<1>4. \A y \in saves' : y.at = "saved" => file'[y.path] # Editor!Whole(Template)
  BY <1>1, <1>3 DEF DocumentInv, NoTemplateSaved
<1>5. \A y \in saves' : \E x \in saves : y.run = x.run /\ y.text = x.text /\ y.own = x.own
  BY <1>3
<1>6. NoNewTemplate /\ \A f \in Files : temp'[f] # None => temp'[f] # Editor!Whole(Template)
  BY <1>1 DEF NoNewTemplate, DocumentInv, NoTemplateSaved
<1> QED BY <1>1, <1>4, <1>5, <1>6, TaskDocument

LEMMA CreateDocument ==
    ASSUME TypeInv, DocumentInv, NEW s \in saves, Editor!SaveCreates(s)
    PROVE  DocumentInv'
<1> DEFINE t == [s EXCEPT !.at = "begin", !.to = "temp"]
<1>1. s \in Editor!Save /\ s.path \in Files
  BY DEF TypeInv, Editor!TypeOK, SavesFormed, Editor!SaveCreates
<1>2. /\ UNCHANGED <<file, deckPath, templated, ed, loads>>
      /\ temp' = [temp EXCEPT ![s.path] = Editor!Whole(None)]
      /\ saves' = (saves \ {s}) \cup {t}
  BY DEF Editor!SaveCreates, Editor!AtRest, Editor!Moved
<1>3. t.run = s.run /\ t.text = s.text /\ t.own = s.own /\ t.at = "begin"
  BY <1>1 DEF Editor!Save
<1> HIDE DEF t
<1>4. Editor!Whole(None) # Editor!Whole(Template)
  BY EditorAndDocument DEF Editor!Whole, Editor!EditorAssumption
<1>5. \A f \in Files : temp'[f] # None => temp'[f] # Editor!Whole(Template)
  <2>1. \A f \in Files : temp'[f] = IF f = s.path THEN Editor!Whole(None) ELSE temp[f]
    BY <1>2 DEF TypeInv, Editor!TypeOK
  <2> QED BY <1>4, <2>1 DEF DocumentInv, NoTemplateSaved
<1>6. /\ \A y \in saves' : \E x \in saves : y.run = x.run /\ y.text = x.text /\ y.own = x.own
      /\ \A y \in saves' : y.at = "saved" => file'[y.path] # Editor!Whole(Template)
  BY <1>2, <1>3 DEF DocumentInv, NoTemplateSaved
<1>7. NoNewTemplate
  BY <1>2 DEF NoNewTemplate
<1> QED BY <1>2, <1>5, <1>6, <1>7, TaskDocument

LEMMA WriteDocument ==
    ASSUME TypeInv, DocumentInv, NEW s \in saves, Editor!SaveWrites(s)
    PROVE  DocumentInv'
<1>1. UNCHANGED <<deckPath, templated, ed, loads>>
  BY WriteTypes
<1>2. PICK half \in {1, 2}, place \in {"finish", "rename"} :
        Editor!Moved(s, [s EXCEPT !.at = place]) /\ WriteEffect(s, half)
  BY WriteTypes
<1>3. /\ NoNewTemplate
      /\ \A f \in Files : temp'[f] = Editor!Whole(Template) => temp[f] = Editor!Whole(Template)
  BY <1>2 DEF WriteEffect, NoNewTemplate
<1> DEFINE t == [s EXCEPT !.at = place]
<1>4. t.run = s.run /\ t.text = s.text /\ t.own = s.own /\ t.at # "saved"
  BY DEF TypeInv, Editor!TypeOK, Editor!Save
<1>5. saves' = (saves \ {s}) \cup {t}
  BY <1>2 DEF Editor!Moved
<1> HIDE DEF t
<1>6. \A y \in saves' : \E x \in saves : y.run = x.run /\ y.text = x.text /\ y.own = x.own
  BY <1>4, <1>5
<1>7. \A y \in saves' : y.at = "saved" => file'[y.path] # Editor!Whole(Template)
  <2>1. \A y \in saves : y.at = "saved" => y.path \in Files
    BY DEF TypeInv, SavesFormed
  <2> QED BY <1>3, <1>4, <1>5, <2>1 DEF DocumentInv, NoTemplateSaved, NoNewTemplate
<1>8. \A f \in Files : temp'[f] # None => temp'[f] # Editor!Whole(Template)
  BY <1>3 DEF DocumentInv, NoTemplateSaved
<1> QED BY <1>1, <1>3, <1>6, <1>7, <1>8, TaskDocument

LEMMA LetGoDocument ==
    ASSUME TypeInv, DocumentInv, NEW s \in saves, NEW b, NEW place \in {"saved", "failed"},
           LetGo(s, b, place), \A y \in saves' : NowIs(s, place, y), NoNewTemplate,
           place = "saved" => file'[s.path] # Editor!Whole(Template)
    PROVE  DocumentInv'
<1>1. \A f \in Files : temp'[f] # None => temp'[f] # Editor!Whole(Template)
  BY DEF LetGo, TypeInv, Editor!TypeOK, DocumentInv, NoTemplateSaved
<1>2. \A y \in saves' : \E x \in saves : y.run = x.run /\ y.text = x.text /\ y.own = x.own
  BY DEF NowIs
<1>3. \A y \in saves' : y.at = "saved" => file'[y.path] # Editor!Whole(Template)
  <2>1. \A x \in saves : x.at = "saved" =>
          x.path \in Files /\ file[x.path] # Editor!Whole(Template)
    BY DEF TypeInv, SavesFormed, DocumentInv, NoTemplateSaved
  <2> QED BY <2>1 DEF NowIs, NoNewTemplate
<1>4. UNCHANGED <<deckPath, templated, ed, loads>>
  BY DEF LetGo
<1> QED BY <1>1, <1>2, <1>3, <1>4, TaskDocument

LEMMA RenameDocument ==
    ASSUME TypeInv, DocumentInv, NEW s \in saves, Editor!SaveRenames(s)
    PROVE  DocumentInv'
<1>1. /\ LetGo(s, TRUE, "saved") /\ \A y \in saves' : NowIs(s, "saved", y)
      /\ temp[s.path] # None /\ file' = [file EXCEPT ![s.path] = temp[s.path]]
  BY RenameTypes
<1>2. s.path \in Files
  BY <1>1 DEF LetGo
<1>3. /\ file'[s.path] = temp[s.path] /\ temp[s.path] # Editor!Whole(Template)
      /\ \A f \in Files : f # s.path => file'[f] = file[f]
  BY <1>1, <1>2 DEF TypeInv, Editor!TypeOK, DocumentInv, NoTemplateSaved
<1>4. NoNewTemplate
  BY <1>3 DEF NoNewTemplate
<1> QED BY <1>1, <1>3, <1>4, LetGoDocument

LEMMA FailDocument ==
    ASSUME TypeInv, DocumentInv, NEW s \in saves, Editor!SaveFails(s)
    PROVE  DocumentInv'
<1>1. NoNewTemplate
  BY FailTypes DEF NoNewTemplate
<1>2. \A y \in saves' : NowIs(s, "failed", y)
  BY FailTypes
<1> QED BY FailTypes, <1>1, <1>2, LetGoDocument

LEMMA SaveAnsweredDocument ==
    ASSUME TypeInv, DocumentInv, NEW s \in saves, Editor!DeckSaved(s)
    PROVE  DocumentInv'
<1>1. /\ saves' = saves \ {s}
      /\ \/ UNCHANGED ed
         \/ Same(ed, ed') /\ ed'.saveRun = 0 /\ ed'.loadRun = ed.loadRun
         \/ /\ s.at = "saved" /\ s.run = ed.saveRun /\ s.path \in Files
            /\ ed' \in Editor!EditorState /\ ed'.undo = ed.undo /\ ed'.redo = ed.redo
            /\ ed'.filePath = s.path /\ ed'.fromTemplate = FALSE
            /\ ed'.owned = ed.owned \cup {s.path}
            /\ ed'.saveRun = 0 /\ ed'.loadRun = ed.loadRun
            /\ ed'.doc.text = ed.doc.text /\ ed'.doc.from = ed.doc.from
      /\ UNCHANGED <<deckPath, templated, loads, file, temp>>
  BY SaveIsAnswered
<1>2. /\ NoTemplateSaved' /\ \A x \in saves' : x.own
      /\ \A x \in saves : x.run # 0
  BY <1>1 DEF DocumentInv, NoTemplateSaved, Editor!DocumentOfItsFile, TypeInv, InFlight
<1>3. CASE UNCHANGED ed
  BY <1>1, <1>2, <1>3 DEF DocumentInv, Editor!DocumentOfItsFile, Editor!Loaded, LoadsCurrent,
     AwaitedText
<1>4. CASE Same(ed, ed') /\ ed'.saveRun = 0 /\ ed'.loadRun = ed.loadRun
  <2>1. Editor!DocumentOfItsFile'
    BY <1>1, <1>2, <1>4, DocumentSame DEF NoNewTemplate
  <2>2. LoadsCurrent' /\ AwaitedText'
    BY <1>1, <1>2, <1>4 DEF DocumentInv, LoadsCurrent, AwaitedText
  <2> QED BY <1>2, <2>1, <2>2 DEF DocumentInv
<1>5. CASE /\ s.at = "saved" /\ s.run = ed.saveRun /\ s.path \in Files
           /\ ed' \in Editor!EditorState /\ ed'.undo = ed.undo /\ ed'.redo = ed.redo
           /\ ed'.filePath = s.path /\ ed'.fromTemplate = FALSE
           /\ ed'.owned = ed.owned \cup {s.path}
           /\ ed'.saveRun = 0 /\ ed'.loadRun = ed.loadRun
           /\ ed'.doc.text = ed.doc.text /\ ed'.doc.from = ed.doc.from
  <2>1. file[s.path] # Editor!Whole(Template)
    BY <1>5 DEF DocumentInv, NoTemplateSaved
  <2>2. Editor!DocumentOfItsFile'
    <3>1. /\ ed'.filePath \in ed'.owned
          /\ \A f \in Files : file'[f] = Editor!Whole(Template) /\ ed'.filePath = f
                                => ed'.fromTemplate
      BY <1>1, <1>5, <2>1
    <3>2. \A d \in {ed'.undo[i] : i \in DOMAIN ed'.undo} \cup {ed'.redo[i] : i \in DOMAIN ed'.redo} :
            d.from = ed'.doc.from
      BY <1>5 DEF DocumentInv, Editor!DocumentOfItsFile
    <3> QED BY <1>2, <3>1, <3>2 DEF Editor!DocumentOfItsFile
  <2>3. LoadsCurrent' /\ AwaitedText'
    BY <1>1, <1>2, <1>5 DEF DocumentInv, LoadsCurrent, AwaitedText
  <2> QED BY <1>2, <2>2, <2>3 DEF DocumentInv
<1> QED BY <1>1, <1>3, <1>4, <1>5

LEMMA CrashDocument ==
    ASSUME TypeInv, DocumentInv, Editor!Crash
    PROVE  DocumentInv'
<1>1. /\ ed'.filePath = None /\ ed'.undo = <<>> /\ ed'.redo = <<>>
      /\ loads' = {} /\ saves' = {} /\ temp' = [f \in Files |-> None]
  BY CrashTypes DEF Editor!Crash, Editor!Absent
<1>2. None \notin Files
  BY EditorAndDocument DEF Editor!EditorAssumption
<1> QED BY <1>1, <1>2 DEF DocumentInv, Editor!DocumentOfItsFile, Editor!Loaded, LoadsCurrent,
           NoTemplateSaved, AwaitedText

\* Every step keeps the document to its file, whatever else is in flight.
LEMMA DocumentKept ==
    ASSUME TypeInv, DocumentInv, Editor!Next
    PROVE  DocumentInv'
<1>1. ASSUME Editor!User PROVE DocumentInv'
  BY <1>1, EditingDocument, PathDocument, LoadStartsDocument, SaveStartsDocument
     DEF Editor!User
<1>2. ASSUME Editor!Tasks PROVE DocumentInv'
  BY <1>2, LoadReadDocument, LoadAnsweredDocument, DialogDocument, CreateDocument,
     WriteDocument, RenameDocument, FailDocument, SaveAnsweredDocument DEF Editor!Tasks
<1> QED BY <1>1, <1>2, CrashDocument DEF Editor!Next
-----------------------------------------------------------------------------
(* One save to a file at a time: every file is whole                       *)

LEMMA InitWriter ==
    ASSUME Editor!Init
    PROVE  WriterInv
<1>1. /\ saves = {} /\ file \in [Files -> {Editor!Whole(t) : t \in Texts \cup {Template}}]
      /\ temp = [f \in Files |-> Editor!Absent]
  BY DEF Editor!Init
<1>2. Editor!NoPartialDeck
  BY <1>1 DEF Editor!NoPartialDeck
<1> QED BY <1>1, <1>2 DEF WriterInv, Editor!FilesWhole

LEMMA WriterSame ==
    ASSUME WriterInv, UNCHANGED <<saves, file, temp>>
    PROVE  WriterInv'
BY DEF WriterInv, Editor!FilesWhole, Editor!NoPartialDeck

LEMMA SaveStartsWriter ==
    ASSUME Overlap = FALSE, TypeInv, WriterInv, Editor!SaveDeck \/ Editor!BrowseSaveDeck
    PROVE  WriterInv'
<1>1. /\ UNCHANGED <<file, temp>>
      /\ \/ UNCHANGED saves
         \/ \E t : SaveAsked(t)
  BY SaveStarts
<1>2. ASSUME NEW t, SaveAsked(t)
      PROVE  WriterInv'
  <2>1. /\ saves' = saves \cup {t} /\ t.at \in {"dialog", "create"} /\ t.to = "nothing"
        /\ t.path # None => \A s \in saves : s.path # t.path
    BY <1>2 DEF SaveAsked
  <2>2. Editor!FilesWhole'
    BY <1>1, <2>1 DEF WriterInv, Editor!FilesWhole, Editor!NoPartialDeck
  <2>3. \A s, x \in saves' : s.path = x.path /\ s.path # None => s = x
    BY <2>1 DEF WriterInv
  <2> QED BY <1>1, <2>1, <2>2, <2>3 DEF WriterInv
<1> QED BY <1>1, <1>2, WriterSame

\* A save that has moved on, with what it holds of its file now, leaves the others theirs.
LEMMA WriterMoved ==
    ASSUME TypeInv, WriterInv, NEW s \in saves, s.path \in Files,
           NEW t, t.path = s.path, Editor!Moved(s, t),
           \A f \in Files : f # s.path => temp'[f] = temp[f] /\ file'[f] = file[f],
           t.to # "file",
           t.at \in {"begin", "finish", "rename"} => t.to = "temp",
           t.at = "begin" => temp'[t.path] = <<None, None>>,
           t.at = "finish" => temp'[t.path] = <<t.text, None>>,
           t.at = "rename" => temp'[t.path] = <<t.text, t.text>>,
           t.at = "saved" => file'[t.path] = <<t.text, t.text>>,
           \E u \in Texts \cup {Template} : file'[s.path] = Editor!Whole(u),
           temp'[s.path] # None => t.to = "temp"
    PROVE  WriterInv'
<1>1. saves' = (saves \ {s}) \cup {t}
  BY DEF Editor!Moved
<1>2. None \notin Files
  BY EditorAndDocument DEF Editor!EditorAssumption
<1>3. \A x \in saves \ {s} : x.path # s.path
  BY <1>2 DEF WriterInv
<1>4. \A x, y \in saves' : x.path = y.path /\ x.path # None => x = y
  BY <1>1, <1>3 DEF WriterInv
<1>5. ASSUME NEW x \in saves'
      PROVE  /\ x.to = "file" => FALSE
             /\ x.at \in {"begin", "finish", "rename"} => x.to = "temp"
             /\ x.at = "begin" => temp'[x.path] = <<None, None>>
             /\ x.at = "finish" => temp'[x.path] = <<x.text, None>>
             /\ x.at = "rename" => temp'[x.path] = <<x.text, x.text>>
             /\ x.at = "saved" => file'[x.path] = <<x.text, x.text>>
  <2>1. CASE x = t
    BY <2>1
  <2>2. CASE x \in saves \ {s}
    <3>1. /\ x.to = "file" => FALSE
          /\ x.at \in {"begin", "finish", "rename"} => x.to = "temp"
          /\ x.at = "begin" => temp[x.path] = <<None, None>>
          /\ x.at = "finish" => temp[x.path] = <<x.text, None>>
          /\ x.at = "rename" => temp[x.path] = <<x.text, x.text>>
          /\ x.at = "saved" => file[x.path] = <<x.text, x.text>>
      BY <2>2 DEF WriterInv
    <3>2. x.at \in {"begin", "finish", "rename", "saved"} => x.path \in Files
      BY <2>2 DEF TypeInv, SavesFormed
    <3>3. x.at \in {"begin", "finish", "rename", "saved"} =>
            temp'[x.path] = temp[x.path] /\ file'[x.path] = file[x.path]
      BY <1>3, <2>2, <3>2
    <3> QED BY <3>1, <3>3
  <2> QED BY <1>1, <2>1, <2>2
<1>6. Editor!FilesWhole'
  <2>1. Editor!NoPartialDeck'
    <3> SUFFICES ASSUME NEW f \in Files
                 PROVE  \E u \in Texts \cup {Template} : file'[f] = Editor!Whole(u)
      BY DEF Editor!NoPartialDeck
    <3>1. CASE f = s.path
      BY <3>1
    <3>2. CASE f # s.path
      BY <3>2 DEF WriterInv, Editor!FilesWhole, Editor!NoPartialDeck
    <3> QED BY <3>1, <3>2
  <2>2. ASSUME NEW f \in Files, temp'[f] # Editor!Absent
        PROVE  \E x \in saves' : x.path = f /\ x.to = "temp"
    <3>1. CASE f = s.path
      BY <1>1, <2>2, <3>1 DEF Editor!Absent
    <3>2. CASE f # s.path
      <4>1. PICK x \in saves : x.path = f /\ x.to = "temp"
        BY <2>2, <3>2 DEF WriterInv, Editor!FilesWhole
      <4> QED BY <1>1, <3>2, <4>1
    <3> QED BY <3>1, <3>2
  <2> QED BY <2>1, <2>2 DEF Editor!FilesWhole
<1> QED BY <1>4, <1>5, <1>6 DEF WriterInv

LEMMA DialogWriter ==
    ASSUME Overlap = FALSE, TypeInv, WriterInv, NEW s \in saves, Editor!DialogEnds(s)
    PROVE  WriterInv'
<1>1. /\ UNCHANGED <<file, temp>> /\ s \in Editor!Save /\ s.to = "nothing" /\ s.at = "dialog"
  BY DEF Editor!DialogEnds, TypeInv, SavesFormed, Editor!TypeOK
<1>2. ASSUME NEW U, saves' = (saves \ {s}) \cup U,
             \A t \in U : t.to = "nothing" /\ t.at \in {"failed", "create"},
             \A t, u \in U : t = u,
             \A t \in U : \A x \in saves \ {s} : t.path = x.path => t.path = None
      PROVE  WriterInv'
  <2>1. \A x, y \in saves' : x.path = y.path /\ x.path # None => x = y
    BY <1>2 DEF WriterInv
  <2>2. Editor!FilesWhole'
    BY <1>1, <1>2 DEF WriterInv, Editor!FilesWhole, Editor!NoPartialDeck
  <2> QED BY <1>1, <1>2, <2>1, <2>2 DEF WriterInv
<1>3. CASE Editor!Moved(s, [s EXCEPT !.at = "failed"])
  <2> DEFINE t == [s EXCEPT !.at = "failed"]
  <2>1. t.to = "nothing" /\ t.at = "failed" /\ t.path = s.path
    BY <1>1 DEF Editor!Save
  <2>2. \A x \in saves \ {s} : t.path = x.path => t.path = None
    BY <2>1 DEF WriterInv
  <2>3. saves' = (saves \ {s}) \cup {t}
    BY <1>3 DEF Editor!Moved
  <2> DEFINE U == {t}
  <2>4. /\ saves' = (saves \ {s}) \cup U
        /\ \A x \in U : x.to = "nothing" /\ x.at \in {"failed", "create"}
        /\ \A x, u \in U : x = u
        /\ \A x \in U : \A y \in saves \ {s} : x.path = y.path => x.path = None
    <3> HIDE DEF t
    <3> QED BY <2>1, <2>2, <2>3
  <2> HIDE DEF U
  <2> QED BY <1>2, <2>4
<1>4. ASSUME NEW f \in Files, Editor!Unsaved(f),
             Editor!Moved(s, [s EXCEPT !.path = f, !.at = "create"])
      PROVE  WriterInv'
  <2> DEFINE t == [s EXCEPT !.path = f, !.at = "create"]
  <2>1. t.to = "nothing" /\ t.at = "create" /\ t.path = f
    BY <1>1 DEF Editor!Save
  <2>2. \A x \in saves \ {s} : t.path # x.path
    BY <1>4, <2>1 DEF Editor!Unsaved
  <2>3. saves' = (saves \ {s}) \cup {t}
    BY <1>4 DEF Editor!Moved
  <2> DEFINE U == {t}
  <2>4. /\ saves' = (saves \ {s}) \cup U
        /\ \A x \in U : x.to = "nothing" /\ x.at \in {"failed", "create"}
        /\ \A x, u \in U : x = u
        /\ \A x \in U : \A y \in saves \ {s} : x.path = y.path => x.path = None
    <3> HIDE DEF t
    <3> QED BY <2>1, <2>2, <2>3
  <2> HIDE DEF U
  <2> QED BY <1>2, <2>4
<1>5. CASE saves' = saves \ {s}
  <2> DEFINE U == {}
  <2>1. saves' = (saves \ {s}) \cup U /\ \A x \in U : FALSE
    BY <1>5
  <2> HIDE DEF U
  <2> QED BY <1>2, <2>1
<1> QED BY <1>3, <1>4, <1>5 DEF Editor!DialogEnds

LEMMA CreateWriter ==
    ASSUME TypeInv, WriterInv, NEW s \in saves, Editor!SaveCreates(s)
    PROVE  WriterInv'
<1> DEFINE t == [s EXCEPT !.at = "begin", !.to = "temp"]
<1>1. s \in Editor!Save /\ s.path \in Files
  BY DEF TypeInv, Editor!TypeOK, SavesFormed, Editor!SaveCreates
<1>2. /\ UNCHANGED file /\ Editor!Moved(s, t)
      /\ temp' = [temp EXCEPT ![s.path] = Editor!Whole(None)]
  BY DEF Editor!SaveCreates
<1>3. t.path = s.path /\ t.at = "begin" /\ t.to = "temp"
  BY <1>1 DEF Editor!Save
<1> HIDE DEF t
<1>4. /\ temp'[s.path] = <<None, None>>
      /\ \A f \in Files : f # s.path => temp'[f] = temp[f] /\ file'[f] = file[f]
  BY <1>1, <1>2 DEF TypeInv, Editor!TypeOK, Editor!Whole
<1>5. \E u \in Texts \cup {Template} : file'[s.path] = Editor!Whole(u)
  BY <1>1, <1>2 DEF WriterInv, Editor!FilesWhole, Editor!NoPartialDeck
<1> QED BY <1>1, <1>2, <1>3, <1>4, <1>5, WriterMoved

LEMMA WriteWriter ==
    ASSUME TypeInv, WriterInv, NEW s \in saves, Editor!SaveWrites(s)
    PROVE  WriterInv'
<1>1. /\ s \in Editor!Save /\ s.path \in Files /\ s.text \in Texts /\ s.to = "temp"
  BY DEF TypeInv, Editor!TypeOK, SavesFormed, Editor!SaveWrites, WriterInv
<1>2. ASSUME NEW half \in {1, 2}, WriteEffect(s, half)
      PROVE  /\ temp'[s.path] = [temp[s.path] EXCEPT ![half] = s.text]
             /\ \A f \in Files : f # s.path => temp'[f] = temp[f] /\ file'[f] = file[f]
             /\ \E u \in Texts \cup {Template} : file'[s.path] = Editor!Whole(u)
  <2>1. /\ temp' = [temp EXCEPT ![s.path] = [@ EXCEPT ![half] = s.text]] /\ UNCHANGED file
    BY <1>1, <1>2 DEF WriteEffect
  <2>2. temp \in [Files -> Editor!Contents \cup {Editor!Absent}]
    BY DEF TypeInv, Editor!TypeOK
  <2>3. \E u \in Texts \cup {Template} : file'[s.path] = Editor!Whole(u)
    BY <1>1, <2>1 DEF WriterInv, Editor!FilesWhole, Editor!NoPartialDeck
  <2> QED BY <1>1, <2>1, <2>2, <2>3
<1>3. ASSUME s.at = "begin", Editor!Moved(s, [s EXCEPT !.at = "finish"]), WriteEffect(s, 1)
      PROVE  WriterInv'
  <2> DEFINE t == [s EXCEPT !.at = "finish"]
  <2>1. t.path = s.path /\ t.at = "finish" /\ t.to = "temp" /\ t.text = s.text
    BY <1>1 DEF Editor!Save
  <2>2. temp[s.path] = <<None, None>>
    BY <1>3 DEF WriterInv
  <2>3. temp'[s.path] = <<s.text, None>>
    <3>1. temp'[s.path] = [temp[s.path] EXCEPT ![1] = s.text]
      BY <1>2, <1>3
    <3> QED BY <2>2, <3>1
  <2>4. Editor!Moved(s, t)
    BY <1>3
  <2> HIDE DEF t
  <2> QED BY <1>1, <1>2, <1>3, <2>1, <2>3, <2>4, WriterMoved
<1>4. ASSUME s.at = "finish", Editor!Moved(s, [s EXCEPT !.at = "rename"]), WriteEffect(s, 2)
      PROVE  WriterInv'
  <2> DEFINE t == [s EXCEPT !.at = "rename"]
  <2>1. t.path = s.path /\ t.at = "rename" /\ t.to = "temp" /\ t.text = s.text
    BY <1>1 DEF Editor!Save
  <2>2. temp[s.path] = <<s.text, None>>
    BY <1>4 DEF WriterInv
  <2>3. temp'[s.path] = <<s.text, s.text>>
    <3>1. temp'[s.path] = [temp[s.path] EXCEPT ![2] = s.text]
      BY <1>2, <1>4
    <3> QED BY <2>2, <3>1
  <2>4. Editor!Moved(s, t)
    BY <1>4
  <2> HIDE DEF t
  <2> QED BY <1>1, <1>2, <1>4, <2>1, <2>3, <2>4, WriterMoved
<1> QED BY <1>3, <1>4, WriteTypes

\* No other save has a descriptor on the temporary file that goes.
LEMMA LetGoAlone ==
    ASSUME TypeInv, WriterInv, NEW s \in saves, NEW b \in BOOLEAN, NEW place, LetGo(s, b, place)
    PROVE  Editor!Moved(s, [s EXCEPT !.at = place, !.to = "nothing"])
<1> DEFINE U == saves \ {s}
           p == s.path
<1>1. saves \subseteq Editor!Save /\ IsFiniteSet(saves)
  BY DEF TypeInv, Editor!TypeOK, InFlight
<1>2. U \subseteq Editor!Save /\ IsFiniteSet(U)
  BY <1>1, FS_RemoveElement
<1>3. \A x \in U : x.path # p
  <2>1. s.path \in Files /\ None \notin Files
    BY EditorAndDocument DEF LetGo, Editor!EditorAssumption
  <2> QED BY <2>1 DEF WriterInv
<1>4. Editor!Redirected(p, U, b) = U
  <2> HIDE DEF U, p
  <2> QED BY <1>2, <1>3, RedirectedFacts
<1> QED BY <1>4 DEF LetGo, Editor!Moved

LEMMA LetGoWriter ==
    ASSUME TypeInv, WriterInv, NEW s \in saves, NEW b \in BOOLEAN,
           NEW place \in {"saved", "failed"}, LetGo(s, b, place),
           \A f \in Files : f # s.path => file'[f] = file[f],
           \E u \in Texts \cup {Template} : file'[s.path] = Editor!Whole(u),
           place = "saved" => file'[s.path] = <<s.text, s.text>>
    PROVE  WriterInv'
<1> DEFINE t == [s EXCEPT !.at = place, !.to = "nothing"]
<1>1. s \in Editor!Save /\ s.path \in Files
  BY DEF TypeInv, Editor!TypeOK, LetGo
<1>2. t.path = s.path /\ t.at = place /\ t.to = "nothing" /\ t.text = s.text
  BY <1>1 DEF Editor!Save
<1>3. Editor!Moved(s, t)
  BY LetGoAlone
<1> HIDE DEF t
<1>4. temp'[s.path] = None /\ \A f \in Files : f # s.path => temp'[f] = temp[f]
  BY <1>1 DEF LetGo, TypeInv, Editor!TypeOK
<1> QED BY <1>1, <1>2, <1>3, <1>4, WriterMoved

LEMMA RenameWriter ==
    ASSUME TypeInv, WriterInv, NEW s \in saves, Editor!SaveRenames(s)
    PROVE  WriterInv'
<1>1. /\ LetGo(s, TRUE, "saved") /\ s.at = "rename" /\ s.text \in Texts
      /\ file' = [file EXCEPT ![s.path] = temp[s.path]]
  BY RenameTypes
<1>2. s.path \in Files /\ temp[s.path] = <<s.text, s.text>>
  BY <1>1 DEF LetGo, WriterInv
<1>3. file'[s.path] = <<s.text, s.text>> /\ \A f \in Files : f # s.path => file'[f] = file[f]
  BY <1>1, <1>2 DEF TypeInv, Editor!TypeOK
<1>4. \E u \in Texts \cup {Template} : file'[s.path] = Editor!Whole(u)
  BY <1>1, <1>3 DEF Editor!Whole
<1> QED BY <1>1, <1>3, <1>4, LetGoWriter

LEMMA FailWriter ==
    ASSUME TypeInv, WriterInv, NEW s \in saves, Editor!SaveFails(s)
    PROVE  WriterInv'
<1>1. LetGo(s, FALSE, "failed") /\ UNCHANGED file
  BY FailTypes
<1>2. s.path \in Files
  BY <1>1 DEF LetGo
<1>3. \E u \in Texts \cup {Template} : file'[s.path] = Editor!Whole(u)
  BY <1>1, <1>2 DEF WriterInv, Editor!FilesWhole, Editor!NoPartialDeck
<1> QED BY <1>1, <1>3, LetGoWriter

LEMMA SaveAnsweredWriter ==
    ASSUME TypeInv, WriterInv, NEW s \in saves, Editor!DeckSaved(s)
    PROVE  WriterInv'
<1>1. saves' = saves \ {s} /\ UNCHANGED <<file, temp>> /\ s.to = "nothing"
  BY DEF Editor!DeckSaved, TypeInv, SavesFormed
<1>2. Editor!FilesWhole'
  BY <1>1 DEF WriterInv, Editor!FilesWhole, Editor!NoPartialDeck
<1> QED BY <1>1, <1>2 DEF WriterInv

LEMMA CrashWriter ==
    ASSUME TypeInv, WriterInv, Editor!Crash
    PROVE  WriterInv'
<1>1. saves' = {} /\ temp' = [f \in Files |-> Editor!Absent] /\ UNCHANGED file
  BY DEF Editor!Crash
<1> QED BY <1>1 DEF WriterInv, Editor!FilesWhole, Editor!NoPartialDeck

\* While no file is saved twice at once, every step leaves every deck file whole.
LEMMA WriterKept ==
    ASSUME Overlap = FALSE, TypeInv, WriterInv, Editor!Next
    PROVE  WriterInv'
<1>1. ASSUME Editor!User PROVE WriterInv'
  <2>1. ASSUME \/ \E t \in Texts \cup {Bad} : Editor!EditField(t) \/ Editor!EditRows(t)
               \/ Editor!Undo \/ Editor!Redo
        PROVE  WriterInv'
    BY <2>1, EditingStep, WriterSame
  <2>2. ASSUME \/ \E f \in Files : Editor!DeckPathChanged(f)
               \/ \E set \in BOOLEAN : Editor!VarsPathChanged(set)
        PROVE  WriterInv'
    BY <2>2, PathTypes, WriterSame
  <2>3. ASSUME Editor!EditDeckLoad PROVE WriterInv'
    BY <2>3, LoadStarts, WriterSame
  <2> QED BY <1>1, <2>1, <2>2, <2>3, SaveStartsWriter DEF Editor!User
<1>2. ASSUME Editor!Tasks PROVE WriterInv'
  <2>1. ASSUME NEW l \in loads, Editor!LoadReads(l) \/ Editor!EditDeckLoaded(l) PROVE WriterInv'
    BY <2>1, LoadIsRead, LoadIsAnswered, WriterSame
  <2> QED BY <1>2, <2>1, DialogWriter, CreateWriter, WriteWriter, RenameWriter, FailWriter,
        SaveAnsweredWriter DEF Editor!Tasks
<1> QED BY <1>1, <1>2, CrashWriter DEF Editor!Next
-----------------------------------------------------------------------------
(* The behaviours of MCEditor                                              *)

\* A step of a behaviour is one of the editor's own, or leaves all of it alone.
LEMMA EachStep ==
    ASSUME [Next]_vars
    PROVE  Editor!Next \/ UNCHANGED fileVars
BY DEF Next, FilesStep, TextStep, vars

LEMMA TypeStutters ==
    ASSUME TypeInv, UNCHANGED fileVars
    PROVE  TypeInv'
BY DEF TypeInv, Editor!TypeOK, InFlight, SavesFormed, fileVars

LEMMA DocumentStutters ==
    ASSUME DocumentInv, UNCHANGED fileVars
    PROVE  DocumentInv'
BY DEF DocumentInv, Editor!DocumentOfItsFile, Editor!Loaded, LoadsCurrent, NoTemplateSaved,
       AwaitedText, fileVars

\* A task's run is told from every run that is awaited, so that the editor, the tasks and
\* the files keep their types at any number of loads and saves in flight.
THEOREM EditorTypeCorrect == Spec => [](Editor!TypeOK)
<1>1. Init => TypeInv
  BY InitType DEF Init
<1>2. TypeInv /\ [Next]_vars => TypeInv'
  BY EachStep, TypeKept, TypeStutters
<1>3. TypeInv => Editor!TypeOK
  BY DEF TypeInv
<1> QED BY <1>1, <1>2, <1>3, PTL DEF Spec

\* Whatever is edited, loaded, saved or renamed in the chrome, in whatever order the
\* answers come, also where one file is saved twice at once: the document and its
\* snapshots came from one load, a plain save writes that document's own file, and no
\* template is written over.
THEOREM DocumentKeepsItsFile == Spec => []DocumentOfItsFile
<1>1. Init => TypeInv /\ DocumentInv
  BY InitType, InitDocument DEF Init
<1>2. TypeInv /\ DocumentInv /\ [Next]_vars => TypeInv' /\ DocumentInv'
  BY EachStep, TypeKept, TypeStutters, DocumentKept, DocumentStutters
<1>3. DocumentInv => DocumentOfItsFile
  BY DEF DocumentInv, DocumentOfItsFile
<1> QED BY <1>1, <1>2, <1>3, PTL DEF Spec

\* Where no file is saved while a save to it is in flight, a deck file is one whole deck
\* whichever step of a save is interrupted, fails or is being taken, and a temporary file
\* is one that a save in flight is writing.
THEOREM FilesStayWhole ==
    ASSUME Overlap = FALSE
    PROVE  Spec => []FilesWhole
<1>1. Init => TypeInv /\ WriterInv
  BY InitType, InitWriter DEF Init
<1>2. TypeInv /\ WriterInv /\ [Next]_vars => TypeInv' /\ WriterInv'
  <2>1. WriterInv /\ UNCHANGED fileVars => WriterInv'
    BY WriterSame DEF fileVars
  <2> QED BY <2>1, EachStep, TypeKept, TypeStutters, WriterKept
<1>3. WriterInv => FilesWhole
  BY DEF WriterInv, FilesWhole
<1> QED BY <1>1, <1>2, <1>3, PTL DEF Spec

\* The step in which a save marks the document unmodified: it is the save the editor still
\* waits for, so that no edit came since, and the file has its whole text: no task has
\* touched it since the rename.  What an undo makes of the mark later is not said.
THEOREM MarkedIsOnDisk ==
    ASSUME Overlap = FALSE
    PROVE  Spec => SavedIsOnDisk
<1> DEFINE Inv == TypeInv /\ DocumentInv /\ WriterInv
           Marks == \A s \in saves : Editor!DeckSaved(s) /\ s.at = "saved" /\ ed' # ed
                       => file'[ed'.filePath] = Editor!Whole(ed'.doc.text)
<1>1. Init => Inv
  BY InitType, InitDocument, InitWriter DEF Init
<1>2. Inv /\ [Next]_vars => Inv'
  <2>1. WriterInv /\ UNCHANGED fileVars => WriterInv'
    BY WriterSame DEF fileVars
  <2> QED BY <2>1, EachStep, TypeKept, TypeStutters, DocumentKept, DocumentStutters, WriterKept
<1>3. Inv => Marks
  <2> SUFFICES ASSUME Inv, NEW s \in saves, Editor!DeckSaved(s), s.at = "saved", ed' # ed
               PROVE  file'[ed'.filePath] = Editor!Whole(ed'.doc.text)
    OBVIOUS
  <2>1. s.run = ed.saveRun /\ ed' = Editor!MarkedSaved(ed, s.path) /\ UNCHANGED file
    BY DEF Editor!DeckSaved
  <2>2. /\ ed \in Editor!EditorState /\ s.path \in Files
        /\ s.text = ed.doc.text /\ file[s.path] = <<s.text, s.text>>
    BY <2>1 DEF TypeInv, Editor!TypeOK, SavesFormed, DocumentInv, AwaitedText, WriterInv
  <2>3. ed'.filePath = s.path /\ ed'.doc.text = ed.doc.text
    BY <2>1, <2>2, MarkedFacts
  <2> QED BY <2>1, <2>2, <2>3 DEF Editor!Whole
<1>4. Spec => []Inv
  BY <1>1, <1>2, PTL DEF Spec
<1>5. Inv /\ [Next]_vars => [Marks]_(Editor!vars)
  BY <1>3
<1> QED BY <1>4, <1>5, PTL DEF Spec, SavedIsOnDisk, Editor!SavedIsOnDisk
-----------------------------------------------------------------------------
(* The parser's invariant                                                  *)

\* The lines of a text, and any line of a card the parser knows, as the writer's are.
Known == Typed \cup Comments \cup {"EN"}
Lines == (UNION {Alphabets[a].lines : a \in DOMAIN Alphabets})
           \cup [card : Known, f : Seq(Field)]

\* What a line may leave in the reader.
Cards == {Card(l) : l \in Lines}
Entered(l, k) == [card |-> l.card, line |-> k, f |-> Recorded(l)]
Programs == {Entered(l, k) : l \in Lines, k \in Nat}

Reader == [cards : Seq(Cards), at : Seq(Nat), program : Seq(Programs),
           warned : SUBSET (Nat \X Nat), n : Nat, taper : Int, ge : Nat, plane : BOOLEAN,
           gn : Int, status : {"reading", "parsed", "refused"},
           why : {"none", "taper", "ground", "field", "card", "after GE"}]

TextForm ==
    /\ alphabet \in DOMAIN Alphabets
    /\ text \in Seq(Lines) /\ reader \in Reader
    /\ reader.n <= Len(text) /\ (reader.status = "reading" => reader.n = Len(text))
    /\ Len(reader.cards) = Len(reader.at)

\* A line the parser has taken a card from.
Accepted(l) == /\ l.card \in Known
               /\ l.card \in Typed => ~BadField(l) /\ \E segments : ~CardRefused(l, segments)

\* Of a text t and what is read of it, r.  Each line read is a card, is warned of, or is
\* none.
LinesSeen(t, r) ==
    \A k \in 1 .. r.n : \/ t[k].card \in {"", "'"}
                        \/ \E j \in DOMAIN r.at : r.at[j] = k
                        \/ <<k, 0>> \in r.warned

\* The cards are those of accepted lines, in their order, with their warnings.
CardsOfLines(t, r) ==
    /\ \A k \in DOMAIN r.at :
         /\ r.at[k] \in 1 .. r.n /\ Accepted(t[r.at[k]])
         /\ r.cards[k] = Card(t[r.at[k]])
         /\ \A i \in Warned(t[r.at[k]]) : <<r.at[k], i>> \in r.warned
    /\ \A k, j \in DOMAIN r.at : k < j => r.at[k] < r.at[j]

\* The geometry ends with its GE.
GeometryEnds(r) ==
    /\ \A k \in DOMAIN r.cards : r.cards[k].card = "GE" => r.ge # 0
    /\ \A k, j \in DOMAIN r.cards :
          k < j /\ r.cards[k].card = "GE" => r.cards[j].card \notin GeometryCards

ZeroRadius(c) == c.card = "GW" /\ c.f[9] = 0

\* A wire that awaits its taper is the last card.
TaperAwaited(r) ==
    IF r.taper = NoTaper THEN TaperPairing(r.cards)
    ELSE /\ r.cards # <<>> /\ ZeroRadius(r.cards[Len(r.cards)])
         /\ TaperPairing(Front(r.cards))

\* The record of the program cards is of their lines.
ProgramOfLines(t, r) ==
    \A k \in DOMAIN r.program :
        LET p == r.program[k]
        IN p.line \in 1 .. r.n /\ ProgramCard(p.card) /\ p = Entered(t[p.line], p.line)

ReadFrom(t, r) == r.status # "refused" => /\ LinesSeen(t, r) /\ CardsOfLines(t, r)
                                          /\ GeometryEnds(r) /\ TaperAwaited(r)
                                          /\ ProgramOfLines(t, r)

\* An entry of the table of wires, and a table.
IsWire(e) == DOMAIN e = {"card", "f"} /\ e.card = "GW"
Table(w) == w \in Seq({w[k] : k \in DOMAIN w}) /\ \A k \in DOMAIN w : IsWire(w[k])

DocForm == /\ doc.open => reader.status = "parsed"
           /\ DOMAIN doc = {"pre", "wires", "post", "open"} /\ Table(doc.wires)

ReadInv == TextForm /\ ReadFrom(text, reader) /\ DocForm
-----------------------------------------------------------------------------
(* Types of the reader                                                     *)

LEMMA LineValues ==
    ASSUME DocumentAssumption, NEW l \in Lines
    PROVE  /\ l.f \in Seq(Field)
           /\ \A i \in 1 .. 12 : Value(l, i) \in Int /\ KeptValue(l, i) \in Int
           /\ \A i \in 1 .. 12 : IntOf(l, i) \in Int /\ Value(l, i) \div Whole \in Int
<1>1. l.f \in Seq(Field)
  <2>1. CASE l \in [card : Known, f : Seq(Field)]
    BY <2>1
  <2>2. CASE l \in UNION {Alphabets[a].lines : a \in DOMAIN Alphabets}
    BY <2>2 DEF DocumentAssumption
  <2> QED BY <2>1, <2>2 DEF Lines
<1>2. ASSUME NEW i \in 1 .. 12
      PROVE  Value(l, i) \in Int
  <2>1. i <= Len(l.f) => l.f[i] \in Field
    BY <1>1
  <2> QED BY <2>1 DEF Value, Field
<1>3. ASSUME NEW i \in 1 .. 12
      PROVE  IntOf(l, i) \in Int
  BY <1>2 DEF IntOf, Whole
<1>4. ASSUME NEW i \in 1 .. 12
      PROVE  KeptValue(l, i) \in Int
  <2>1. Value(l, i) \in Int /\ IntOf(l, i) \in Int
    BY <1>2, <1>3
  <2>2. \A n \in Int : Set(n, 1) \in Int /\ Set(n, 10) \in Int /\ Set(n, 100) \in Int
    BY DEF Set
  <2>3. \A n \in Int : Planes(n) \in Int /\ Xnda(n) \in Int
    BY <2>2 DEF Planes, Xnda
  <2>4. \A low, v \in Int : AtLeast(low, v) \in Int
    BY DEF AtLeast
  <2>5. /\ AtLeast(0, Value(l, i)) \in Int /\ AtLeast(Whole, Value(l, i)) \in Int
        /\ Whole * IntOf(l, 1) \in Int /\ Whole * Planes(IntOf(l, 2)) \in Int
        /\ Whole * Xnda(IntOf(l, 4)) \in Int /\ Whole \in Int
    <3>1. IntOf(l, 1) \in Int /\ IntOf(l, 2) \in Int /\ IntOf(l, 4) \in Int
      BY <1>3
    <3>2. Planes(IntOf(l, 2)) \in Int /\ Xnda(IntOf(l, 4)) \in Int
      BY <2>3, <3>1
    <3>3. Whole \in Int /\ 0 \in Int /\ \A n \in Int : Whole * n \in Int
      BY DEF Whole
    <3>4. AtLeast(0, Value(l, i)) \in Int /\ AtLeast(Whole, Value(l, i)) \in Int
      BY <2>1, <2>4, <3>3
    <3> QED BY <3>1, <3>2, <3>3, <3>4
  <2>6. KeptValue(l, i) \in {AtLeast(0, Value(l, i)), AtLeast(Whole, Value(l, i)), Value(l, i),
                            Whole * IntOf(l, 1), Whole * Planes(IntOf(l, 2)),
                            Whole * Xnda(IntOf(l, 4)), Whole}
    BY Zenon DEF KeptValue
  <2> QED BY <2>1, <2>5, <2>6
<1> QED BY <1>1, <1>2, <1>3, <1>4 DEF IntOf

\* Each outcome of a line.
LEMMA StartForm == Start \in Reader
BY DEF Start, Reader, NoTaper

LEMMA RefuseForm ==
    ASSUME NEW s \in Reader, NEW why \in {"taper", "ground", "field", "card", "after GE"}
    PROVE  /\ Refuse(s, why) \in Reader /\ Refuse(s, why).status = "refused"
           /\ Refuse(s, why).cards = s.cards /\ Refuse(s, why).at = s.at
           /\ Refuse(s, why).n = s.n /\ Refuse(s, why).why = why
BY DEF Refuse, Reader

LEMMA FinishForm ==
    ASSUME NEW s \in Reader
    PROVE  /\ Finish(s) \in Reader /\ Finish(s).cards = s.cards /\ Finish(s).at = s.at
           /\ Finish(s).n = s.n
           /\ \/ Finish(s).status = "refused" /\ Finish(s).why = "taper" /\ s.taper # NoTaper
              \/ Finish(s).status = "refused" /\ Finish(s).why = "ground" /\ s.plane /\ s.gn = -1
              \/ /\ s.taper = NoTaper /\ ~(s.plane /\ s.gn = -1)
                 /\ Finish(s) = [s EXCEPT !.status = "parsed"]
<1>1. /\ [s EXCEPT !.status = "parsed"] \in Reader
      /\ [s EXCEPT !.status = "parsed"].cards = s.cards
      /\ [s EXCEPT !.status = "parsed"].at = s.at
      /\ [s EXCEPT !.status = "parsed"].n = s.n
  BY DEF Reader
<1>2. CASE s.taper # NoTaper
  BY <1>2, RefuseForm DEF Finish
<1>3. CASE s.taper = NoTaper /\ s.plane /\ s.gn = -1
  BY <1>3, RefuseForm DEF Finish
<1>4. CASE s.taper = NoTaper /\ ~(s.plane /\ s.gn = -1)
  BY <1>1, <1>4 DEF Finish
<1> QED BY <1>2, <1>3, <1>4

\* A line taken adds its card, its place and its warnings, and nothing to the record.
TakenFrom(s, l, t) ==
    /\ t.cards = Append(s.cards, Card(l)) /\ t.at = Append(s.at, s.n)
    /\ t.warned = s.warned \cup {<<s.n, i>> : i \in Warned(l)}
    /\ t.taper = (IF l.card = "GW" /\ Value(l, 9) = 0 THEN KeptValue(l, 2) \div Whole
                  ELSE IF l.card = "GC" THEN NoTaper ELSE s.taper)
    /\ t.ge = (IF l.card = "GE" THEN s.n ELSE s.ge)
    /\ t.plane = (s.plane \/ (l.card = "GE" /\ IntOf(l, 1) = 1))
    /\ t.gn = (IF l.card = "GN" THEN IntOf(l, 1) ELSE s.gn)
    /\ t.program = s.program /\ t.n = s.n /\ t.status = s.status

LEMMA TakeForm ==
    ASSUME DocumentAssumption, NEW s \in Reader, NEW l \in Lines
    PROVE  Take(s, l) \in Reader /\ TakenFrom(s, l, Take(s, l))
<1> DEFINE w == s.warned \cup {<<s.n, i>> : i \in Warned(l)}
           p == IF l.card = "GW" /\ Value(l, 9) = 0 THEN KeptValue(l, 2) \div Whole
                ELSE IF l.card = "GC" THEN NoTaper ELSE s.taper
           e == IF l.card = "GE" THEN s.n ELSE s.ge
           b == s.plane \/ (l.card = "GE" /\ IntOf(l, 1) = 1)
           g == IF l.card = "GN" THEN IntOf(l, 1) ELSE s.gn
           c == Append(s.cards, Card(l))
           a == Append(s.at, s.n)
<1>1. /\ s.cards \in Seq(Cards) /\ s.at \in Seq(Nat) /\ s.warned \in SUBSET (Nat \X Nat)
      /\ s.n \in Nat /\ s.taper \in Int /\ s.ge \in Nat /\ s.gn \in Int
  BY DEF Reader
<1>2. Card(l) \in Cards
  BY DEF Cards
<1>3. c \in Seq(Cards) /\ a \in Seq(Nat)
  BY <1>1, <1>2, AppendProperties
<1>4. w \in SUBSET (Nat \X Nat)
  <2>1. GnWarned(l) \subseteq Nat /\ RpWarned(l) \subseteq Nat
    BY DEF GnWarned, FirstNonzero, RpWarned
  <2>2. Warned(l) \subseteq Nat
    BY <2>1 DEF Warned
  <2> QED BY <1>1, <2>2
<1>5. p \in Int
  <2>1. KeptValue(l, 2) \in Int
    BY LineValues
  <2>2. KeptValue(l, 2) \div Whole \in Int
    BY <2>1 DEF Whole
  <2> QED BY <1>1, <2>2 DEF NoTaper
<1>6. e \in Nat /\ b \in BOOLEAN /\ g \in Int
  BY <1>1, LineValues
<1>7. Take(s, l) = [s EXCEPT !.cards = c, !.at = a, !.warned = w, !.taper = p, !.ge = e,
                             !.plane = b, !.gn = g]
  <2>1. p = CASE l.card = "GW" /\ Value(l, 9) = 0 -> KeptValue(l, 2) \div Whole
              [] l.card = "GC" -> NoTaper [] OTHER -> s.taper
    OBVIOUS
  <2> QED BY <2>1, Zenon DEF Take
<1> HIDE DEF w, p, e, b, g, c, a
<1>8. /\ Take(s, l) \in Reader
      /\ Take(s, l).cards = c /\ Take(s, l).at = a /\ Take(s, l).warned = w
      /\ Take(s, l).taper = p /\ Take(s, l).ge = e
      /\ Take(s, l).plane = b /\ Take(s, l).gn = g
      /\ Take(s, l).program = s.program /\ Take(s, l).n = s.n /\ Take(s, l).status = s.status
  <2>1. Take(s, l) \in Reader
    <3> DEFINE C == Seq(Cards)
               N == Seq(Nat)
               P == Seq(Programs)
               W == SUBSET (Nat \X Nat)
               Y == {"none", "taper", "ground", "field", "card", "after GE"}
               T == {"reading", "parsed", "refused"}
    <3>1. Reader = [cards : C, at : N, program : P, warned : W, n : Nat, taper : Int, ge : Nat,
                    plane : BOOLEAN, gn : Int, status : T, why : Y]
      BY DEF Reader
    <3>2. c \in C /\ a \in N /\ w \in W /\ p \in Int /\ e \in Nat /\ b \in BOOLEAN /\ g \in Int
      BY <1>3, <1>4, <1>5, <1>6
    <3> HIDE DEF C, N, P, W, Y, T
    <3>3. /\ s.program \in P /\ s.n \in Nat /\ s.status \in T /\ s.why \in Y
          /\ s = [cards |-> s.cards, at |-> s.at, program |-> s.program, warned |-> s.warned,
                  n |-> s.n, taper |-> s.taper, ge |-> s.ge, plane |-> s.plane, gn |-> s.gn,
                  status |-> s.status, why |-> s.why]
      BY <3>1
    <3>4. Take(s, l) = [cards |-> c, at |-> a, program |-> s.program, warned |-> w,
                        n |-> s.n, taper |-> p, ge |-> e, plane |-> b, gn |-> g,
                        status |-> s.status, why |-> s.why]
      BY <1>7, <3>3
    <3> QED BY <3>1, <3>2, <3>3, <3>4
  <2>2. /\ Take(s, l).cards = c /\ Take(s, l).at = a /\ Take(s, l).warned = w
        /\ Take(s, l).taper = p /\ Take(s, l).ge = e
    BY <1>7 DEF Reader
  <2>3. /\ Take(s, l).plane = b /\ Take(s, l).gn = g
        /\ Take(s, l).program = s.program /\ Take(s, l).n = s.n /\ Take(s, l).status = s.status
    BY <1>7 DEF Reader
  <2> QED BY <2>1, <2>2, <2>3
<1> QED BY <1>8 DEF TakenFrom, c, a, w, p, e, b, g

\* A program card is recorded, whatever becomes of it.
NotedFrom(s, l, t) ==
    /\ t.cards = s.cards /\ t.at = s.at /\ t.warned = s.warned /\ t.taper = s.taper
    /\ t.ge = s.ge /\ t.plane = s.plane /\ t.gn = s.gn /\ t.n = s.n /\ t.status = s.status
    /\ \/ t.program = s.program
       \/ ProgramCard(l.card) /\ t.program = Append(s.program, Entered(l, s.n))

LEMMA NotedForm ==
    ASSUME NEW s \in Reader, NEW l \in Lines
    PROVE  Noted(s, l) \in Reader /\ NotedFrom(s, l, Noted(s, l))
<1> DEFINE p == Append(s.program, Entered(l, s.n))
<1>1. s.program \in Seq(Programs) /\ s.n \in Nat
  BY DEF Reader
<1>2. Entered(l, s.n) \in Programs
  BY <1>1 DEF Programs
<1>3. p \in Seq(Programs)
  BY <1>1, <1>2, AppendProperties
<1>4. \/ Noted(s, l) = s
      \/ ProgramCard(l.card) /\ Noted(s, l) = [s EXCEPT !.program = p]
  BY DEF Noted, Entered
<1> HIDE DEF p
<1>5. CASE Noted(s, l) = s
  BY <1>5 DEF NotedFrom
<1>6. CASE ProgramCard(l.card) /\ Noted(s, l) = [s EXCEPT !.program = p]
  <2>1. /\ Noted(s, l) \in Reader /\ Noted(s, l).program = p
        /\ Noted(s, l).cards = s.cards /\ Noted(s, l).at = s.at
        /\ Noted(s, l).warned = s.warned /\ Noted(s, l).taper = s.taper
        /\ Noted(s, l).ge = s.ge /\ Noted(s, l).n = s.n /\ Noted(s, l).status = s.status
        /\ Noted(s, l).plane = s.plane /\ Noted(s, l).gn = s.gn
    BY <1>3, <1>6 DEF Reader
  <2> QED BY <1>6, <2>1 DEF NotedFrom, p
<1> QED BY <1>4, <1>5, <1>6

\* One line more.
Next1(r) == [r EXCEPT !.n = r.n + 1]

\* A line of which a warning is all that is left.
Ignored(m) == [m EXCEPT !.warned = @ \cup {<<m.n, 0>>}]

\* What a line is refused for.
RefusedFor(r, l, why) ==
    \/ why = "taper" /\ ~(r.taper # NoTaper <=> l.card = "GC")
    \/ why = "after GE" /\ r.ge # 0 /\ l.card \in GeometryCards
    \/ why = "card" /\ l.card \notin Known
    \/ why = "field" /\ l.card \in Typed /\ (BadField(l) \/ CardRefused(l, r.taper))
    \/ why = "ground" /\ l.card = "EN" /\ r.plane /\ r.gn = -1

\* What a line makes of a reader that has counted it (s) and noted it (m): it is refused,
\* it is no card, it is warned of, or it is taken, the last of them EN.
Outcome(r, l, s, m, x) ==
    /\ x \in Reader /\ x.n = r.n + 1 /\ Len(x.cards) = Len(x.at)
    /\ \/ x.status = "refused" /\ RefusedFor(r, l, x.why)
       \/ l.card \in {"", "'"} /\ x = s
       \/ l.card \in IgnoredCards /\ x = Ignored(m)
       \/ /\ Accepted(l) /\ (l.card \in Typed => ~CardRefused(l, r.taper))
          /\ r.taper # NoTaper <=> l.card = "GC"
          /\ r.ge # 0 => l.card \notin GeometryCards
          /\ \/ l.card # "EN" /\ x = Take(m, l)
             \/ /\ l.card = "EN" /\ ~(r.plane /\ r.gn = -1)
                /\ Take(m, l).taper = NoTaper /\ x = [Take(m, l) EXCEPT !.status = "parsed"]

LEMMA Outcomes ==
    ASSUME DocumentAssumption, NEW r \in Reader, r.status = "reading", NEW l \in Lines,
           Len(r.cards) = Len(r.at),
           NEW s, s = Next1(r), NEW m, m = Noted(s, l), NEW x, x = ReadLine(r, l)
    PROVE  Outcome(r, l, s, m, x)
<1> SUFFICES ASSUME NEW y, y = Take(m, l), NEW i, i = Ignored(m)
             PROVE  Outcome(r, l, s, m, x)
  OBVIOUS
<1>1. /\ s \in Reader /\ s.n = r.n + 1 /\ s.cards = r.cards /\ s.at = r.at /\ s.ge = r.ge
      /\ s.taper = r.taper /\ s.plane = r.plane /\ s.gn = r.gn /\ s.status = "reading"
  <2>1. r.n \in Nat
    BY DEF Reader
  <2>2. r.n + 1 \in Nat
    BY <2>1
  <2>3. s = [r EXCEPT !.n = r.n + 1]
    BY DEF Next1
  <2> QED BY <2>1, <2>2, <2>3 DEF Reader
<1>2. /\ m \in Reader /\ m.n = r.n + 1 /\ m.cards = r.cards /\ m.at = r.at /\ m.ge = r.ge
      /\ m.taper = r.taper /\ m.plane = r.plane /\ m.gn = r.gn /\ m.status = "reading"
  BY <1>1, NotedForm DEF NotedFrom
<1>3. /\ y \in Reader /\ y.n = r.n + 1 /\ Len(y.cards) = Len(y.at)
      /\ l.card = "EN" => y.taper = r.taper /\ y.plane = r.plane /\ y.gn = r.gn
  <2>1. /\ y \in Reader /\ y.cards = Append(r.cards, Card(l)) /\ y.at = Append(r.at, m.n)
        /\ y.n = m.n
        /\ l.card = "EN" => y.taper = r.taper /\ y.plane = r.plane /\ y.gn = r.gn
    <3>1. Take(m, l) \in Reader /\ TakenFrom(m, l, Take(m, l))
      BY <1>2, TakeForm
    <3>2. /\ y.cards = Append(r.cards, Card(l)) /\ y.at = Append(r.at, m.n) /\ y.n = m.n
          /\ l.card = "EN" => y.taper = r.taper /\ y.gn = r.gn
      BY <1>2, <3>1 DEF TakenFrom
    <3>3. l.card = "EN" => (y.plane <=> r.plane)
      BY <1>2, <3>1 DEF TakenFrom
    <3>4. y.plane \in BOOLEAN /\ r.plane \in BOOLEAN
      BY <3>1 DEF Reader
    <3> QED BY <3>1, <3>2, <3>3, <3>4
  <2>2. /\ r.cards \in Seq(Cards) /\ r.at \in Seq(Nat) /\ Card(l) \in Cards /\ m.n \in Nat
    BY <1>2 DEF Reader, Cards
  <2>3. Len(y.cards) = Len(r.cards) + 1 /\ Len(y.at) = Len(r.at) + 1
    BY <2>1, <2>2, AppendProperties
  <2> QED BY <1>2, <2>1, <2>3
<1>4. i \in Reader /\ i.n = r.n + 1 /\ Len(i.cards) = Len(i.at)
  <2> DEFINE w == m.warned \cup {<<m.n, 0>>}
  <2>1. w \in SUBSET (Nat \X Nat)
    <3>1. m.warned \in SUBSET (Nat \X Nat) /\ m.n \in Nat
      BY <1>2 DEF Reader
    <3>2. \A W \in SUBSET (Nat \X Nat), k \in Nat : W \cup {<<k, 0>>} \in SUBSET (Nat \X Nat)
      OBVIOUS
    <3> QED BY <3>1, <3>2
  <2>2. i = [m EXCEPT !.warned = w]
    BY DEF Ignored
  <2> HIDE DEF w
  <2>3. i \in Reader /\ i.n = m.n /\ i.cards = m.cards /\ i.at = m.at
    BY <1>2, <2>1, <2>2 DEF Reader
  <2> QED BY <1>2, <2>3
<1>5. ASSUME NEW t \in {s, m, y}, NEW why \in {"taper", "ground", "field", "card", "after GE"},
             x = Refuse(t, why), RefusedFor(r, l, why)
      PROVE  Outcome(r, l, s, m, x)
  <2>1. t \in Reader /\ t.n = r.n + 1 /\ Len(t.cards) = Len(t.at)
    BY <1>1, <1>2, <1>3
  <2>2. /\ x \in Reader /\ x.n = t.n /\ x.cards = t.cards /\ x.at = t.at
        /\ x.status = "refused" /\ x.why = why
    <3>1. t \in Reader /\ x = Refuse(t, why)
      BY <1>5, <2>1
    <3>2. /\ Refuse(t, why) \in Reader /\ Refuse(t, why).status = "refused"
          /\ Refuse(t, why).cards = t.cards /\ Refuse(t, why).at = t.at
          /\ Refuse(t, why).n = t.n /\ Refuse(t, why).why = why
      BY <3>1, RefuseForm
    <3> QED BY <3>1, <3>2
  <2> QED BY <1>5, <2>1, <2>2 DEF Outcome
<1>7. CASE l.card = ""
  <2>1. x = s
    BY <1>1, <1>7 DEF ReadLine, Next1
  <2>2. Len(s.cards) = Len(s.at)
    BY <1>1
  <2> QED BY <1>1, <1>7, <2>1, <2>2 DEF Outcome
<1>8. CASE l.card # "" /\ SplitsTaper(s, l)
  <2>1. x = Refuse(s, "taper")
    BY <1>1, <1>8 DEF ReadLine, Next1
  <2>2. RefusedFor(r, l, "taper")
    BY <1>1, <1>8 DEF SplitsTaper, RefusedFor
  <2> QED BY <1>5, <2>1, <2>2
<1>9. CASE l.card = "'" /\ ~SplitsTaper(s, l)
  <2>1. x = s
    BY <1>1, <1>9 DEF ReadLine, Next1
  <2>2. Len(s.cards) = Len(s.at)
    BY <1>1
  <2> QED BY <1>1, <1>9, <2>1, <2>2 DEF Outcome
<1>10. CASE l.card \notin {"", "'"} /\ ~SplitsTaper(s, l)
  <2>1. x = IF s.ge # 0 /\ l.card \in GeometryCards THEN Refuse(s, "after GE") ELSE Judge(m, l)
    BY <1>1, <1>10 DEF ReadLine, Next1
  <2>2. CASE s.ge # 0 /\ l.card \in GeometryCards
    <3>1. RefusedFor(r, l, "after GE") /\ x = Refuse(s, "after GE")
      BY <1>1, <2>1, <2>2 DEF RefusedFor
    <3> QED BY <1>5, <3>1
  <2>3. CASE x = Judge(m, l) /\ (r.ge # 0 => l.card \notin GeometryCards)
    <3>1. r.taper # NoTaper => l.card = "GC"
      BY <1>1, <1>10 DEF SplitsTaper
    <3>2. CASE l.card = "GC" /\ m.taper = NoTaper
      <4>1. x = Refuse(m, "taper")
        BY <2>3, <3>2 DEF Judge, Typed, GeometryCards, Comments, IgnoredCards
      <4>2. RefusedFor(r, l, "taper")
        BY <1>2, <3>2 DEF RefusedFor
      <4> QED BY <1>5, <4>1, <4>2
    <3>3. CASE l.card \in Typed /\ (l.card = "GC" => m.taper # NoTaper)
      <4>1. x = IF BadField(l) \/ CardRefused(l, m.taper) THEN Refuse(m, "field") ELSE y
        BY <2>3, <3>3, Zenon
           DEF Judge, Typed, GeometryCards, PositionalCards, NearCards, Comments, IgnoredCards
      <4>2. CASE (BadField(l) \/ CardRefused(l, m.taper)) /\ x = Refuse(m, "field")
        <5>1. RefusedFor(r, l, "field")
          BY <1>2, <3>3, <4>2 DEF RefusedFor
        <5> QED BY <1>5, <4>2, <5>1
      <4>3. CASE ~(BadField(l) \/ CardRefused(l, m.taper)) /\ x = y
        <5>1. Accepted(l) /\ ~CardRefused(l, r.taper) /\ l.card # "EN"
          BY <1>2, <3>3, <4>3
             DEF Accepted, Known, Typed, GeometryCards, PositionalCards, NearCards
        <5>2. r.taper # NoTaper <=> l.card = "GC"
          BY <1>2, <3>1, <3>3
        <5> QED BY <1>3, <2>3, <4>3, <5>1, <5>2 DEF Outcome
      <4> QED BY <4>1, <4>2, <4>3
    <3>4. CASE l.card \in Comments
      <4>1. x = y
        BY <2>3, <3>4 DEF Judge, Typed, GeometryCards, PositionalCards, NearCards, Comments,
           IgnoredCards
      <4>2. /\ Accepted(l) /\ (r.taper # NoTaper <=> l.card = "GC")
            /\ l.card # "EN" /\ l.card \notin Typed
        BY <3>1, <3>4
           DEF Accepted, Known, Comments, Typed, GeometryCards, PositionalCards, NearCards
      <4> QED BY <1>3, <2>3, <4>1, <4>2 DEF Outcome
    <3>5. CASE l.card = "EN"
      <4>1. x = Finish(y)
        BY <2>3, <3>5 DEF Judge, Typed, GeometryCards, PositionalCards, NearCards, Comments,
           IgnoredCards
      <4>2. /\ Accepted(l) /\ (r.taper # NoTaper <=> l.card = "GC") /\ l.card \notin Typed
        BY <3>1, <3>5
           DEF Accepted, Known, Comments, Typed, GeometryCards, PositionalCards, NearCards
      <4>3. /\ x \in Reader /\ x.cards = y.cards /\ x.at = y.at /\ x.n = y.n
            /\ \/ x.status = "refused" /\ x.why = "taper" /\ y.taper # NoTaper
               \/ x.status = "refused" /\ x.why = "ground" /\ y.plane /\ y.gn = -1
               \/ /\ y.taper = NoTaper /\ ~(y.plane /\ y.gn = -1)
                  /\ x = [y EXCEPT !.status = "parsed"]
        BY <1>3, <4>1, FinishForm
      <4>4. /\ y.taper = r.taper /\ y.plane = r.plane /\ y.gn = r.gn
        BY <1>3, <3>5
      <4>5. CASE x.status = "refused"
        <5>1. RefusedFor(r, l, x.why)
          BY <3>5, <4>2, <4>3, <4>4, <4>5 DEF RefusedFor, Reader
        <5> QED BY <1>3, <4>3, <4>5, <5>1 DEF Outcome
      <4>6. CASE /\ y.taper = NoTaper /\ ~(y.plane /\ y.gn = -1)
                 /\ x = [y EXCEPT !.status = "parsed"]
        BY <1>3, <2>3, <3>5, <4>2, <4>3, <4>4, <4>6 DEF Outcome
      <4> QED BY <4>3, <4>5, <4>6
    <3>6. CASE l.card \in IgnoredCards
      <4>1. x = [m EXCEPT !.warned = @ \cup {<<m.n, 0>>}]
        BY <2>3, <3>6 DEF Judge, Typed, GeometryCards, PositionalCards, NearCards, Comments,
           IgnoredCards
      <4>2. x = i
        BY <4>1 DEF Ignored
      <4>3. x \in Reader /\ x.n = r.n + 1 /\ Len(x.cards) = Len(x.at)
        BY <1>4, <4>2
      <4> QED BY <3>6, <4>2, <4>3 DEF Outcome
    <3>7. CASE l.card \notin Typed \cup Comments \cup IgnoredCards \cup {"EN"}
      <4>1. x = Refuse(m, "card")
        BY <2>3, <3>7 DEF Judge, Typed, GeometryCards
      <4>2. RefusedFor(r, l, "card")
        BY <3>7 DEF RefusedFor, Known
      <4> QED BY <1>5, <4>1, <4>2
    <3> QED BY <3>2, <3>3, <3>4, <3>5, <3>6, <3>7
  <2> QED BY <1>1, <2>1, <2>2, <2>3
<1> QED BY <1>7, <1>8, <1>9, <1>10
-----------------------------------------------------------------------------
(* What a line leaves of what was read                                     *)

LEMMA OneMoreLine ==
    \A n \in Nat : /\ \A k \in 1 .. n : k \in 1 .. (n + 1)
                   /\ \A k \in 1 .. (n + 1) : k \in 1 .. n \/ k = n + 1
OBVIOUS

LEMMA LineAdded ==
    ASSUME NEW t \in Seq(Lines), NEW l \in Lines, NEW u, u = Append(t, l)
    PROVE  /\ u \in Seq(Lines) /\ Len(u) = Len(t) + 1 /\ u[Len(t) + 1] = l
           /\ \A k \in 1 .. Len(t) : u[k] = t[k]
BY AppendProperties

\* u is t with the line l behind it.
Longer(u, t, l) == u[Len(t) + 1] = l /\ \A k \in 1 .. Len(t) : u[k] = t[k]

LEMMA OneLonger == ASSUME NEW t \in Seq(Lines), NEW l \in Lines PROVE Longer(Append(t, l), t, l)
BY LineAdded DEF Longer

LEMMA ProgramKept ==
    ASSUME NEW t \in Seq(Lines), NEW l \in Lines, NEW u, u = Append(t, l),
           NEW r \in Reader, r.n = Len(t), NEW x \in Reader, x.n = r.n + 1,
           \/ x.program = r.program
           \/ ProgramCard(l.card) /\ x.program = Append(r.program, Entered(l, r.n + 1)),
           ProgramOfLines(t, r)
    PROVE  ProgramOfLines(u, x)
<1>1. /\ u[Len(t) + 1] = l /\ \A k \in 1 .. Len(t) : u[k] = t[k]
  BY LineAdded
<1>2. r.program \in Seq(Programs) /\ r.n \in Nat
  BY DEF Reader
<1>3. ASSUME NEW p, p.line \in 1 .. r.n, p = Entered(t[p.line], p.line)
      PROVE  p.line \in 1 .. x.n /\ p = Entered(u[p.line], p.line)
  BY <1>1, <1>2, <1>3
<1>4. ProgramCard(l.card) => LET p == Entered(l, r.n + 1)
                             IN /\ p.line \in 1 .. x.n /\ ProgramCard(p.card)
                                /\ p = Entered(u[p.line], p.line)
  <2>1. Entered(l, r.n + 1).line = r.n + 1 /\ Entered(l, r.n + 1).card = l.card
    BY DEF Entered
  <2> QED BY <1>1, <1>2, <2>1
<1>5. SUFFICES ASSUME NEW k \in DOMAIN x.program
               PROVE  LET p == x.program[k]
                      IN /\ p.line \in 1 .. x.n /\ ProgramCard(p.card)
                         /\ p = Entered(u[p.line], p.line)
  BY DEF ProgramOfLines
<1>6. CASE k \in DOMAIN r.program /\ x.program[k] = r.program[k]
  <2>1. /\ r.program[k].line \in 1 .. r.n /\ ProgramCard(r.program[k].card)
        /\ r.program[k] = Entered(t[r.program[k].line], r.program[k].line)
    BY <1>6 DEF ProgramOfLines
  <2> QED BY <1>3, <1>6, <2>1
<1>7. CASE ProgramCard(l.card) /\ x.program[k] = Entered(l, r.n + 1)
  BY <1>4, <1>7
<1>8. \/ k \in DOMAIN r.program /\ x.program[k] = r.program[k]
      \/ ProgramCard(l.card) /\ x.program[k] = Entered(l, r.n + 1)
  <2>1. CASE x.program = r.program
    BY <2>1
  <2>2. CASE ProgramCard(l.card) /\ x.program = Append(r.program, Entered(l, r.n + 1))
    <3>1. r.n + 1 \in Nat
      BY <1>2
    <3>2. Entered(l, r.n + 1) \in Programs
      BY <3>1 DEF Programs
    <3> QED BY <1>2, <2>2, <3>2
  <2> QED BY <2>1, <2>2
<1> QED BY <1>6, <1>7, <1>8

\* A line that is no card leaves the cards.
LEMMA CardsLeft ==
    ASSUME NEW t \in Seq(Lines), NEW l \in Lines, NEW u, u = Append(t, l),
           NEW r \in Reader, r.n = Len(t), NEW x \in Reader, x.n = r.n + 1,
           Len(r.cards) = Len(r.at),
           x.cards = r.cards, x.at = r.at, r.warned \subseteq x.warned,
           x.taper = r.taper, x.ge = r.ge,
           l.card \in {"", "'"} \/ <<r.n + 1, 0>> \in x.warned,
           LinesSeen(t, r), CardsOfLines(t, r), GeometryEnds(r), TaperAwaited(r)
    PROVE  LinesSeen(u, x) /\ CardsOfLines(u, x) /\ GeometryEnds(x) /\ TaperAwaited(x)
<1>1. /\ u[r.n + 1] = l /\ \A k \in 1 .. r.n : u[k] = t[k]
  <2>1. Longer(u, t, l)
    BY OneLonger
  <2> QED BY <2>1 DEF Longer
<1>2. /\ r.n \in Nat /\ \A k \in 1 .. x.n : k \in 1 .. r.n \/ k = r.n + 1
      /\ \A k \in 1 .. r.n : k \in 1 .. x.n
  <2>1. r.n \in Nat
    BY DEF Reader
  <2>2. /\ \A k \in 1 .. r.n : k \in 1 .. (r.n + 1)
        /\ \A k \in 1 .. (r.n + 1) : k \in 1 .. r.n \/ k = r.n + 1
    BY <2>1, OneMoreLine
  <2> QED BY <2>1, <2>2
<1>3. LinesSeen(u, x)
  <2> SUFFICES ASSUME NEW k \in 1 .. x.n
               PROVE  \/ u[k].card \in {"", "'"}
                      \/ \E j \in DOMAIN x.at : x.at[j] = k
                      \/ <<k, 0>> \in x.warned
    BY DEF LinesSeen
  <2>1. CASE k \in 1 .. r.n
    BY <1>1, <2>1 DEF LinesSeen
  <2>2. CASE k = r.n + 1
    BY <1>1, <2>2
  <2> QED BY <1>2, <2>1, <2>2
<1>4. CardsOfLines(u, x)
  <2>1. ASSUME NEW k \in DOMAIN r.at
        PROVE  /\ r.at[k] \in 1 .. x.n /\ Accepted(u[r.at[k]])
               /\ r.cards[k] = Card(u[r.at[k]])
               /\ \A i \in Warned(u[r.at[k]]) : <<r.at[k], i>> \in x.warned
    <3>1. /\ r.at[k] \in 1 .. r.n /\ Accepted(t[r.at[k]]) /\ r.cards[k] = Card(t[r.at[k]])
          /\ \A i \in Warned(t[r.at[k]]) : <<r.at[k], i>> \in r.warned
      BY DEF CardsOfLines
    <3>2. u[r.at[k]] = t[r.at[k]]
      BY <1>1, <3>1
    <3>3. r.at[k] \in 1 .. x.n
      BY <1>2, <3>1
    <3> QED BY <3>1, <3>2, <3>3
  <2> QED BY <2>1 DEF CardsOfLines
<1>5. GeometryEnds(x) /\ TaperAwaited(x)
  BY DEF GeometryEnds, TaperAwaited
<1> QED BY <1>3, <1>4, <1>5

\* What Card keeps of the lines the pairing looks at.
LEMMA CardKeeps ==
    ASSUME NEW l
    PROVE  /\ Card(l).card = (IF l.card = "CE" THEN "CM" ELSE l.card)
           /\ Card(l).card \in GeometryCards <=> l.card \in GeometryCards
           /\ Card(l).card = "GE" <=> l.card = "GE"
           /\ Card(l).card = "GC" <=> l.card = "GC"
           /\ ZeroRadius(Card(l)) <=> l.card = "GW" /\ Value(l, 9) = 0
<1>1. Card(l).card = (IF l.card = "CE" THEN "CM" ELSE l.card)
  BY DEF Card
<1>2. ASSUME l.card = "GW"
      PROVE  Card(l).f[9] = Value(l, 9)
  <2>1. Kept(l) = 1 .. 9
    BY <1>2 DEF Kept, Comments
  <2>2. KeptValue(l, 9) = Value(l, 9)
    BY <1>2 DEF KeptValue, SaturatingFields, NearCards
  <2> QED BY <2>1, <2>2 DEF Card
<1> QED BY <1>1, <1>2 DEF GeometryCards, ZeroRadius

LEMMA GeometryTaken ==
    ASSUME NEW l \in Lines, NEW r \in Reader, r.ge # 0 => l.card \notin GeometryCards,
           NEW x, x.cards = Append(r.cards, Card(l)),
           x.ge = (IF l.card = "GE" THEN r.n + 1 ELSE r.ge),
           GeometryEnds(r)
    PROVE  GeometryEnds(x)
<1>1. r.cards \in Seq(Cards) /\ r.n \in Nat /\ Card(l) \in Cards
  BY DEF Reader, Cards
<1>2. /\ Len(x.cards) = Len(r.cards) + 1 /\ DOMAIN x.cards = 1 .. Len(r.cards) + 1
      /\ x.cards[Len(r.cards) + 1] = Card(l)
      /\ \A k \in 1 .. Len(r.cards) : x.cards[k] = r.cards[k]
      /\ Len(r.cards) \in Nat /\ DOMAIN r.cards = 1 .. Len(r.cards)
  BY <1>1, AppendProperties
<1>3. r.n + 1 # 0
  BY <1>1
<1>4. \A k \in DOMAIN r.cards : r.cards[k].card = "GE" => r.ge # 0
  BY DEF GeometryEnds
<1>5. ASSUME NEW k \in DOMAIN x.cards, x.cards[k].card = "GE"
      PROVE  x.ge # 0
  <2>1. CASE k = Len(r.cards) + 1
    BY <1>2, <1>3, <1>5, <2>1, CardKeeps
  <2>2. CASE k \in DOMAIN r.cards
    BY <1>2, <1>3, <1>4, <1>5, <2>2
  <2> QED BY <1>2, <2>1, <2>2
<1>6. ASSUME NEW k \in DOMAIN x.cards, NEW j \in DOMAIN x.cards, k < j, x.cards[k].card = "GE"
      PROVE  x.cards[j].card \notin GeometryCards
  <2>1. k \in DOMAIN r.cards /\ x.cards[k] = r.cards[k]
    BY <1>2, <1>6
  <2>2. CASE j = Len(r.cards) + 1
    BY <1>2, <1>4, <1>6, <2>1, <2>2, CardKeeps
  <2>3. CASE j \in DOMAIN r.cards
    <3>1. x.cards[j] = r.cards[j]
      BY <1>2, <2>3
    <3> QED BY <1>6, <2>1, <2>3, <3>1 DEF GeometryEnds
  <2> QED BY <1>2, <2>2, <2>3
<1> QED BY <1>5, <1>6 DEF GeometryEnds

\* A line taken is the last card.
LEMMA LinesTaken ==
    ASSUME NEW t \in Seq(Lines), NEW l \in Lines, NEW u, u = Append(t, l), Accepted(l),
           NEW r \in Reader, r.n = Len(t), NEW x \in Reader, x.n = r.n + 1,
           Len(r.cards) = Len(r.at),
           x.cards = Append(r.cards, Card(l)), x.at = Append(r.at, r.n + 1),
           x.warned = r.warned \cup {<<r.n + 1, i>> : i \in Warned(l)},
           LinesSeen(t, r), CardsOfLines(t, r)
    PROVE  LinesSeen(u, x) /\ CardsOfLines(u, x)
<1> DEFINE z == Len(r.at) + 1
<1>1. /\ u[r.n + 1] = l /\ \A k \in 1 .. r.n : u[k] = t[k]
  <2>1. Longer(u, t, l)
    BY OneLonger
  <2> QED BY <2>1 DEF Longer
<1>2. /\ r.n \in Nat /\ \A k \in 1 .. x.n : k \in 1 .. r.n \/ k = r.n + 1
      /\ \A k \in 1 .. r.n : k \in 1 .. x.n /\ k < r.n + 1
      /\ r.n + 1 \in 1 .. x.n
  <2>1. r.n \in Nat
    BY DEF Reader
  <2>2. /\ \A k \in 1 .. r.n : k \in 1 .. (r.n + 1)
        /\ \A k \in 1 .. (r.n + 1) : k \in 1 .. r.n \/ k = r.n + 1
    BY <2>1, OneMoreLine
  <2>3. r.n + 1 \in 1 .. (r.n + 1) /\ \A k \in 1 .. r.n : k < r.n + 1
    BY <2>1
  <2> QED BY <2>1, <2>2, <2>3
<1>3. r.cards \in Seq(Cards) /\ Card(l) \in Cards /\ r.at \in Seq(Nat)
  BY DEF Reader, Cards
<1>4. /\ DOMAIN x.at = 1 .. z /\ DOMAIN r.at = 1 .. Len(r.at) /\ Len(r.at) \in Nat
      /\ x.at[z] = r.n + 1 /\ x.cards[z] = Card(l)
      /\ \A k \in DOMAIN r.at : x.at[k] = r.at[k] /\ x.cards[k] = r.cards[k]
  <2>1. /\ Len(x.at) = Len(r.at) + 1 /\ x.at[Len(r.at) + 1] = r.n + 1
        /\ \A k \in 1 .. Len(r.at) : x.at[k] = r.at[k]
    BY <1>2, <1>3, AppendProperties
  <2>2. /\ x.cards[Len(r.cards) + 1] = Card(l)
        /\ \A k \in 1 .. Len(r.cards) : x.cards[k] = r.cards[k]
    BY <1>3, AppendProperties
  <2>3. x.at \in Seq(Nat) /\ Len(r.cards) = Len(r.at)
    BY DEF Reader
  <2>4. DOMAIN x.at = 1 .. z /\ DOMAIN r.at = 1 .. Len(r.at) /\ Len(r.at) \in Nat
    BY <1>3, <2>1, <2>3
  <2>5. x.at[z] = r.n + 1 /\ x.cards[z] = Card(l)
    BY <2>1, <2>2, <2>3
  <2> QED BY <2>1, <2>2, <2>3, <2>4, <2>5
<1>5. \A k \in DOMAIN x.at : k \in DOMAIN r.at \/ k = z
  <2>1. \A k \in 1 .. (Len(r.at) + 1) : k \in 1 .. Len(r.at) \/ k = Len(r.at) + 1
    BY <1>4, OneMoreLine
  <2> QED BY <1>4, <2>1
<1>6. z \in DOMAIN x.at /\ \A k \in DOMAIN r.at : k \in DOMAIN x.at /\ k < z
  <2>1. /\ \A k \in 1 .. Len(r.at) : k \in 1 .. (Len(r.at) + 1) /\ k < Len(r.at) + 1
        /\ Len(r.at) + 1 \in 1 .. (Len(r.at) + 1)
    BY <1>4, OneMoreLine
  <2> QED BY <1>4, <2>1
<1> HIDE DEF z
<1>7. LinesSeen(u, x)
  <2> SUFFICES ASSUME NEW k \in 1 .. x.n
               PROVE  \/ u[k].card \in {"", "'"}
                      \/ \E j \in DOMAIN x.at : x.at[j] = k
                      \/ <<k, 0>> \in x.warned
    BY DEF LinesSeen
  <2>1. CASE k \in 1 .. r.n
    <3>1. \/ t[k].card \in {"", "'"} \/ <<k, 0>> \in r.warned
          \/ \E j \in DOMAIN r.at : r.at[j] = k
      BY <2>1 DEF LinesSeen
    <3> QED BY <1>1, <1>4, <1>6, <2>1, <3>1
  <2>2. CASE k = r.n + 1
    BY <1>4, <1>6, <2>2
  <2> QED BY <1>2, <2>1, <2>2
<1>8. ASSUME NEW k \in DOMAIN x.at
      PROVE  /\ x.at[k] \in 1 .. x.n /\ Accepted(u[x.at[k]])
             /\ x.cards[k] = Card(u[x.at[k]])
             /\ \A i \in Warned(u[x.at[k]]) : <<x.at[k], i>> \in x.warned
  <2>1. CASE k = z
    BY <1>1, <1>2, <1>4, <2>1
  <2>2. CASE k \in DOMAIN r.at
    <3>1. /\ r.at[k] \in 1 .. r.n /\ Accepted(t[r.at[k]]) /\ r.cards[k] = Card(t[r.at[k]])
          /\ \A i \in Warned(t[r.at[k]]) : <<r.at[k], i>> \in r.warned
      BY <2>2 DEF CardsOfLines
    <3>2. u[r.at[k]] = t[r.at[k]] /\ r.at[k] \in 1 .. x.n
      BY <1>1, <1>2, <3>1
    <3> QED BY <1>4, <2>2, <3>1, <3>2
  <2> QED BY <1>5, <2>1, <2>2
<1>9. ASSUME NEW k \in DOMAIN x.at, NEW j \in DOMAIN x.at, k < j
      PROVE  x.at[k] < x.at[j]
  <2>1. k \in DOMAIN r.at
    BY <1>4, <1>5, <1>9 DEF z
  <2>2. CASE j = z
    <3>1. r.at[k] \in 1 .. r.n
      BY <2>1 DEF CardsOfLines
    <3> QED BY <1>2, <1>4, <2>1, <2>2, <3>1
  <2>3. CASE j \in DOMAIN r.at
    BY <1>4, <1>9, <2>1, <2>3 DEF CardsOfLines
  <2> QED BY <1>5, <2>2, <2>3
<1> QED BY <1>7, <1>8, <1>9 DEF CardsOfLines

LEMMA TaperTaken ==
    ASSUME DocumentAssumption, NEW l \in Lines, NEW r \in Reader,
           r.taper # NoTaper <=> l.card = "GC",
           NEW x, x.cards = Append(r.cards, Card(l)),
           x.taper = (IF l.card = "GW" /\ Value(l, 9) = 0 THEN KeptValue(l, 2) \div Whole
                      ELSE IF l.card = "GC" THEN NoTaper ELSE r.taper),
           TaperAwaited(r)
    PROVE  TaperAwaited(x)
<1> DEFINE n == Len(r.cards)
<1>1. r.cards \in Seq(Cards) /\ Card(l) \in Cards
  BY DEF Reader, Cards
<1>2. /\ x.cards \in Seq(Cards) /\ Len(x.cards) = n + 1 /\ DOMAIN x.cards = 1 .. (n + 1)
      /\ x.cards[n + 1] = Card(l) /\ \A k \in 1 .. n : x.cards[k] = r.cards[k]
      /\ n \in Nat /\ DOMAIN r.cards = 1 .. n
  BY <1>1, AppendProperties
<1>3. /\ \A k \in 1 .. n : k \in 1 .. (n + 1)
      /\ \A k \in 1 .. (n + 1) : k \in 1 .. n \/ k = n + 1
  BY <1>2, OneMoreLine
<1>4. CASE r.taper = NoTaper /\ l.card = "GW" /\ Value(l, 9) = 0
  <2>1. x.taper # NoTaper
    <3>1. Value(l, 2) \in Int
      BY LineValues
    <3>2. KeptValue(l, 2) = AtLeast(0, Value(l, 2))
      BY <1>4 DEF KeptValue, SaturatingFields, NearCards
    <3>3. KeptValue(l, 2) \in Nat
      BY <3>1, <3>2 DEF AtLeast
    <3>4. KeptValue(l, 2) \div 2 >= 0
      BY <3>3
    <3> QED BY <1>4, <3>4 DEF NoTaper, Whole
  <2>2. x.cards # <<>> /\ ZeroRadius(x.cards[Len(x.cards)])
    BY <1>2, <1>4, CardKeeps
  <2>3. Front(x.cards) = r.cards
    <3>1. Front(Append(r.cards, Card(l))) = r.cards
      BY <1>1, AppendProperties DEF Front
    <3> QED BY <3>1
  <2> QED BY <1>4, <2>1, <2>2, <2>3 DEF TaperAwaited
<1>5. CASE r.taper = NoTaper /\ ~(l.card = "GW" /\ Value(l, 9) = 0)
  <2>1. x.taper = NoTaper /\ l.card # "GC" /\ TaperPairing(r.cards)
    BY <1>5 DEF TaperAwaited
  <2>2. ~ZeroRadius(Card(l)) /\ Card(l).card # "GC"
    BY <1>5, <2>1, CardKeeps
  <2>3. ASSUME NEW k, TaperOf(r.cards, k)
        PROVE  TaperOf(x.cards, k)
    BY <1>2, <1>3, <2>3 DEF TaperOf
  <2>4. TaperPairing(x.cards)
    <3> SUFFICES ASSUME NEW k \in DOMAIN x.cards
                 PROVE  /\ x.cards[k].card = "GW" /\ x.cards[k].f[9] = 0 => TaperOf(x.cards, k)
                        /\ x.cards[k].card = "GC" => TaperOf(x.cards, k - 1)
      BY DEF TaperPairing
    <3>1. CASE k = n + 1
      BY <1>2, <2>2, <3>1 DEF ZeroRadius
    <3>2. CASE k \in 1 .. n
      <4>1. /\ r.cards[k].card = "GW" /\ r.cards[k].f[9] = 0 => TaperOf(r.cards, k)
            /\ r.cards[k].card = "GC" => TaperOf(r.cards, k - 1)
        BY <1>2, <2>1, <3>2 DEF TaperPairing
      <4> QED BY <1>2, <2>3, <3>2, <4>1
    <3> QED BY <1>2, <1>3, <3>1, <3>2
  <2> QED BY <2>1, <2>4 DEF TaperAwaited
<1>6. CASE r.taper # NoTaper
  <2>1. /\ x.taper = NoTaper /\ l.card = "GC"
        /\ r.cards # <<>> /\ ZeroRadius(r.cards[n]) /\ TaperPairing(Front(r.cards))
    BY <1>6 DEF TaperAwaited
  <2>2. /\ n \in 1 .. n /\ DOMAIN Front(r.cards) = 1 .. (n - 1)
        /\ \A k \in 1 .. (n - 1) : Front(r.cards)[k] = r.cards[k] /\ k \in 1 .. n
        /\ \A k \in 1 .. n : k \in 1 .. (n - 1) \/ k = n
    BY <1>1, <1>2, <2>1 DEF Front
  <2>3. Card(l).card = "GC"
    BY <2>1, CardKeeps
  <2>4. ASSUME NEW k, TaperOf(Front(r.cards), k)
        PROVE  TaperOf(x.cards, k)
    BY <1>2, <1>3, <2>2, <2>4 DEF TaperOf
  <2>5. TaperOf(x.cards, n)
    <3>1. n + 1 \in 1 .. (n + 1) /\ n \in 1 .. (n + 1)
      BY <1>2, <2>2
    <3> QED BY <1>2, <2>1, <2>2, <2>3, <3>1 DEF TaperOf, ZeroRadius
  <2>6. TaperPairing(x.cards)
    <3> SUFFICES ASSUME NEW k \in DOMAIN x.cards
                 PROVE  /\ x.cards[k].card = "GW" /\ x.cards[k].f[9] = 0 => TaperOf(x.cards, k)
                        /\ x.cards[k].card = "GC" => TaperOf(x.cards, k - 1)
      BY DEF TaperPairing
    <3>1. CASE k = n + 1
      <4>1. k - 1 = n
        BY <1>2, <3>1
      <4> QED BY <1>2, <2>3, <2>5, <3>1, <4>1
    <3>2. CASE k = n
      BY <1>2, <2>1, <2>2, <2>5, <3>2 DEF ZeroRadius
    <3>3. CASE k \in 1 .. (n - 1)
      <4>1. /\ Front(r.cards)[k].card = "GW" /\ Front(r.cards)[k].f[9] = 0
                  => TaperOf(Front(r.cards), k)
            /\ Front(r.cards)[k].card = "GC" => TaperOf(Front(r.cards), k - 1)
        BY <2>1, <2>2, <3>3 DEF TaperPairing
      <4> QED BY <1>2, <2>2, <2>4, <3>3, <4>1
    <3> QED BY <1>2, <1>3, <2>2, <3>1, <3>2, <3>3
  <2> QED BY <2>1, <2>6 DEF TaperAwaited
<1> QED BY <1>4, <1>5, <1>6
-----------------------------------------------------------------------------
(* The invariants                                                          *)

\* A reader of all of a text.
ReaderOf(t, r) == /\ r \in Reader /\ r.n = Len(t) /\ Len(r.cards) = Len(r.at)
                  /\ ReadFrom(t, r)

LEMMA LineRead ==
    ASSUME DocumentAssumption, NEW t \in Seq(Lines), NEW l \in Lines,
           NEW r, r.status = "reading", ReaderOf(t, r)
    PROVE  ReaderOf(Append(t, l), ReadLine(r, l))
<1> SUFFICES ASSUME NEW u, u = Append(t, l), NEW x, x = ReadLine(r, l),
                    NEW s, s = Next1(r), NEW m, m = Noted(s, l), NEW y, y = Take(m, l)
             PROVE  ReaderOf(u, x)
  OBVIOUS
<1>0. r \in Reader /\ r.n = Len(t) /\ Len(r.cards) = Len(r.at) /\ ReadFrom(t, r)
  BY DEF ReaderOf
<1>1. Outcome(r, l, s, m, x)
  <2>1. Outcome(r, l, Next1(r), Noted(Next1(r), l), ReadLine(r, l))
    BY <1>0, Outcomes
  <2> QED BY <2>1
<1>2. x \in Reader /\ x.n = r.n + 1 /\ Len(x.cards) = Len(x.at) /\ Len(u) = r.n + 1
  <2>1. Len(u) = Len(t) + 1
    BY LineAdded
  <2> QED BY <1>0, <1>1, <2>1 DEF Outcome
<1>3. /\ s \in Reader /\ s.n = r.n + 1 /\ s.cards = r.cards /\ s.at = r.at /\ s.ge = r.ge
      /\ s.taper = r.taper /\ s.warned = r.warned /\ s.program = r.program
      /\ s.status = "reading"
  <2>1. r.n \in Nat
    BY <1>0 DEF Reader
  <2>2. r.n + 1 \in Nat
    BY <2>1
  <2>3. s = [r EXCEPT !.n = r.n + 1]
    BY DEF Next1
  <2> QED BY <1>0, <2>1, <2>2, <2>3 DEF Reader
<1>4. /\ m \in Reader /\ m.n = r.n + 1 /\ m.cards = r.cards /\ m.at = r.at /\ m.ge = r.ge
      /\ m.taper = r.taper /\ m.warned = r.warned
      /\ \/ m.program = r.program
         \/ ProgramCard(l.card) /\ m.program = Append(r.program, Entered(l, r.n + 1))
  <2>1. Noted(s, l) \in Reader /\ NotedFrom(s, l, Noted(s, l))
    BY <1>3, NotedForm
  <2> QED BY <1>3, <2>1 DEF NotedFrom
<1>5. TakenFrom(m, l, y)
  <2>1. TakenFrom(m, l, Take(m, l))
    BY <1>4, TakeForm
  <2> QED BY <2>1
<1>6. SUFFICES ASSUME x.status # "refused"
               PROVE  /\ LinesSeen(u, x) /\ CardsOfLines(u, x) /\ GeometryEnds(x)
                      /\ TaperAwaited(x) /\ ProgramOfLines(u, x)
  BY <1>0, <1>2 DEF ReadFrom, ReaderOf
<1>7. /\ LinesSeen(t, r) /\ CardsOfLines(t, r) /\ GeometryEnds(r) /\ TaperAwaited(r)
      /\ ProgramOfLines(t, r)
  <2>1. r.status # "refused"
    OBVIOUS
  <2> QED BY <1>0, <2>1 DEF ReadFrom
<1>8. CASE l.card \in {"", "'"} /\ x = s
  <2>1. LinesSeen(u, x) /\ CardsOfLines(u, x) /\ GeometryEnds(x) /\ TaperAwaited(x)
    BY <1>0, <1>2, <1>3, <1>7, <1>8, CardsLeft
  <2>2. ProgramOfLines(u, x)
    BY <1>0, <1>2, <1>3, <1>7, <1>8, ProgramKept
  <2> QED BY <2>1, <2>2
<1>9. CASE x = Ignored(m)
  <2>1. /\ x.cards = m.cards /\ x.at = m.at /\ x.taper = m.taper /\ x.ge = m.ge
        /\ x.program = m.program /\ x.warned = m.warned \cup {<<m.n, 0>>}
    BY <1>4, <1>9 DEF Ignored, Reader
  <2>2. r.warned \subseteq x.warned /\ <<r.n + 1, 0>> \in x.warned
    BY <1>4, <2>1
  <2>3. LinesSeen(u, x) /\ CardsOfLines(u, x) /\ GeometryEnds(x) /\ TaperAwaited(x)
    BY <1>0, <1>2, <1>4, <1>7, <2>1, <2>2, CardsLeft
  <2>4. ProgramOfLines(u, x)
    <3>1. \/ x.program = r.program
          \/ ProgramCard(l.card) /\ x.program = Append(r.program, Entered(l, r.n + 1))
      BY <1>4, <2>1
    <3> QED BY <1>0, <1>2, <1>7, <3>1, ProgramKept
  <2> QED BY <2>3, <2>4
<1>10. CASE /\ Accepted(l)
            /\ r.taper # NoTaper <=> l.card = "GC"
            /\ r.ge # 0 => l.card \notin GeometryCards
            /\ x = y \/ x = [y EXCEPT !.status = "parsed"]
  <2>1. /\ x.cards = y.cards /\ x.at = y.at /\ x.warned = y.warned /\ x.taper = y.taper
        /\ x.ge = y.ge /\ x.program = y.program
    <3>1. y \in Reader
      BY <1>4, TakeForm
    <3> QED BY <1>10, <3>1 DEF Reader
  <2>2. /\ x.cards = Append(r.cards, Card(l)) /\ x.at = Append(r.at, r.n + 1)
        /\ x.warned = r.warned \cup {<<r.n + 1, i>> : i \in Warned(l)}
        /\ x.taper = (IF l.card = "GW" /\ Value(l, 9) = 0 THEN KeptValue(l, 2) \div Whole
                      ELSE IF l.card = "GC" THEN NoTaper ELSE r.taper)
        /\ x.ge = (IF l.card = "GE" THEN r.n + 1 ELSE r.ge)
        /\ x.program = m.program
    BY <1>4, <1>5, <2>1 DEF TakenFrom
  <2>3. LinesSeen(u, x) /\ CardsOfLines(u, x)
    BY <1>0, <1>2, <1>7, <1>10, <2>2, LinesTaken
  <2>4. GeometryEnds(x)
    BY <1>0, <1>7, <1>10, <2>2, GeometryTaken
  <2>5. TaperAwaited(x)
    BY <1>0, <1>7, <1>10, <2>2, TaperTaken
  <2>6. ProgramOfLines(u, x)
    <3>1. \/ x.program = r.program
          \/ ProgramCard(l.card) /\ x.program = Append(r.program, Entered(l, r.n + 1))
      BY <1>4, <2>2
    <3> QED BY <1>0, <1>2, <1>7, <3>1, ProgramKept
  <2> QED BY <2>3, <2>4, <2>5, <2>6
<1> QED BY <1>1, <1>6, <1>8, <1>9, <1>10 DEF Outcome

LEMMA TextEnds ==
    ASSUME NEW t, NEW r \in Reader, Len(r.cards) = Len(r.at), ReadFrom(t, r),
           NEW x, x = Finish(r), r.status = "reading"
    PROVE  /\ x \in Reader /\ x.n = r.n /\ Len(x.cards) = Len(x.at) /\ x.status # "reading"
           /\ ReadFrom(t, x)
<1>1. /\ x \in Reader /\ x.cards = r.cards /\ x.at = r.at /\ x.n = r.n
      /\ \/ x.status = "refused"
         \/ x = [r EXCEPT !.status = "parsed"]
  BY FinishForm
<1>2. CASE x.status = "refused"
  BY <1>1, <1>2 DEF ReadFrom
<1>3. CASE x = [r EXCEPT !.status = "parsed"]
  <2>1. /\ x.status = "parsed" /\ x.warned = r.warned /\ x.taper = r.taper /\ x.ge = r.ge
        /\ x.program = r.program
    BY <1>3 DEF Reader
  <2>2. LinesSeen(t, r) => LinesSeen(t, x)
    <3>1. x.n = r.n /\ x.at = r.at /\ x.warned = r.warned
      BY <1>1, <2>1
    <3> QED BY <3>1, Zenon DEF LinesSeen
  <2>3. CardsOfLines(t, r) => CardsOfLines(t, x)
    BY <1>1, <2>1 DEF CardsOfLines
  <2>4. GeometryEnds(r) => GeometryEnds(x)
    BY <1>1, <2>1 DEF GeometryEnds
  <2>5. TaperAwaited(r) => TaperAwaited(x)
    BY <1>1, <2>1 DEF TaperAwaited
  <2>6. ProgramOfLines(t, r) => ProgramOfLines(t, x)
    BY <1>1, <2>1 DEF ProgramOfLines
  <2> QED BY <1>1, <2>1, <2>2, <2>3, <2>4, <2>5, <2>6 DEF ReadFrom
<1> QED BY <1>1, <1>2, <1>3

LEMMA LeastOf ==
    ASSUME NEW S, S \subseteq Nat, S # {}
    PROVE  Min(S) \in S /\ \A k \in S : Min(S) <= k
<1> DEFINE Below == OpToRel(<, Nat)
<1>1. IsWellFoundedOn(Below, Nat)
  BY NatLessThanWellFounded
<1>2. \A x, y \in Nat : x < y => <<x, y>> \in Below
  BY DEF OpToRel
<1> HIDE DEF Below
<1>3. PICK m \in S : \A y \in S : <<y, m>> \notin Below
  BY <1>1, WFMin
<1>4. \A y \in S : m <= y
  <2> TAKE y \in S
  <2>1. ~(y < m)
    BY <1>2, <1>3
  <2> QED BY <2>1
<1> QED BY <1>3, <1>4 DEF Min

\* A table by any set its entries are of.
LEMMA TableOf ==
    ASSUME NEW S, NEW w \in Seq(S), \A e \in S : IsWire(e)
    PROVE  Table(w)
<1>1. \A k \in DOMAIN w : w[k] \in S
  OBVIOUS
<1>2. w \in Seq({w[k] : k \in DOMAIN w})
  OBVIOUS
<1> QED BY <1>1, <1>2 DEF Table

LEMMA EntryOf ==
    ASSUME NEW c
    PROVE  DOMAIN Entry(c) = {"card", "f"} /\ Entry(c).card = c.card
BY DEF Entry

\* The table of a deck that is opened.
LEMMA TableOfDeck ==
    ASSUME NEW cards \in Seq(Cards), NEW d, d = FromDeck(cards)
    PROVE  /\ DOMAIN d = {"pre", "wires", "post", "open"} /\ Table(d.wires)
<1> DEFINE n == Len(cards)
           entries == [k \in 1 .. n |-> Entry(cards[k])]
           from == Min({k \in 1 .. n : IsRow(cards[k])} \cup {n + 1})
           to == Min({k \in from .. n : ~IsRow(cards[k])} \cup {n + 1})
<1>1. /\ DOMAIN d = {"pre", "wires", "post", "open"}
      /\ d.wires = SubSeq(entries, from, to - 1)
  BY DEF FromDeck
<1>2. n \in Nat
  OBVIOUS
<1>3. from \in 1 .. (n + 1)
  <2> DEFINE S == {k \in 1 .. n : IsRow(cards[k])} \cup {n + 1}
  <2>1. S \subseteq Nat /\ S # {} /\ S \subseteq 1 .. (n + 1)
    BY <1>2
  <2> HIDE DEF S
  <2>2. Min(S) \in S
    BY <2>1, LeastOf
  <2>3. Min(S) \in 1 .. (n + 1)
    BY <2>1, <2>2
  <2> QED BY <2>3 DEF S
<1> HIDE DEF from
<1>4. to \in from .. (n + 1) /\ \A k \in from .. (to - 1) : k \in 1 .. n /\ IsRow(cards[k])
  <2> DEFINE S == {k \in from .. n : ~IsRow(cards[k])} \cup {n + 1}
  <2>1. S \subseteq Nat /\ S # {} /\ S \subseteq from .. (n + 1)
    BY <1>2, <1>3
  <2>2. \A k \in from .. n : IsRow(cards[k]) \/ k \in S
    OBVIOUS
  <2>3. to = Min(S)
    OBVIOUS
  <2> HIDE DEF S, to
  <2>4. to \in S /\ \A k \in S : to <= k
    BY <2>1, <2>3, LeastOf
  <2>5. to \in from .. (n + 1)
    BY <2>1, <2>4
  <2>6. ASSUME NEW k \in from .. (to - 1)
        PROVE  k \in 1 .. n /\ IsRow(cards[k])
    <3> HIDE DEF n
    <3>1. k \in from .. n /\ ~(to <= k) /\ k \in 1 .. n
      BY <1>2, <1>3, <2>5
    <3> QED BY <2>2, <2>4, <3>1
  <2> QED BY <2>5, <2>6
<1> HIDE DEF to
<1> DEFINE S == {Entry(cards[k]) : k \in from .. (to - 1)}
<1>5. \A e \in S : IsWire(e)
  BY <1>4, EntryOf DEF IsWire, IsRow
<1>6. SubSeq(entries, from, to - 1) \in Seq(S)
  <2>1. ASSUME NEW i \in 1 .. ((to - 1) - from + 1)
        PROVE  i + from - 1 \in from .. (to - 1)
    BY <1>3, <1>4
  <2>2. \A i \in from .. (to - 1) : entries[i] = Entry(cards[i])
    BY <1>4
  <2> HIDE DEF entries
  <2>3. SubSeq(entries, from, to - 1)
           = [i \in 1 .. ((to - 1) - from + 1) |-> entries[i + from - 1]]
    BY <1>2, <1>3, <1>4
  <2>4. \A i \in 1 .. ((to - 1) - from + 1) : entries[i + from - 1] \in S
    BY <2>1, <2>2
  <2>5. (to - 1) - from + 1 \in Nat
    BY <1>3, <1>4
  <2>6. ASSUME NEW m \in Nat, NEW T, NEW g, \A i \in 1 .. m : g[i + from - 1] \in T
        PROVE  [i \in 1 .. m |-> g[i + from - 1]] \in Seq(T)
    BY <2>6
  <2> HIDE DEF S
  <2> QED BY <2>3, <2>4, <2>5, <2>6
<1> QED BY <1>1, <1>5, <1>6, TableOf

\* Edits of the table
LEMMA TableEdited ==
    ASSUME NEW w, Table(w), NEW k \in DOMAIN w, NEW e, IsWire(e)
    PROVE  Table([w EXCEPT ![k] = e])
<1> DEFINE S == {w[i] : i \in DOMAIN w} \cup {e}
<1>1. w \in Seq(S)
  BY DEF Table
<1>2. \A z \in S : IsWire(z)
  BY DEF Table
<1>3. e \in S
  OBVIOUS
<1> HIDE DEF S
<1>4. [w EXCEPT ![k] = e] \in Seq(S)
  BY <1>1, <1>3
<1> QED BY <1>2, <1>4, TableOf

LEMMA TableLonger ==
    ASSUME NEW w, Table(w), NEW e, IsWire(e)
    PROVE  Table(Append(w, e))
<1> DEFINE S == {w[i] : i \in DOMAIN w} \cup {e}
<1>1. w \in Seq(S)
  BY DEF Table
<1>2. \A z \in S : IsWire(z)
  BY DEF Table
<1>3. e \in S
  OBVIOUS
<1> HIDE DEF S
<1>4. Append(w, e) \in Seq(S)
  BY <1>1, <1>3, AppendProperties
<1> QED BY <1>2, <1>4, TableOf

LEMMA TableShorter ==
    ASSUME NEW w, Table(w), NEW k \in DOMAIN w
    PROVE  Table(RemoveAt(w, k))
<1> DEFINE S == {w[i] : i \in DOMAIN w}
<1>1. w \in Seq(S)
  BY DEF Table
<1>2. \A z \in S : IsWire(z)
  BY DEF Table
<1> HIDE DEF S
<1>3. k \in 1 .. Len(w) /\ Len(w) \in Nat
  BY <1>1
<1>4. SubSeq(w, 1, k - 1) \in Seq(S)
  BY <1>1, <1>3
<1>5. SubSeq(w, k + 1, Len(w)) \in Seq(S)
  BY <1>1, <1>3
<1>6. RemoveAt(w, k) \in Seq(S)
  BY <1>4, <1>5, ConcatProperties DEF RemoveAt
<1> QED BY <1>2, <1>6, TableOf

\* An edit of the document leaves it a document of the same reader.
LEMMA EditKeeps ==
    ASSUME ReadInv, EditWire \/ AddWire \/ DeleteWire \/ EditControl \/ AddControl \/ DeleteControl
    PROVE  DocForm'
<1>1. /\ doc.open /\ UNCHANGED reader
      /\ doc.open => reader.status = "parsed"
      /\ DOMAIN doc = {"pre", "wires", "post", "open"} /\ Table(doc.wires)
  BY DEF ReadInv, DocForm, EditWire, AddWire, DeleteWire, EditControl, AddControl, DeleteControl,
     Edit
<1>2. SUFFICES DOMAIN doc' = {"pre", "wires", "post", "open"} /\ Table(doc'.wires)
  BY <1>1 DEF DocForm
<1>3. CASE EditWire
  <2>1. PICK k \in DOMAIN doc.wires, i \in 1 .. 9, x \in Inputs :
               doc' = [doc EXCEPT !.wires[k].f[i] = x]
    BY <1>3 DEF EditWire
  <2> DEFINE e == [doc.wires[k] EXCEPT !.f[i] = x]
             w == [doc.wires EXCEPT ![k] = e]
  <2>2. IsWire(e)
    <3>1. IsWire(doc.wires[k])
      BY <1>1 DEF Table
    <3> QED BY <3>1 DEF IsWire
  <2>3. doc' = [doc EXCEPT !.wires = w]
    BY <2>1
  <2> HIDE DEF e
  <2>4. Table(w)
    BY <1>1, <2>2, TableEdited
  <2> HIDE DEF w
  <2> QED BY <1>1, <2>3, <2>4
<1>4. CASE AddWire
  <2> DEFINE e == DefaultWire(NextTag(doc.wires))
  <2>1. IsWire(e)
    BY EntryOf DEF DefaultWire, IsWire
  <2>2. doc' = [doc EXCEPT !.wires = Append(doc.wires, e)]
    BY <1>4 DEF AddWire
  <2> HIDE DEF e
  <2>3. Table(Append(doc.wires, e))
    BY <1>1, <2>1, TableLonger
  <2> QED BY <1>1, <2>2, <2>3
<1>5. CASE DeleteWire
  <2>1. PICK k \in DOMAIN doc.wires : doc' = [doc EXCEPT !.wires = RemoveAt(doc.wires, k)]
    BY <1>5 DEF DeleteWire
  <2>2. Table(RemoveAt(doc.wires, k))
    BY <1>1, TableShorter
  <2> QED BY <1>1, <2>1, <2>2
<1>6. CASE EditControl \/ AddControl \/ DeleteControl
  <2>1. PICK post : doc' = [doc EXCEPT !.post = post]
    <3>1. CASE EditControl
      <4>1. PICK k, i, x : doc' = [doc EXCEPT !.post[k].f[i] = x]
        BY <3>1 DEF EditControl
      <4> QED BY <4>1
    <3>2. CASE AddControl \/ DeleteControl
      BY <3>2 DEF AddControl, DeleteControl
    <3> QED BY <1>6, <3>1, <3>2
  <2> QED BY <1>1, <2>1
<1> QED BY <1>3, <1>4, <1>5, <1>6

\* ReadInv holds whatever the text and its edits.
LEMMA ReadStart ==
    ASSUME DocumentAssumption, DocInit
    PROVE  ReadInv
<1>1. /\ alphabet \in DOMAIN Alphabets /\ text = <<>> /\ reader = Start /\ doc = NoDocument
  BY DEF DocInit
<1>2. TextForm
  <2>1. Start.n = 0 /\ Start.cards = <<>> /\ Start.at = <<>> /\ Start.status = "reading"
    BY DEF Start
  <2>2. text \in Seq(Lines) /\ Len(text) = 0
    BY <1>1
  <2> QED BY <1>1, <2>1, <2>2, StartForm DEF TextForm
<1>3. ReadFrom(text, reader)
  <2>1. /\ Start.n = 0 /\ Start.cards = <<>> /\ Start.at = <<>> /\ Start.program = <<>>
        /\ Start.taper = NoTaper
    BY DEF Start
  <2>2. LinesSeen(text, Start) /\ CardsOfLines(text, Start) /\ ProgramOfLines(text, Start)
    BY <2>1 DEF LinesSeen, CardsOfLines, ProgramOfLines
  <2>3. GeometryEnds(Start) /\ TaperAwaited(Start)
    BY <2>1 DEF GeometryEnds, TaperAwaited, TaperPairing
  <2> QED BY <1>1, <2>2, <2>3 DEF ReadFrom
<1>4. DocForm
  BY <1>1 DEF DocForm, NoDocument, Table
<1> QED BY <1>2, <1>3, <1>4 DEF ReadInv

LEMMA ReadStep ==
    ASSUME DocumentAssumption, ReadInv, [DocNext]_docVars
    PROVE  ReadInv'
<1>1. /\ alphabet \in DOMAIN Alphabets /\ text \in Seq(Lines) /\ reader \in Reader
      /\ reader.n <= Len(text) /\ (reader.status = "reading" => reader.n = Len(text))
      /\ Len(reader.cards) = Len(reader.at)
  BY DEF ReadInv, TextForm
<1>2. CASE Read
  <2>1. PICK l \in Alphabets[alphabet].lines :
                /\ reader.status = "reading"
                /\ text' = Append(text, l) /\ reader' = ReadLine(reader, l)
                /\ UNCHANGED <<alphabet, doc, edits>>
    BY <1>2 DEF Read
  <2>2. l \in Lines
    BY <1>1 DEF Lines
  <2>3. reader.n = Len(text) /\ ReadFrom(text, reader)
    BY <1>1, <2>1 DEF ReadInv
  <2>4. /\ reader' \in Reader /\ reader'.n = Len(text') /\ Len(reader'.cards) = Len(reader'.at)
        /\ ReadFrom(text', reader')
    <3>1. ReaderOf(text, reader)
      BY <1>1, <2>3 DEF ReaderOf
    <3>2. ReaderOf(Append(text, l), ReadLine(reader, l))
      BY <1>1, <2>1, <2>2, <3>1, LineRead
    <3> QED BY <2>1, <3>2 DEF ReaderOf
  <2>5. text' \in Seq(Lines)
    BY <1>1, <2>1, <2>2, LineAdded
  <2>6. TextForm'
    BY <1>1, <2>1, <2>4, <2>5 DEF TextForm
  <2>7. DocForm'
    BY <2>1 DEF ReadInv, DocForm
  <2> QED BY <2>4, <2>6, <2>7 DEF ReadInv
<1>3. CASE EndOfText
  <2>1. /\ reader.status = "reading" /\ reader' = Finish(reader)
        /\ UNCHANGED <<alphabet, text, doc>>
    BY <1>3 DEF EndOfText
  <2>2. ReadFrom(text, reader)
    BY DEF ReadInv
  <2>3. /\ reader' \in Reader /\ reader'.n = reader.n /\ Len(reader'.cards) = Len(reader'.at)
        /\ reader'.status # "reading" /\ ReadFrom(text, reader')
    BY <1>1, <2>1, <2>2, TextEnds
  <2>4. TextForm'
    BY <1>1, <2>1, <2>3 DEF TextForm
  <2>5. DocForm'
    BY <2>1 DEF ReadInv, DocForm
  <2> QED BY <2>1, <2>3, <2>4, <2>5 DEF ReadInv
<1>4. CASE Open
  <2>1. /\ reader.status = "parsed" /\ doc' = FromDeck(reader.cards)
        /\ UNCHANGED <<alphabet, text, reader>>
    BY <1>4 DEF Open
  <2>2. reader.cards \in Seq(Cards)
    BY <1>1 DEF Reader
  <2>3. DOMAIN doc' = {"pre", "wires", "post", "open"} /\ Table(doc'.wires)
    BY <2>1, <2>2, TableOfDeck
  <2> QED BY <2>1, <2>3 DEF ReadInv, TextForm, DocForm
<1>5. CASE EditWire \/ AddWire \/ DeleteWire \/ EditControl \/ AddControl \/ DeleteControl
  <2>1. UNCHANGED <<alphabet, text, reader>>
    BY <1>5 DEF EditWire, AddWire, DeleteWire, EditControl, AddControl, DeleteControl, Edit
  <2>2. DocForm'
    BY <1>5, EditKeeps
  <2> QED BY <2>1, <2>2 DEF ReadInv, TextForm
<1>6. CASE UNCHANGED docVars
  BY <1>6 DEF docVars, ReadInv, TextForm, DocForm
<1> QED BY <1>2, <1>3, <1>4, <1>5, <1>6 DEF DocNext
-----------------------------------------------------------------------------
(* What an accepted line says is in its card, or is warned of              *)

\* The flags of XNDA and of GX's planes, digit by digit
LEMMA FlagsKept ==
    ASSUME NEW n \in Nat, NEW place \in {1, 10, 100}
    PROVE  /\ (Digit(n, place) # 0) <=> (Digit((Whole * Xnda(n)) \div Whole, place) # 0)
           /\ n \in 0 .. 999 =>
                  (Digit(n, place) # 0) <=> (Digit((Whole * Planes(n)) \div Whole, place) # 0)
<1>1. \A a \in Nat : (Whole * a) \div Whole = a
  BY DEF Whole
<1>2. \A q \in {1, 10, 100} : Set(n, q) \in {0, 1} /\ (Set(n, q) = 1 <=> Digit(n, q) # 0)
  BY DEF Set
<1>3. ASSUME NEW a \in {0, 1}, NEW b \in {0, 1}, NEW c \in {0, 1}
      PROVE  /\ (500 * a + 10 * b + c) % 10 = c
             /\ ((500 * a + 10 * b + c) \div 10) % 10 = b
             /\ ((500 * a + 10 * b + c) \div 100) % 10 = 5 * a
             /\ (100 * a + 10 * b + c) % 10 = c
             /\ ((100 * a + 10 * b + c) \div 10) % 10 = b
             /\ ((100 * a + 10 * b + c) \div 100) % 10 = a
             /\ 500 * a + 10 * b + c \in Nat /\ 100 * a + 10 * b + c \in Nat
  <2>1. a = 0 \/ a = 1
    OBVIOUS
  <2>2. b = 0 \/ b = 1
    OBVIOUS
  <2>3. c = 0 \/ c = 1
    OBVIOUS
  <2> QED BY <2>1, <2>2, <2>3
<1>4. (Digit(n, place) # 0) <=> (Digit((Whole * Xnda(n)) \div Whole, place) # 0)
  <2>1. /\ Xnda(n) \in Nat /\ Xnda(n) % 10 = Set(n, 1) /\ (Xnda(n) \div 10) % 10 = Set(n, 10)
        /\ (Xnda(n) \div 100) % 10 = 5 * Set(n, 100)
    BY <1>2, <1>3 DEF Xnda
  <2>2. Xnda(n) \div 1 = Xnda(n)
    BY <2>1
  <2> QED BY <1>1, <1>2, <2>1, <2>2 DEF Digit
<1>5. ASSUME n \in 0 .. 999
      PROVE  (Digit(n, place) # 0) <=> (Digit((Whole * Planes(n)) \div Whole, place) # 0)
  <2> DEFINE a == IF n >= 100 THEN 1 ELSE 0
  <2>1. a \in {0, 1} /\ (a = 1 <=> Digit(n, 100) # 0)
    BY <1>5 DEF Digit
  <2>2. /\ Planes(n) \in Nat /\ Planes(n) % 10 = Set(n, 1)
        /\ (Planes(n) \div 10) % 10 = Set(n, 10) /\ (Planes(n) \div 100) % 10 = a
    <3>1. Planes(n) = 100 * a + 10 * Set(n, 10) + Set(n, 1)
      BY DEF Planes
    <3>2. a \in {0, 1} /\ Set(n, 10) \in {0, 1} /\ Set(n, 1) \in {0, 1}
      BY <1>2, <2>1
    <3> HIDE DEF a
    <3> QED BY <1>3, <3>1, <3>2
  <2>3. Planes(n) \div 1 = Planes(n)
    BY <2>2
  <2> HIDE DEF a
  <2> QED BY <1>1, <1>2, <2>1, <2>2, <2>3 DEF Digit
<1> QED BY <1>4, <1>5

\* A field that is not zero is warned of, or one before it is.
LEMMA FirstIsBefore ==
    ASSUME NEW l, NEW fields, fields \subseteq Nat, NEW i \in fields, Value(l, i) # 0
    PROVE  \E j \in fields : j <= i /\ j \in FirstNonzero(l, fields)
<1> DEFINE S == {j \in fields : Value(l, j) # 0}
<1>1. S \subseteq Nat /\ i \in S
  OBVIOUS
<1>2. Min(S) \in S /\ \A j \in S : Min(S) <= j
  BY <1>1, LeastOf
<1>3. Min(S) \in FirstNonzero(l, fields)
  BY <1>2 DEF FirstNonzero
<1> QED BY <1>1, <1>2, <1>3

\* Field i of line l, in its card or in its warnings
InCard(l, i) == i \in Kept(l) /\ (KeptValue(l, i) = Value(l, i) \/ Rounded(l, i))
AsFlag(l, i) == /\ ReadAsFlag(l, i) /\ i \in Kept(l)
                /\ \A place \in {1, 10, 100} :
                      (Digit(IntOf(l, i), place) # 0)
                          <=> (Digit(KeptValue(l, i) \div Whole, place) # 0)
WarnedBy(l, i) == \E j \in 1 .. i : j \in Warned(l)
Accounted(l, i) == Value(l, i) = 0 \/ InCard(l, i) \/ AsFlag(l, i) \/ WarnedBy(l, i)

LEMMA WiresAccounted ==
    ASSUME DocumentAssumption, NEW l \in Lines, NEW i \in NecReads(l),
           l.card \in {"GW", "GH", "GM", "GA", "GC", "GS", "GE", "GR"}
    PROVE  InCard(l, i)
<1>1. i \in Kept(l)
  BY DEF NecReads, Reads, Kept, Comments, NearCards
<1>2. i \in 1 .. 9
  BY DEF NecReads, Reads, Comments, NearCards
<1>3. Value(l, i) \in Int
  <2>1. i \in 1 .. 12
    BY <1>2
  <2> QED BY <2>1, LineValues
<1>4. CASE i \in SaturatingFields(l.card)
  <2>1. KeptValue(l, i) = AtLeast(0, Value(l, i))
    BY <1>4 DEF KeptValue, SaturatingFields, NearCards
  <2> QED BY <1>1, <1>3, <1>4, <2>1 DEF InCard, Rounded, AtLeast
<1>5. CASE i \notin SaturatingFields(l.card) /\ ~(l.card = "GM" /\ i = 1)
  <2>1. KeptValue(l, i) = Value(l, i)
    BY <1>5 DEF KeptValue
  <2> QED BY <1>1, <2>1 DEF InCard
<1>6. CASE l.card = "GM" /\ i = 1
  BY <1>1, <1>6 DEF InCard, Rounded
<1> QED BY <1>4, <1>5, <1>6

LEMMA MirrorsAccounted ==
    ASSUME DocumentAssumption, NEW l \in Lines, NEW i \in NecReads(l), Accepted(l),
           l.card = "GX"
    PROVE  InCard(l, i) \/ AsFlag(l, i)
<1>1. i \in Kept(l) /\ i \in {1, 2}
  BY DEF NecReads, Reads, Kept, Comments, NearCards
<1>2. CASE i = 1
  <2>1. KeptValue(l, i) = Value(l, i)
    BY <1>2 DEF KeptValue, SaturatingFields, NearCards
  <2> QED BY <1>1, <2>1 DEF InCard
<1>3. CASE i = 2
  <2>1. KeptValue(l, i) = Whole * Planes(IntOf(l, 2))
    BY <1>3 DEF KeptValue, SaturatingFields, NearCards
  <2>2. IntOf(l, 2) \in 0 .. 999
    <3>1. \E segments : ~CardRefused(l, segments)
      BY DEF Accepted, Typed, GeometryCards
    <3>2. \A segments : CardRefused(l, segments) = GxRefused(l)
      BY DEF CardRefused
    <3> QED BY <3>1, <3>2 DEF GxRefused
  <2>3. IntOf(l, 2) \in Nat
    BY <2>2
  <2>4. ASSUME NEW place \in {1, 10, 100}
        PROVE  (Digit(IntOf(l, i), place) # 0) <=> (Digit(KeptValue(l, i) \div Whole, place) # 0)
    <3>1. (Digit(IntOf(l, 2), place) # 0)
              <=> (Digit((Whole * Planes(IntOf(l, 2))) \div Whole, place) # 0)
      BY <2>2, <2>3, FlagsKept
    <3> QED BY <1>3, <2>1, <3>1
  <2>5. ReadAsFlag(l, i)
    BY <1>3 DEF ReadAsFlag
  <2> QED BY <1>1, <2>4, <2>5 DEF AsFlag
<1> QED BY <1>1, <1>2, <1>3

LEMMA ControlsAccounted ==
    ASSUME DocumentAssumption, NEW l \in Lines, NEW i \in NecReads(l),
           l.card \in {"FR", "LD", "PT", "EX", "TL", "NT", "NE", "NH"}
    PROVE  InCard(l, i)
<1>1. i \in Kept(l)
  BY DEF NecReads, Reads, Kept, Comments, NearCards
<1>2. i \in 1 .. 10
  BY DEF NecReads, Reads, Comments, NearCards
<1>3. Value(l, i) \in Int
  <2>1. i \in 1 .. 12
    BY <1>2
  <2> QED BY <2>1, LineValues
<1>4. CASE i \in SaturatingFields(l.card)
  <2>1. KeptValue(l, i) = AtLeast(0, Value(l, i))
    BY <1>4 DEF KeptValue, SaturatingFields, NearCards
  <2> QED BY <1>1, <1>3, <1>4, <2>1 DEF InCard, Rounded, AtLeast
<1>5. CASE i \notin SaturatingFields(l.card)
  <2>1. KeptValue(l, i) = Value(l, i)
    BY <1>2, <1>5 DEF KeptValue
  <2> QED BY <1>1, <2>1 DEF InCard
<1> QED BY <1>4, <1>5

LEMMA GroundAccounted ==
    ASSUME DocumentAssumption, NEW l \in Lines, NEW i \in NecReads(l), Accepted(l),
           l.card = "GN", Value(l, i) # 0
    PROVE  InCard(l, i) \/ WarnedBy(l, i)
<1>1. i \in 1 .. 10
  BY DEF NecReads, Reads, Comments, NearCards
<1>2. /\ Kept(l) = {1, 2} \cup (IF MediumGiven(l) THEN {5, 6} ELSE {})
                          \cup (IF Value(l, 2) # 0 THEN {7, 8} ELSE 7 .. 10)
      /\ KeptValue(l, i) = Value(l, i) /\ Warned(l) = GnWarned(l)
  BY DEF Kept, Comments, KeptValue, SaturatingFields, NearCards, Warned
<1>3. CASE i \in {1, 2, 5, 6}
  <2>1. i \in Kept(l)
    BY <1>2, <1>3 DEF MediumGiven
  <2> QED BY <1>2, <2>1 DEF InCard
<1>4. CASE i \in 2 .. 10 /\ ~Finite(l)
  <2>1. PICK j \in 2 .. 10 : j <= i /\ j \in FirstNonzero(l, 2 .. 10)
    <3>1. 2 .. 10 \subseteq Nat
      OBVIOUS
    <3> QED BY <1>4, <3>1, FirstIsBefore
  <2>2. j \in Warned(l) /\ j \in 1 .. i
    BY <1>1, <1>2, <1>4, <2>1 DEF GnWarned
  <2> QED BY <2>2 DEF WarnedBy
<1>5. CASE i \in 3 .. 4 /\ Finite(l)
  <2>1. PICK j \in 3 .. 4 : j <= i /\ j \in FirstNonzero(l, 3 .. 4)
    <3>1. 3 .. 4 \subseteq Nat
      OBVIOUS
    <3> QED BY <1>5, <3>1, FirstIsBefore
  <2>2. j \in Warned(l) /\ j \in 1 .. i
    BY <1>1, <1>2, <1>5, <2>1 DEF GnWarned
  <2> QED BY <2>2 DEF WarnedBy
<1>6. CASE i \in 7 .. 10 /\ Finite(l)
  <2>1. Value(l, 2) = 0
    <3>1. \E segments : ~CardRefused(l, segments)
      BY DEF Accepted, Typed, PositionalCards
    <3>2. \A segments : CardRefused(l, segments) = GnRefused(l)
      BY DEF CardRefused
    <3> QED BY <1>6, <3>1, <3>2 DEF GnRefused
  <2> QED BY <1>2, <1>6, <2>1 DEF InCard
<1>7. i \in {1, 2, 5, 6} \/ (i \in 2 .. 10 /\ (i \in 3 .. 4 \/ i \in 7 .. 10))
  BY <1>1
<1> QED BY <1>3, <1>4, <1>5, <1>6, <1>7

LEMMA PatternAccounted ==
    ASSUME DocumentAssumption, NEW l \in Lines, NEW i \in NecReads(l), Accepted(l),
           l.card = "RP", Value(l, i) # 0
    PROVE  InCard(l, i) \/ AsFlag(l, i) \/ WarnedBy(l, i)
<1>1. /\ i \in 1 .. 10 /\ Kept(l) = 1 .. 8 /\ Warned(l) = RpWarned(l)
      /\ i = 10 => Digit(IntOf(l, 4), 100) # 0
  BY DEF NecReads, Kept, Comments, Warned
<1>2. CASE i \in {1, 5, 6, 7, 8}
  <2>1. KeptValue(l, i) = Value(l, i)
    BY <1>2 DEF KeptValue, SaturatingFields, NearCards
  <2> QED BY <1>1, <1>2, <2>1 DEF InCard
<1>3. ~BadField(l)
  BY DEF Accepted, Typed, PositionalCards
<1>4. /\ \A j \in 2 .. 4 : ~(Value(l, j) < 0)
      /\ \A j \in 1 .. 4 : j \in DOMAIN l.f => IsWhole(l.f[j].v)
  <2>1. /\ NotNegative(l.card) = 2 .. 4 /\ Reads(l.card) = 1 .. 10
        /\ WholeFields(l.card) = 1 .. 4
    BY DEF NotNegative, Reads, WholeFields, PositionalCards, NearCards
  <2> QED BY <1>3, <2>1 DEF BadField
<1>5. l.f \in Seq(Field) /\ \A j \in 1 .. 10 : Value(l, j) \in Int
  BY LineValues
<1>6. CASE i \in {2, 3}
  <2>1. KeptValue(l, i) = AtLeast(Whole, Value(l, i))
    BY <1>6 DEF KeptValue, SaturatingFields, NearCards
  <2>2. IsWhole(Value(l, i)) /\ Value(l, i) >= 0 /\ Value(l, i) \in Int
    BY <1>4, <1>5, <1>6 DEF Value, IsWhole, Whole
  <2>3. Value(l, i) >= Whole
    BY <2>2 DEF IsWhole, Whole
  <2>4. KeptValue(l, i) = Value(l, i)
    BY <2>1, <2>2, <2>3 DEF AtLeast, Whole
  <2> QED BY <1>1, <1>6, <2>4 DEF InCard
<1>7. CASE i = 4
  <2>1. KeptValue(l, i) = Whole * Xnda(IntOf(l, 4))
    BY <1>7 DEF KeptValue, SaturatingFields, NearCards
  <2>2. IntOf(l, 4) \in Nat
    <3>1. Value(l, 4) \in Int /\ 4 \in 2 .. 4
      BY <1>5
    <3>4. Value(l, 4) \in Nat
      BY <1>4, <3>1
    <3>2. Value(l, 4) \div 2 \in Nat
      BY <3>4
    <3> QED BY <3>2 DEF IntOf, Whole
  <2>3. ASSUME NEW place \in {1, 10, 100}
        PROVE  (Digit(IntOf(l, i), place) # 0) <=> (Digit(KeptValue(l, i) \div Whole, place) # 0)
    <3>1. (Digit(IntOf(l, 4), place) # 0)
              <=> (Digit((Whole * Xnda(IntOf(l, 4))) \div Whole, place) # 0)
      BY <2>2, FlagsKept
    <3> QED BY <1>7, <2>1, <3>1
  <2>4. ReadAsFlag(l, i)
    BY <1>7 DEF ReadAsFlag
  <2> QED BY <1>1, <1>7, <2>3, <2>4 DEF AsFlag
<1>8. CASE i \in {9, 10}
  <2>1. i \in Warned(l)
    BY <1>1, <1>8 DEF RpWarned
  <2> QED BY <1>8, <2>1 DEF WarnedBy
<1> QED BY <1>1, <1>2, <1>6, <1>7, <1>8

LEMMA LineAccounted ==
    ASSUME DocumentAssumption, NEW l \in Lines, Accepted(l), NEW i \in NecReads(l)
    PROVE  Accounted(l, i)
<1>1. CASE l.card \in {"GW", "GH", "GM", "GA", "GC", "GS", "GE", "GR"}
  BY <1>1, WiresAccounted DEF Accounted
<1>2. CASE l.card = "GX"
  BY <1>2, MirrorsAccounted DEF Accounted
<1>3. CASE l.card \in {"FR", "LD", "PT", "EX", "TL", "NT", "NE", "NH"}
  BY <1>3, ControlsAccounted DEF Accounted
<1>4. CASE l.card = "GN"
  BY <1>4, GroundAccounted DEF Accounted
<1>5. CASE l.card = "RP"
  BY <1>5, PatternAccounted DEF Accounted
<1>6. CASE l.card \in {"CM", "CE", "EN"}
  BY <1>6 DEF NecReads
<1> QED BY <1>1, <1>2, <1>3, <1>4, <1>5, <1>6
        DEF Accepted, Known, Typed, GeometryCards, PositionalCards, NearCards, Comments

\* The same of the reader's cards and warnings
LEMMA CardAccounted ==
    ASSUME DocumentAssumption, NEW l \in Lines, Accepted(l), NEW i \in NecReads(l),
           NEW k, \A j \in Warned(l) : <<k, j>> \in reader.warned
    PROVE  FieldAccounted(l, Card(l), k, i)
<1>1. Card(l).f = [j \in Kept(l) |-> KeptValue(l, j)]
  BY DEF Card
<1>2. CASE Value(l, i) = 0
  BY <1>2 DEF FieldAccounted
<1>3. CASE InCard(l, i)
  <2>1. i \in DOMAIN Card(l).f /\ Card(l).f[i] = KeptValue(l, i)
    BY <1>1, <1>3 DEF InCard
  <2> QED BY <1>3, <2>1 DEF FieldAccounted, InCard
<1>4. CASE AsFlag(l, i)
  <2>1. Card(l).f[i] = KeptValue(l, i)
    BY <1>1, <1>4 DEF AsFlag
  <2> QED BY <1>4, <2>1 DEF FieldAccounted, AsFlag
<1>5. CASE WarnedBy(l, i)
  BY <1>5 DEF FieldAccounted, WarnedBy
<1> QED BY <1>2, <1>3, <1>4, <1>5, LineAccounted DEF Accounted

\* The record of a card the parser took is whole.
LEMMA RecordIsWhole ==
    ASSUME NEW l \in Lines, Accepted(l), ProgramCard(l.card), l.card # "EN",
           NEW i \in 1 .. 10
    PROVE  Recorded(l)[i] = Value(l, i)
<1>1. l.card \in PositionalCards \cup NearCards /\ ~BadField(l)
  BY DEF Accepted, Known, ProgramCard, Typed
<1>2. Reads(l.card) \cap (1 .. 10) = 1 .. 10 /\ WholeFields(l.card) = 1 .. 4
  BY <1>1 DEF Reads, WholeFields, PositionalCards, NearCards
<1>3. ASSUME NEW j \in DOMAIN l.f \cap (1 .. 10)
      PROVE  ~(l.f[j].as = "bad" \/ (j <= 4 /\ ~IsWhole(l.f[j].v)))
  <2>1. j \in Reads(l.card) \cap DOMAIN l.f
    BY <1>2
  <2>2. j <= 4 => j \in WholeFields(l.card)
    BY <1>2
  <2> QED BY <1>1, <2>1, <2>2 DEF BadField
<1>4. Recorded(l) = [j \in 1 .. 10 |-> Value(l, j)]
  BY <1>3 DEF Recorded
<1> QED BY <1>4

LEMMA ReadInvReads ==
    ASSUME DocumentAssumption, ReadInv
    PROVE  DeckIsRead /\ DocTypeOK
<1> DEFINE lines == {reader.at[k] : k \in DOMAIN reader.at}
<1>1. /\ text \in Seq(Lines) /\ reader \in Reader /\ reader.n \in Nat /\ reader.n <= Len(text)
      /\ Len(reader.cards) = Len(reader.at)
  BY DEF ReadInv, TextForm, Reader
<1>2. /\ reader.cards \in Seq(Cards) /\ reader.at \in Seq(Nat)
      /\ DOMAIN reader.cards = DOMAIN reader.at
  <2>1. reader.cards \in Seq(Cards) /\ reader.at \in Seq(Nat)
    BY <1>1 DEF Reader
  <2> QED BY <1>1, <2>1
<1>3. \A k \in 1 .. reader.n : text[k] \in Lines
  BY <1>1
<1>4. DocTypeOK
  BY <1>1 DEF DocTypeOK, ReadInv, DocForm, Table, IsWire, Reader
<1>5. ASSUME reader.status # "refused"
      PROVE  DeckIsRead
  <2>1. /\ LinesSeen(text, reader) /\ CardsOfLines(text, reader) /\ GeometryEnds(reader)
        /\ TaperAwaited(reader) /\ ProgramOfLines(text, reader)
    BY <1>5 DEF ReadInv, ReadFrom
  <2>2. \A k \in 1 .. reader.n : \/ text[k].card \in {"", "'"} \/ k \in lines
                                 \/ <<k, 0>> \in reader.warned
    BY <2>1 DEF LinesSeen
  <2>3. \A k, j \in DOMAIN reader.at : k < j => reader.at[k] < reader.at[j]
    BY <2>1 DEF CardsOfLines
  <2>4. ASSUME NEW k \in DOMAIN reader.at
        PROVE  LET l == text[reader.at[k]]  c == reader.cards[k]
               IN /\ c.card \in {l.card, "CM"}
                  /\ \A i \in NecReads(l) : FieldAccounted(l, c, reader.at[k], i)
                  /\ Normalizes(l) => <<reader.at[k], 4>> \in reader.warned
    <3> SUFFICES ASSUME NEW l, l = text[reader.at[k]], NEW c, c = reader.cards[k]
                 PROVE  /\ c.card \in {l.card, "CM"}
                        /\ \A i \in NecReads(l) : FieldAccounted(l, c, reader.at[k], i)
                        /\ Normalizes(l) => <<reader.at[k], 4>> \in reader.warned
      OBVIOUS
    <3>1. /\ l \in Lines /\ Accepted(l) /\ c = Card(l)
          /\ \A i \in Warned(l) : <<reader.at[k], i>> \in reader.warned
      BY <1>3, <2>1 DEF CardsOfLines
    <3>2. c.card \in {l.card, "CM"}
      BY <3>1, CardKeeps
    <3>3. \A i \in NecReads(l) : FieldAccounted(l, c, reader.at[k], i)
      BY <3>1, CardAccounted
    <3>4. Normalizes(l) => 4 \in Warned(l)
      BY DEF Normalizes, Warned, RpWarned
    <3> QED BY <3>1, <3>2, <3>3, <3>4
  <2>5. \A k, j \in DOMAIN reader.cards :
            k < j /\ reader.cards[k].card = "GE" => reader.cards[j].card \notin GeometryCards
    BY <2>1 DEF GeometryEnds
  <2>6. TaperPairing(IF reader.taper # NoTaper THEN Front(reader.cards) ELSE reader.cards)
    BY <2>1 DEF TaperAwaited
  <2>7. ASSUME NEW k \in DOMAIN reader.program
        PROVE  LET p == reader.program[k]
               IN /\ p.card = text[p.line].card
                  /\ p.line \in lines /\ p.card # "EN" =>
                        \A i \in 1 .. 10 : p.f[i] = Value(text[p.line], i)
    <3> SUFFICES ASSUME NEW p, p = reader.program[k]
                 PROVE  /\ p.card = text[p.line].card
                        /\ p.line \in lines /\ p.card # "EN" =>
                              \A i \in 1 .. 10 : p.f[i] = Value(text[p.line], i)
      OBVIOUS
    <3>1. /\ p.line \in 1 .. reader.n /\ ProgramCard(p.card)
          /\ p = Entered(text[p.line], p.line)
      BY <2>1 DEF ProgramOfLines
    <3>2. p.card = text[p.line].card /\ p.f = Recorded(text[p.line])
      BY <3>1 DEF Entered
    <3>3. ASSUME p.line \in lines, p.card # "EN", NEW i \in 1 .. 10
          PROVE  p.f[i] = Value(text[p.line], i)
      <4>1. Accepted(text[p.line])
        BY <2>1, <3>3 DEF CardsOfLines
      <4>2. text[p.line] \in Lines
        BY <1>3, <3>1
      <4> QED BY <3>1, <3>2, <3>3, <4>1, <4>2, RecordIsWhole
    <3> QED BY <3>2, <3>3
  <2> QED BY <2>2, <2>3, <2>4, <2>5, <2>6, <2>7 DEF DeckIsRead
<1>6. reader.status = "refused" => DeckIsRead
  BY DEF DeckIsRead
<1> QED BY <1>4, <1>5, <1>6

\* Both hold of every behaviour of the document.
THEOREM DocumentRead == ASSUME DocumentAssumption PROVE DocSpec => [](DeckIsRead /\ DocTypeOK)
<1>1. DocInit => ReadInv
  BY ReadStart
<1>2. ReadInv /\ [DocNext]_docVars => ReadInv'
  BY ReadStep
<1>3. ReadInv => DeckIsRead /\ DocTypeOK
  BY ReadInvReads
<1> QED BY <1>1, <1>2, <1>3, PTL DEF DocSpec
-----------------------------------------------------------------------------
(* The text's behaviours of MCEditor                                       *)

\* A behaviour of MCEditor is one of its document: the steps of the files leave it alone.
LEMMA DocumentOfEditor == Spec => DocSpec
<1>1. Init => DocInit
  BY DEF Init
<1>2. [Next]_vars => [DocNext]_docVars
  BY DEF Next, FilesStep, TextStep, vars
<1> QED BY <1>1, <1>2, PTL DEF Spec, DocSpec

\* What a deck says is what is solved, or is named: of each line up to EN and each field
\* NEC reads, in any text of any lines.
THEOREM DecksAreRead == Spec => []DeckIsRead
<1>1. DocumentAssumption
  BY EditorAndDocument
<1>2. DocSpec => [](DeckIsRead /\ DocTypeOK)
  BY <1>1, DocumentRead
<1> QED BY <1>2, DocumentOfEditor, PTL

\* The editor's state, its tasks' and files', the parser's and the document's are of their
\* types.
THEOREM TypeCorrect == Spec => []TypeOK
<1>1. DocumentAssumption
  BY EditorAndDocument
<1>2. DocSpec => [](DeckIsRead /\ DocTypeOK)
  BY <1>1, DocumentRead
<1>3. Spec => [](Editor!TypeOK)
  BY EditorTypeCorrect
<1> QED BY <1>2, <1>3, DocumentOfEditor, PTL DEF TypeOK
=============================================================================
