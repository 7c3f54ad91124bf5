------------------------------ MODULE GuiProofs ------------------------------
(***************************************************************************)
(* Proofs about the desktop program's panels together (MCGui), for any     *)
(* decks, edits and solvers and any number of runs, sweeps and tasks.      *)
(*                                                                         *)
(* What holds of a panel alone (the tabs, the sweep and the viewport, each *)
(* first here) holds of the program where the program's steps are the      *)
(* panel's, or leave it alone.  What the panels share is the deck  *)
(* path and the solver: a panel nobody has used is as it started,          *)
(* whichever solver another one selects, and then the switch of its own    *)
(* reducer arm changes nothing but the solver.                             *)
(***************************************************************************)
EXTENDS MCGui, FiniteSetTheorems, SequenceTheorems, TLAPS
-----------------------------------------------------------------------------
(* The tabs and the strip by themselves, in whatever order their tasks     *)
(* answer.                                                                 *)

\* Run ids rise, so a task spawned before is told from one spawned now.
RunsMinted == \A m \in tasks : m.run <= nextRun

\* A task that would be accepted answers what its tab was last asked, for the
\* solver selected; a refresh that would be accepted answers the last one asked.
TasksAnswer ==
    \A m \in tasks :
        IF m.for = "caveats"
        THEN m.run = stripRun => m.of = refreshed
        ELSE m.run = tab[m.for].run => m.of = asked[m.for] /\ m.of.solver = solver

TabsInv == /\ RunsMinted /\ TasksAnswer
           /\ Tabs!AwaitedIsInFlight
           /\ Tabs!ShownIsOfSelectedSolver /\ Tabs!ShownIsLastAsked
                /\ Tabs!StripIsLastRefresh
-----------------------------------------------------------------------------
\* What a phase holds.
LEMMA PhaseFacts ==
    ASSUME NEW p \in Tabs!Phase
    PROVE  /\ p.at = "running" => p.run \in Tabs!RunIds
           /\ p.at # "running" => p.run = 0
           /\ p.at = "done" => p.shows \in Tabs!Result
BY DEF Tabs!Phase, Tabs!Idle, Tabs!Failed, Tabs!Running, Tabs!Done

\* Each way a phase is made makes a phase.
LEMMA PhasesMade ==
    /\ Tabs!Idle \in Tabs!Phase /\ Tabs!Failed \in Tabs!Phase
    /\ \A r \in Tabs!RunIds : Tabs!Running(r) \in Tabs!Phase
    /\ \A x \in Tabs!Result : Tabs!Done(x) \in Tabs!Phase
BY DEF Tabs!Phase

\* Every variable of the tabs keeps its type, whatever the tasks answer.
THEOREM TabsTypes ==
    ASSUME Tabs!RunsAssumption PROVE Tabs!Spec => []Tabs!TypeOK
<1> USE DEF Tabs!RunsAssumption
<1>1. Tabs!Init => Tabs!TypeOK
  BY PhasesMade DEF Tabs!Init, Tabs!TypeOK
<1>2. Tabs!TypeOK /\ [Tabs!Next]_(Tabs!vars) => Tabs!TypeOK'
  <2> SUFFICES ASSUME Tabs!TypeOK, [Tabs!Next]_(Tabs!vars) PROVE Tabs!TypeOK'
    OBVIOUS
  <2>1. ASSUME NEW d \in Decks PROVE Tabs!Of(d) \in Tabs!Result
    BY DEF Tabs!TypeOK, Tabs!Of, Tabs!Result
  <2>2. Tabs!Of(Document) \in Tabs!Result /\ Tabs!Of(deck) \in Tabs!Result
    BY <2>1 DEF Tabs!TypeOK, Tabs!Of, Tabs!Result
  <2>3. ASSUME NEW x \in Tabs!Result, nextRun + 1 <= MaxRuns
        PROVE  Tabs!RefreshTask(x) \in Tabs!Task /\ nextRun + 1 \in Tabs!RunIds
    BY <2>3 DEF Tabs!TypeOK, Tabs!RefreshTask, Tabs!Task, Tabs!RunIds
  <2>4. ASSUME NEW d \in Decks, Tabs!DeckPathChanged(d) PROVE Tabs!TypeOK'
    BY <2>4, PhasesMade DEF Tabs!TypeOK, Tabs!DeckPathChanged
  <2>5. ASSUME NEW s \in Solvers, Tabs!SolverSelected(s) PROVE Tabs!TypeOK'
    <3>1. Tabs!DiscardedTabs \in [Tabs!Tabs -> Tabs!Phase]
      BY PhasesMade DEF Tabs!DiscardedTabs
    <3>2. nextRun + 1 \in Tabs!RunIds /\ nextRun + 1 \in 0 .. MaxRuns
      BY <2>5 DEF Tabs!TypeOK, Tabs!SolverSelected, Tabs!RunIds
    <3>3. tasks' \subseteq Tabs!Task
      BY <2>2, <2>3, <2>5 DEF Tabs!TypeOK, Tabs!SolverSelected, Tabs!RunIds
    <3> QED BY <2>2, <2>5, <3>1, <3>2, <3>3
       DEF Tabs!TypeOK, Tabs!SolverSelected, Tabs!MintRefresh
  <2>6. ASSUME NEW t \in Tabs!Tabs, NEW src \in Decks \cup {Document}, Tabs!Launch(t, src)
       PROVE Tabs!TypeOK'
    <3>1. /\ nextRun + 1 \in 0 .. MaxRuns /\ nextRun + 2 \in Tabs!RunIds
          /\ nextRun + 2 \in 0 .. MaxRuns
          /\ nextRun + 1 <= MaxRuns
      BY <2>6 DEF Tabs!TypeOK, Tabs!Launch, Tabs!RunIds
    <3>2. Tabs!Of(src) \in Tabs!Result
      BY <2>1, <2>2
    <3>3. [for |-> t, run |-> nextRun + 2, of |-> Tabs!Of(src)] \in Tabs!Task
      BY <3>1, <3>2 DEF Tabs!Task
    <3>4. tasks' \subseteq Tabs!Task
      BY <2>3, <2>6, <3>1, <3>2, <3>3 DEF Tabs!TypeOK, Tabs!Launch
    <3>5. tab' \in [Tabs!Tabs -> Tabs!Phase]
         /\ asked' \in [Tabs!Tabs -> Tabs!Result \cup {None}]
      BY <2>6, <3>1, <3>2, PhasesMade DEF Tabs!TypeOK, Tabs!Launch
    <3> QED BY <2>6, <3>1, <3>2, <3>4, <3>5 DEF Tabs!TypeOK, Tabs!Launch, Tabs!MintRefresh
  <2>7. CASE Tabs!AskPatternInvalid
    <3>1. /\ nextRun + 1 \in 0 .. MaxRuns /\ nextRun + 2 \in 0 .. MaxRuns
          /\ nextRun + 1 <= MaxRuns
      BY <2>7 DEF Tabs!TypeOK, Tabs!AskPatternInvalid
    <3>2. tasks' \subseteq Tabs!Task
      BY <2>2, <2>3, <2>7, <3>1 DEF Tabs!TypeOK, Tabs!AskPatternInvalid
    <3>3. tab' \in [Tabs!Tabs -> Tabs!Phase]
         /\ asked' \in [Tabs!Tabs -> Tabs!Result \cup {None}]
      BY <2>2, <2>7, PhasesMade DEF Tabs!TypeOK, Tabs!AskPatternInvalid, Tabs!Refused
    <3> QED BY <2>2, <2>7, <3>1, <3>2, <3>3
       DEF Tabs!TypeOK, Tabs!AskPatternInvalid, Tabs!MintRefresh
  <2>8. CASE Tabs!ApplySolveInvalid
    <3>1. nextRun + 1 \in 0 .. MaxRuns /\ nextRun + 1 <= MaxRuns
      BY <2>8 DEF Tabs!TypeOK, Tabs!ApplySolveInvalid
    <3>2. tasks' \subseteq Tabs!Task
      BY <2>2, <2>3, <2>8, <3>1 DEF Tabs!TypeOK, Tabs!ApplySolveInvalid
    <3> QED BY <2>2, <2>8, <3>1, <3>2
       DEF Tabs!TypeOK, Tabs!ApplySolveInvalid, Tabs!MintRefresh
  <2>9. ASSUME NEW m \in tasks, Tabs!Complete(m) PROVE Tabs!TypeOK'
    <3>1. m \in Tabs!Task
      BY DEF Tabs!TypeOK
    <3>2. m.of \in Tabs!Result /\ m.for \in Tabs!Tabs \cup {"caveats"}
      BY <3>1 DEF Tabs!Task
    <3>3. tab' \in [Tabs!Tabs -> Tabs!Phase] /\ strip' \in Tabs!Result \cup {None}
         /\ stripRun' \in 0 .. MaxRuns
      <4>1. CASE ~Tabs!Accepted(m)
        BY <2>9, <4>1 DEF Tabs!TypeOK, Tabs!Complete
      <4>2. CASE Tabs!Accepted(m) /\ m.for = "caveats"
        BY <2>9, <3>2, <4>2 DEF Tabs!TypeOK, Tabs!Complete, Tabs!CaveatsShown
      <4>3. CASE Tabs!Accepted(m) /\ m.for # "caveats"
        <5>1. m.for \in Tabs!Tabs /\ Tabs!AnswerShown(m.for, m.of)
          BY <2>9, <3>2, <4>3 DEF Tabs!Complete
        <5> QED BY <3>2, <5>1, PhasesMade DEF Tabs!TypeOK, Tabs!AnswerShown
      <4> QED BY <4>1, <4>2, <4>3
    <3> QED BY <2>9, <3>3 DEF Tabs!TypeOK, Tabs!Complete
  <2>10. CASE UNCHANGED Tabs!vars
    BY <2>10 DEF Tabs!TypeOK, Tabs!vars
  <2>11. deck \in Decks \cup {Document} /\ Document \in Decks \cup {Document}
       /\ "solve" \in Tabs!Tabs
    BY DEF Tabs!TypeOK, Tabs!Tabs
  <2> QED BY <2>4, <2>5, <2>6, <2>7, <2>8, <2>9, <2>10, <2>11
          DEF Tabs!Next, Tabs!User, Tabs!Ask, Tabs!ApplySolve
<1> QED BY <1>1, <1>2, PTL DEF Tabs!Spec
-----------------------------------------------------------------------------
\* What a step that spawns a refresh of x, and changes nothing a tab awaits, keeps:
\* the tasks there were keep their meaning, and the new one has its own.
LEMMA StripRefreshed ==
    ASSUME Tabs!RunsAssumption, Tabs!TypeOK, TabsInv, NEW x,
           Tabs!MintRefresh(x), Tabs!RefreshTask(x) \in tasks'
    PROVE  /\ \A m \in tasks : m.for = "caveats" => m.run # stripRun'
           /\ Tabs!RefreshTask(x).run = stripRun' /\ Tabs!RefreshTask(x).of = refreshed'
           /\ Tabs!RefreshTask(x).for = "caveats"
           /\ stripRun' # 0 /\ \E m \in tasks' : m.for = "caveats" /\ m.run = stripRun'
<1>1. nextRun \in Nat /\ \A m \in tasks : m.run <= nextRun /\ m.run \in Nat
  BY DEF Tabs!RunsAssumption, Tabs!TypeOK, TabsInv, RunsMinted, Tabs!Task, Tabs!RunIds
<1>2. /\ Tabs!RefreshTask(x).run = nextRun + 1 /\ Tabs!RefreshTask(x).of = x
      /\ Tabs!RefreshTask(x).for = "caveats"
  BY DEF Tabs!RefreshTask
<1>3. stripRun' = nextRun + 1 /\ refreshed' = x
  BY DEF Tabs!MintRefresh
<1> QED BY <1>1, <1>2, <1>3

\* A tab shows the answer to the last thing it was asked, computed by the selected
\* solver; the strip, when no refresh is awaited, the answer to the last one or
\* nothing; and what is awaited has a task in flight that will report it.
THEOREM TabsAloneShowLastAsked ==
    ASSUME Tabs!RunsAssumption
    PROVE  Tabs!Spec => [](Tabs!ShownIsOfSelectedSolver /\ Tabs!ShownIsLastAsked
                       /\ Tabs!StripIsLastRefresh /\ Tabs!AwaitedIsInFlight)
<1>1. Tabs!Init => TabsInv
  BY DEF Tabs!Init, TabsInv, RunsMinted, TasksAnswer, Tabs!AwaitedIsInFlight,
      Tabs!ShownIsOfSelectedSolver,
         Tabs!ShownIsLastAsked, Tabs!StripIsLastRefresh, Tabs!Idle
<1>2. Tabs!TypeOK /\ TabsInv /\ [Tabs!Next]_(Tabs!vars) => TabsInv'
  <2> SUFFICES ASSUME Tabs!TypeOK, TabsInv, [Tabs!Next]_(Tabs!vars) PROVE TabsInv'
    OBVIOUS
  <2> USE DEF Tabs!RunsAssumption
  <2>1. /\ nextRun \in Nat /\ stripRun \in Nat
        /\ \A m \in tasks : /\ m.run \in Nat /\ m.run # 0 /\ m.run <= nextRun
                            /\ m.for \in Tabs!Tabs \cup {"caveats"} /\ m.of \in Tabs!Result
    BY DEF Tabs!TypeOK, Tabs!Task, Tabs!RunIds, TabsInv, RunsMinted
  <2>2. \A t \in Tabs!Tabs : /\ tab[t] \in Tabs!Phase
                             /\ tab[t].at = "running" => tab[t].run # 0
                             /\ tab[t].at # "running" => tab[t].run = 0
    BY PhaseFacts DEF Tabs!TypeOK, Tabs!RunIds
  <2>3. /\ Tabs!Idle.at = "idle" /\ Tabs!Idle.run = 0
        /\ Tabs!Failed.at = "failed" /\ Tabs!Failed.run = 0
        /\ \A r : Tabs!Running(r).at = "running" /\ Tabs!Running(r).run = r
        /\ \A x : Tabs!Done(x).at = "done" /\ Tabs!Done(x).run = 0 /\ Tabs!Done(x).shows = x
    BY DEF Tabs!Idle, Tabs!Failed, Tabs!Running, Tabs!Done
  <2>4. ASSUME NEW d \in Decks, Tabs!DeckPathChanged(d) PROVE TabsInv'
    <3>1. \A t \in Tabs!Tabs : tab'[t] = tab[t] \/ (tab'[t] = Tabs!Idle
         /\ tab[t] = Tabs!Failed)
      <4>1. tab \in [Tabs!Tabs -> Tabs!Phase]
        BY DEF Tabs!TypeOK
      <4>2. PICK p : p = IF tab["solve"] = Tabs!Failed THEN Tabs!Idle ELSE tab["solve"]
        OBVIOUS
      <4>3. tab' = [tab EXCEPT !["solve"] = p]
        BY <2>4, <4>2 DEF Tabs!DeckPathChanged
      <4> QED BY <4>1, <4>2, <4>3
    <3>2. /\ strip' = None
          /\ UNCHANGED <<solver, nextRun, stripRun, tasks, asked, refreshed>>
      BY <2>4 DEF Tabs!DeckPathChanged
    <3>3. TasksAnswer'
      <4> SUFFICES ASSUME NEW m \in tasks, m.for # "caveats", m.run = tab'[m.for].run
                   PROVE  m.run = tab[m.for].run
        BY <3>2 DEF TasksAnswer, TabsInv
      <4> QED BY <2>1, <2>3, <3>1
    <3>4. Tabs!AwaitedIsInFlight'
      BY <2>3, <3>1, <3>2 DEF Tabs!AwaitedIsInFlight, TabsInv
    <3>5. Tabs!ShownIsOfSelectedSolver' /\ Tabs!ShownIsLastAsked'
      BY <2>3, <3>1, <3>2 DEF Tabs!ShownIsOfSelectedSolver, Tabs!ShownIsLastAsked, TabsInv
    <3> QED BY <3>2, <3>3, <3>4, <3>5 DEF TabsInv, RunsMinted, Tabs!StripIsLastRefresh
  <2>5. ASSUME NEW s \in Solvers, Tabs!SolverSelected(s) PROVE TabsInv'
    <3> DEFINE x == Tabs!Of(deck)
    <3>1. PICK new : new = Tabs!RefreshTask(x)
      OBVIOUS
    <3>2. /\ tasks' = tasks \cup {new} /\ nextRun' = nextRun + 1 /\ asked' = asked
          /\ Tabs!MintRefresh(x) /\ new.run = nextRun + 1
      BY <2>5, <3>1 DEF Tabs!SolverSelected, Tabs!RefreshTask
    <3>3. /\ \A m \in tasks : m.for = "caveats" => m.run # stripRun'
          /\ new.run = stripRun' /\ new.of = refreshed' /\ new.for = "caveats"
          /\ stripRun' # 0 /\ \E m \in tasks' : m.for = "caveats" /\ m.run = stripRun'
      BY <3>1, <3>2, StripRefreshed
    <3>4. \A t \in Tabs!Tabs : tab'[t] = Tabs!Idle \/ (tab'[t] = tab[t] /\ solver' = solver)
      <4>1. CASE s = solver
        BY <2>5, <4>1 DEF Tabs!SolverSelected
      <4>2. CASE s # solver
        <5>1. tab' = Tabs!DiscardedTabs
          BY <2>5, <4>2 DEF Tabs!SolverSelected
        <5> QED BY <5>1 DEF Tabs!DiscardedTabs
      <4> QED BY <4>1, <4>2
    <3>5. TasksAnswer'
      <4> SUFFICES ASSUME NEW m \in tasks, m.for # "caveats", m.run = tab'[m.for].run
                   PROVE  m.of = asked[m.for] /\ m.of.solver = solver'
        BY <3>2, <3>3 DEF TasksAnswer
      <4> QED BY <2>1, <2>3, <3>4 DEF TasksAnswer, TabsInv
    <3>6. Tabs!AwaitedIsInFlight'
      BY <2>3, <3>2, <3>3, <3>4 DEF Tabs!AwaitedIsInFlight, TabsInv
    <3>7. Tabs!ShownIsOfSelectedSolver' /\ Tabs!ShownIsLastAsked'
      BY <2>3, <3>2, <3>4 DEF Tabs!ShownIsOfSelectedSolver, Tabs!ShownIsLastAsked, TabsInv
    <3>8. RunsMinted'
      BY <2>1, <3>2 DEF RunsMinted
    <3> QED BY <3>3, <3>5, <3>6, <3>7, <3>8 DEF TabsInv, Tabs!StripIsLastRefresh
  <2>6. ASSUME NEW t \in Tabs!Tabs, NEW src, Tabs!Launch(t, src) PROVE TabsInv'
    <3> DEFINE x == Tabs!Of(src)
    <3>1. PICK new, job : /\ new = Tabs!RefreshTask(x)
                          /\ job = [for |-> t, run |-> nextRun + 2, of |-> x]
      OBVIOUS
    <3>2. /\ tasks' = tasks \cup {new, job} /\ nextRun' = nextRun + 2 /\ solver' = solver
          /\ Tabs!MintRefresh(x) /\ new.run = nextRun + 1
      BY <2>6, <3>1 DEF Tabs!Launch, Tabs!RefreshTask
    <3>3. /\ \A m \in tasks : m.for = "caveats" => m.run # stripRun'
          /\ new.run = stripRun' /\ new.of = refreshed' /\ new.for = "caveats"
          /\ stripRun' # 0 /\ \E m \in tasks' : m.for = "caveats" /\ m.run = stripRun'
      BY <3>1, <3>2, StripRefreshed
    <3>4. /\ tab'[t].at = "running" /\ tab'[t].run = nextRun + 2 /\ asked'[t] = x
          /\ \A u \in Tabs!Tabs \ {t} : tab'[u] = tab[u] /\ asked'[u] = asked[u]
      BY <2>3, <2>6 DEF Tabs!Launch, Tabs!TypeOK
    <3>5. job.for = t /\ job.run = nextRun + 2 /\ job.of = x /\ job.of.solver = solver
          /\ t # "caveats"
      BY <3>1 DEF Tabs!Of, Tabs!Tabs
    <3>6. TasksAnswer'
      <4> SUFFICES ASSUME NEW m \in tasks', m.for # "caveats", m.run = tab'[m.for].run
                   PROVE  m.of = asked'[m.for] /\ m.of.solver = solver
        BY <3>2, <3>3, <3>5 DEF TasksAnswer
      <4>1. CASE m = job
        BY <3>4, <3>5, <4>1
      <4>2. CASE m \in tasks
        <5>1. m.for # t
          BY <2>1, <3>4, <4>2
        <5> QED BY <2>1, <3>4, <4>2, <5>1 DEF TasksAnswer, TabsInv
      <4> QED BY <3>2, <3>3, <4>1, <4>2
    <3>7. Tabs!AwaitedIsInFlight'
      <4>1. ASSUME NEW u \in Tabs!Tabs, tab'[u].at = "running"
            PROVE  \E m \in tasks' : m.for = u /\ m.run = tab'[u].run
        BY <3>2, <3>4, <3>5, <4>1 DEF Tabs!AwaitedIsInFlight, TabsInv
      <4> QED BY <3>3, <4>1 DEF Tabs!AwaitedIsInFlight
    <3>8. Tabs!ShownIsOfSelectedSolver' /\ Tabs!ShownIsLastAsked'
      BY <3>2, <3>4 DEF Tabs!ShownIsOfSelectedSolver, Tabs!ShownIsLastAsked, TabsInv
    <3>9. RunsMinted'
      BY <2>1, <3>2, <3>5 DEF RunsMinted
    <3> QED BY <3>3, <3>6, <3>7, <3>8, <3>9 DEF TabsInv, Tabs!StripIsLastRefresh
  <2>7. CASE Tabs!AskPatternInvalid
    <3> DEFINE x == Tabs!Of(deck)
    <3>1. PICK new : new = Tabs!RefreshTask(x)
      OBVIOUS
    <3>2. /\ tasks' = tasks \cup {new} /\ nextRun' = nextRun + 2 /\ solver' = solver
          /\ Tabs!MintRefresh(x) /\ new.run = nextRun + 1
      BY <2>7, <3>1 DEF Tabs!AskPatternInvalid, Tabs!RefreshTask
    <3>3. /\ \A m \in tasks : m.for = "caveats" => m.run # stripRun'
          /\ new.run = stripRun' /\ new.of = refreshed' /\ new.for = "caveats"
          /\ stripRun' # 0 /\ \E m \in tasks' : m.for = "caveats" /\ m.run = stripRun'
      BY <3>1, <3>2, StripRefreshed
    <3>4. /\ tab'["pattern"] = Tabs!Failed
          /\ \A u \in Tabs!Tabs \ {"pattern"} : tab'[u] = tab[u] /\ asked'[u] = asked[u]
      <4>1. /\ tab \in [Tabs!Tabs -> Tabs!Phase]
            /\ asked \in [Tabs!Tabs -> Tabs!Result \cup {None}]
            /\ "pattern" \in Tabs!Tabs
        BY DEF Tabs!TypeOK, Tabs!Tabs
      <4>2. /\ tab' = [tab EXCEPT !["pattern"] = Tabs!Failed]
            /\ asked' = [asked EXCEPT !["pattern"] = Tabs!Of(deck)]
        BY <2>7 DEF Tabs!AskPatternInvalid, Tabs!Refused
      <4> QED BY <4>1, <4>2
    <3>5. TasksAnswer'
      <4> SUFFICES ASSUME NEW m \in tasks, m.for # "caveats", m.run = tab'[m.for].run
                   PROVE  m.of = asked'[m.for] /\ m.of.solver = solver
        BY <3>2, <3>3 DEF TasksAnswer
      <4> QED BY <2>1, <2>3, <3>4 DEF TasksAnswer, TabsInv
    <3>6. Tabs!AwaitedIsInFlight'
      BY <2>3, <3>2, <3>3, <3>4 DEF Tabs!AwaitedIsInFlight, TabsInv
    <3>7. Tabs!ShownIsOfSelectedSolver' /\ Tabs!ShownIsLastAsked'
      BY <2>3, <3>2, <3>4 DEF Tabs!ShownIsOfSelectedSolver, Tabs!ShownIsLastAsked, TabsInv
    <3>8. RunsMinted'
      BY <2>1, <3>2 DEF RunsMinted
    <3> QED BY <3>3, <3>5, <3>6, <3>7, <3>8 DEF TabsInv, Tabs!StripIsLastRefresh
  <2>8. CASE Tabs!ApplySolveInvalid
    <3> DEFINE x == Tabs!Of(deck)
    <3>1. PICK new : new = Tabs!RefreshTask(x)
      OBVIOUS
    <3>2. /\ tasks' = tasks \cup {new} /\ nextRun' = nextRun + 1
          /\ UNCHANGED <<solver, tab, strip, asked>>
          /\ Tabs!MintRefresh(x) /\ new.run = nextRun + 1
      BY <2>8, <3>1 DEF Tabs!ApplySolveInvalid, Tabs!RefreshTask
    <3>3. /\ \A m \in tasks : m.for = "caveats" => m.run # stripRun'
          /\ new.run = stripRun' /\ new.of = refreshed' /\ new.for = "caveats"
          /\ stripRun' # 0 /\ \E m \in tasks' : m.for = "caveats" /\ m.run = stripRun'
      BY <3>1, <3>2, StripRefreshed
    <3>4. TasksAnswer'
      BY <3>2, <3>3 DEF TasksAnswer, TabsInv
    <3>5. Tabs!AwaitedIsInFlight' /\ Tabs!ShownIsOfSelectedSolver' /\ Tabs!ShownIsLastAsked'
      BY <3>2, <3>3
         DEF Tabs!AwaitedIsInFlight, Tabs!ShownIsOfSelectedSolver, Tabs!ShownIsLastAsked,
             TabsInv
    <3>6. RunsMinted'
      BY <2>1, <3>2 DEF RunsMinted
    <3> QED BY <3>3, <3>4, <3>5, <3>6 DEF TabsInv, Tabs!StripIsLastRefresh
  <2>9. ASSUME NEW m \in tasks, Tabs!Complete(m) PROVE TabsInv'
    <3>1. /\ tasks' = tasks \ {m}
          /\ UNCHANGED <<solver, nextRun, asked, refreshed>>
      BY <2>9 DEF Tabs!Complete
    <3>2. RunsMinted'
      BY <3>1 DEF TabsInv, RunsMinted
    <3>3. CASE ~Tabs!Accepted(m)
      <4>1. UNCHANGED <<tab, strip, stripRun>>
        BY <2>9, <3>3 DEF Tabs!Complete
      <4>2. Tabs!AwaitedIsInFlight'
        BY <3>1, <3>3, <4>1 DEF Tabs!AwaitedIsInFlight, TabsInv, Tabs!Accepted, Tabs!Tabs
      <4> QED BY <3>1, <3>2, <4>1, <4>2
              DEF TabsInv, TasksAnswer, Tabs!ShownIsOfSelectedSolver, Tabs!ShownIsLastAsked,
                  Tabs!StripIsLastRefresh
    <3>4. CASE Tabs!Accepted(m) /\ m.for = "caveats"
      <4>1. strip' \in {m.of, None} /\ stripRun' = 0 /\ tab' = tab
        BY <2>9, <3>4 DEF Tabs!Complete, Tabs!CaveatsShown
      <4>2. m.of = refreshed
        BY <3>4 DEF Tabs!Accepted, TabsInv, TasksAnswer
      <4>3. Tabs!AwaitedIsInFlight'
        BY <3>1, <3>4, <4>1 DEF Tabs!AwaitedIsInFlight, TabsInv, Tabs!Tabs
      <4>4. TasksAnswer'
        BY <2>1, <3>1, <4>1 DEF TasksAnswer, TabsInv
      <4> QED BY <3>1, <3>2, <4>1, <4>2, <4>3, <4>4
              DEF TabsInv, Tabs!ShownIsOfSelectedSolver, Tabs!ShownIsLastAsked,
                  Tabs!StripIsLastRefresh
    <3>5. CASE Tabs!Accepted(m) /\ m.for # "caveats"
      <4>1. m.for \in Tabs!Tabs /\ m.of = asked[m.for] /\ m.of.solver = solver
        BY <2>1, <3>5 DEF Tabs!Accepted, TabsInv, TasksAnswer
      <4>2. Tabs!AnswerShown(m.for, m.of)
        BY <2>9, <3>5 DEF Tabs!Complete
      <4>3. /\ tab'[m.for] \in {Tabs!Done(m.of), Tabs!Failed}
            /\ \A u \in Tabs!Tabs \ {m.for} : tab'[u] = tab[u]
            /\ UNCHANGED <<strip, stripRun>>
        BY <4>1, <4>2 DEF Tabs!AnswerShown, Tabs!TypeOK
      <4>4. tab'[m.for].at # "running" /\ tab'[m.for].run = 0
        BY <2>3, <4>3
      <4>5. Tabs!AwaitedIsInFlight'
        BY <3>1, <3>5, <4>3, <4>4 DEF Tabs!AwaitedIsInFlight, TabsInv
      <4>6. TasksAnswer'
        BY <2>1, <3>1, <4>3, <4>4 DEF TasksAnswer, TabsInv
      <4>7. Tabs!ShownIsOfSelectedSolver' /\ Tabs!ShownIsLastAsked'
        BY <2>3, <3>1, <4>1, <4>3
           DEF Tabs!ShownIsOfSelectedSolver, Tabs!ShownIsLastAsked, TabsInv
      <4> QED BY <3>1, <3>2, <4>3, <4>5, <4>6, <4>7 DEF TabsInv, Tabs!StripIsLastRefresh
    <3> QED BY <3>3, <3>4, <3>5
  <2>10. CASE UNCHANGED Tabs!vars
    BY <2>10
       DEF Tabs!vars, TabsInv, RunsMinted, TasksAnswer, Tabs!AwaitedIsInFlight,
           Tabs!ShownIsOfSelectedSolver,
                 Tabs!ShownIsLastAsked, Tabs!StripIsLastRefresh
  <2>11. "solve" \in Tabs!Tabs
    BY DEF Tabs!Tabs
  <2> QED BY <2>4, <2>5, <2>6, <2>7, <2>8, <2>9, <2>10, <2>11
          DEF Tabs!Next, Tabs!User, Tabs!Ask, Tabs!ApplySolve
<1>3. TabsInv => Tabs!ShownIsOfSelectedSolver /\ Tabs!ShownIsLastAsked
              /\ Tabs!StripIsLastRefresh /\ Tabs!AwaitedIsInFlight
  BY DEF TabsInv
<1> QED BY <1>1, <1>2, <1>3, TabsTypes, PTL DEF Tabs!Spec
-----------------------------------------------------------------------------
(* The sweep by itself, whichever of its streams' messages come first.     *)

Mine(r, kind) == [run |-> r, kind |-> kind]

\* The first n points of a sweep.
FirstOf(r, n) == [i \in 1 .. n |-> [run |-> r, at |-> i]]

\* Run ids are used once.
StreamsDistinct == /\ run <= nextSweep
                   /\ \A s \in streams : s.run <= nextSweep
                   /\ \A s, t \in streams : s.run = t.run => s = t

\* What is awaited has a stream that reports it, of the solver selected.
Awaited == run # 0 => sweepOf[run] = solver /\ \E s \in streams : s.run = run

\* How far the stream of the sweep awaited has come is what the screen shows of it.
InStep(s) ==
    /\ points = FirstOf(s.run, s.next - 1)
    /\ phase = IF s.next = 1 THEN "running" ELSE "streaming"
    /\ s.stage \in {"prepare", "geometry"} => s.next = 1 /\ caveats = <<>>
    /\ s.stage \in {"points", "aggregate"} => caveats = <<Mine(s.run, "geometry")>>
    /\ s.stage = "end" => /\ caveats = <<Mine(s.run, "geometry"), Mine(s.run, "aggregate")>>
                          /\ s.failed \/ s.next = Points + 1
    /\ s.stage = "aggregate" => s.failed \/ s.next = Points + 1

StreamsInStep == \A s \in streams : s.run = run => InStep(s)

\* What is left when nothing is awaited.
SweepSettled ==
    /\ points # <<>> =>
         \E r \in Sweep!RunIds : /\ points = FirstOf(r, Len(points)) /\ sweepOf[r] = solver
                                 /\ caveats = <<Mine(r, "geometry"), Mine(r, "aggregate")>>
    /\ phase = "done" => Len(points) = Points

SweepInv == /\ StreamsDistinct /\ Awaited /\ StreamsInStep
            /\ run = 0 => SweepSettled
-----------------------------------------------------------------------------
\* The first n points of a sweep are n points, in order, and the next one extends them.
LEMMA FirstOfFacts ==
    ASSUME NEW r, NEW n \in Nat
    PROVE  /\ FirstOf(r, 0) = <<>>
           /\ n # 0 => FirstOf(r, n) # <<>>
           /\ Len(FirstOf(r, n)) = n
           /\ \A i \in 1 .. n : FirstOf(r, n)[i] = [run |-> r, at |-> i]
           /\ Append(FirstOf(r, n), [run |-> r, at |-> n + 1]) = FirstOf(r, n + 1)
<1> DEFINE f == FirstOf(r, n)
           g == FirstOf(r, n + 1)
           p(i) == [run |-> r, at |-> i]
           S == {p(i) : i \in 1 .. n + 1}
<1>1. f \in Seq(S) /\ Len(f) = n /\ \A i \in 1 .. n : f[i] = p(i)
  <2>1. f \in [1 .. n -> S]
    BY DEF FirstOf
  <2>2. QED BY <2>1 DEF FirstOf
<1>2. g \in Seq(S) /\ Len(g) = n + 1 /\ \A i \in 1 .. n + 1 : g[i] = p(i)
  <2>1. g \in [1 .. n + 1 -> S]
    BY DEF FirstOf
  <2>2. QED BY <2>1 DEF FirstOf
<1>3. FirstOf(r, 0) = <<>>
  BY DEF FirstOf
<1> HIDE DEF f, g
<1>4. PICK e \in S : e = p(n + 1)
  <2>1. p(n + 1) \in S
    OBVIOUS
  <2> HIDE DEF S, p
  <2> QED BY <2>1
<1>5. Append(f, e) = g
  <2> HIDE DEF S, p
  <2>1. /\ Append(f, e) \in Seq(S) /\ Len(Append(f, e)) = n + 1
        /\ Append(f, e)[n + 1] = e
        /\ \A i \in 1 .. n : Append(f, e)[i] = f[i]
    BY <1>1, AppendProperties
  <2>2. \A i \in 1 .. n + 1 : Append(f, e)[i] = g[i]
    BY <2>1, <1>1, <1>2, <1>4
  <2>3. QED BY <2>1, <2>2, <1>2, SeqEqual
<1>6. n # 0 => f # <<>>
  BY <1>1
<1> QED BY <1>1, <1>3, <1>4, <1>5, <1>6 DEF f, g

\* The first 0 points of a sweep are none.
LEMMA FirstOfNone == ASSUME NEW r PROVE FirstOf(r, 0) = <<>>
BY FirstOfFacts

\* What a point says, whichever way the points are known to be the first of a sweep.
LEMMA FirstPoints ==
    ASSUME NEW r, NEW n \in Nat, points = FirstOf(r, n)
    PROVE  /\ Len(points) = n
           /\ \A i \in 1 .. n : points[i] = [run |-> r, at |-> i]
           /\ points # <<>> => n # 0 /\ points[1].run = r
<1>1. /\ Len(points) = n
      /\ \A i \in 1 .. n : points[i] = [run |-> r, at |-> i]
  BY FirstOfFacts
<1>2. ASSUME points # <<>> PROVE n # 0
  BY <1>2, FirstOfNone
<1>3. n # 0 => points[1].run = r
  BY <1>1
<1> QED BY <1>1, <1>2, <1>3
-----------------------------------------------------------------------------
\* Every variable keeps its type, whatever the streams send.
THEOREM SweepTypes ==
    ASSUME Sweep!SweepAssumption PROVE Sweep!Spec => []Sweep!TypeOK
<1> USE DEF Sweep!SweepAssumption, Sweep!RunIds, Sweep!Stages
<1>1. Sweep!Init => Sweep!TypeOK
  BY DEF Sweep!Init, Sweep!TypeOK
<1>2. Sweep!TypeOK /\ [Sweep!Next]_(Sweep!vars) => Sweep!TypeOK'
  <2> SUFFICES ASSUME Sweep!TypeOK, [Sweep!Next]_(Sweep!vars) PROVE Sweep!TypeOK'
    OBVIOUS
  <2>1. CASE Sweep!RunSweep
    <3>1. /\ nextSweep' = nextSweep + 1 /\ nextSweep + 1 \in Sweep!RunIds /\ solver' \in Solvers
          /\ phase' = "running" /\ run' = nextSweep + 1 /\ points' = <<>> /\ caveats' = <<>>
      BY <2>1 DEF Sweep!TypeOK, Sweep!RunSweep, Sweep!Minted, Sweep!MayRun
    <3>2. sweepOf' \in [Sweep!RunIds -> Solvers]
      BY <2>1, <3>1 DEF Sweep!TypeOK, Sweep!RunSweep, Sweep!Minted
    <3>3. streams' \subseteq [run : Sweep!RunIds, stage : Sweep!Stages, next : 1 .. Points + 1,
                              failed : BOOLEAN]
      <4>1. [run |-> nextSweep + 1, stage |-> "prepare", next |-> 1, failed |-> FALSE]
              \in [run : Sweep!RunIds, stage : Sweep!Stages, next : 1 .. Points + 1, failed : BOOLEAN]
        BY <3>1
      <4> QED BY <2>1, <4>1 DEF Sweep!TypeOK, Sweep!RunSweep
    <3> QED BY <3>1, <3>2, <3>3 DEF Sweep!TypeOK
  <2>2. CASE Sweep!RunSweepRefused
    BY <2>2 DEF Sweep!TypeOK, Sweep!RunSweepRefused, Sweep!Minted, Sweep!MayRun
  <2>3. ASSUME NEW x \in Solvers, Sweep!SolverSelected(x) PROVE Sweep!TypeOK'
    BY <2>3 DEF Sweep!TypeOK, Sweep!SolverSelected, Sweep!Discard
  <2>4. ASSUME NEW s \in streams, Sweep!Step(s) PROVE Sweep!TypeOK'
    <3> DEFINE screen == <<phase, run, points, caveats>>
               ScreenOK == /\ phase \in {"idle", "running", "streaming", "done", "failed"}
                           /\ run \in 0 .. MaxSweeps
                           /\ (run # 0) = (phase \in {"running", "streaming"})
                           /\ points \in Seq([run : Sweep!RunIds, at : 1 .. Points])
                           /\ caveats \in Seq([run : Sweep!RunIds, kind : {"geometry", "aggregate"}])
               Stream == [run : Sweep!RunIds, stage : Sweep!Stages, next : 1 .. Points + 1, failed : BOOLEAN]
    <3>1. s \in Stream /\ ScreenOK
      BY DEF Sweep!TypeOK
    <3>2. UNCHANGED screen => ScreenOK'
      BY <3>1
    <3>3. Sweep!SweepFailed(s) => ScreenOK'
      BY <3>1, <3>2 DEF Sweep!SweepFailed, Sweep!RunAfterEnd, Sweep!PointsKept
    <3>4. Sweep!SweepStreamDone(s) => ScreenOK'
      BY <3>1, <3>2 DEF Sweep!SweepStreamDone, Sweep!RunAfterEnd
    <3>5. ASSUME NEW k \in {"geometry", "aggregate"} PROVE Sweep!SweepCaveats(s, k) => ScreenOK'
      <4>1. [run |-> s.run, kind |-> k] \in [run : Sweep!RunIds, kind : {"geometry", "aggregate"}]
        BY <3>1
      <4>2. Append(caveats, [run |-> s.run, kind |-> k])
              \in Seq([run : Sweep!RunIds, kind : {"geometry", "aggregate"}])
        BY <3>1, <4>1, AppendProperties
      <4> QED BY <3>1, <3>2, <4>2 DEF Sweep!SweepCaveats
    <3>6. s.next <= Points /\ Sweep!SweepPointComputed(s) => ScreenOK'
      <4> SUFFICES ASSUME s.next <= Points, Sweep!SweepPointComputed(s) PROVE ScreenOK'
        OBVIOUS
      <4>1. [run |-> s.run, at |-> s.next] \in [run : Sweep!RunIds, at : 1 .. Points]
        BY <3>1
      <4>2. Append(points, [run |-> s.run, at |-> s.next]) \in Seq([run : Sweep!RunIds, at : 1 .. Points])
        BY <3>1, <4>1, AppendProperties
      <4>3. CASE Sweep!Accepts(s)
        <5>1. phase' = "streaming" /\ run' = s.run /\ caveats' = caveats
              /\ points' = Append(points, [run |-> s.run, at |-> s.next])
          BY <4>3 DEF Sweep!SweepPointComputed
        <5>2. s.run \in 1 .. MaxSweeps
          BY <3>1
        <5> QED BY <3>1, <4>2, <5>1, <5>2
      <4> QED BY <3>1, <3>2, <4>3 DEF Sweep!SweepPointComputed
    <3>7. ScreenOK'
      <4> HIDE DEF ScreenOK
      <4> QED BY <2>4, <3>2, <3>3, <3>4, <3>5, <3>6
           DEF Sweep!Step, Sweep!PrepareFails, Sweep!Prepared, Sweep!SendGeometryCaveats,
               Sweep!SendPoint, Sweep!PointFails,
               Sweep!PointsDone, Sweep!SendAggregate, Sweep!Aggregate, Sweep!SendEnd, Sweep!Close
    <3>8. streams' \subseteq Stream
      <4>1. streams \subseteq Stream
        BY DEF Sweep!TypeOK
      <4>2. ASSUME NEW t \in Stream PROVE Sweep!Becomes(s, t) => streams' \subseteq Stream
        BY <4>1 DEF Sweep!Becomes
      <4>3. Sweep!Ends(s) => streams' \subseteq Stream
        BY <4>1 DEF Sweep!Ends
      <4>4. /\ \A g \in Sweep!Stages : [s EXCEPT !.stage = g] \in Stream
            /\ s.next <= Points => [s EXCEPT !.next = @ + 1] \in Stream
            /\ [s EXCEPT !.stage = "aggregate", !.failed = TRUE] \in Stream
        <5>1. \A g \in Sweep!Stages : [s EXCEPT !.stage = g] \in Stream
          BY <3>1
        <5>2. ASSUME s.next <= Points PROVE [s EXCEPT !.next = @ + 1] \in Stream
          <6>1. s.next + 1 \in 1 .. Points + 1
            BY <3>1, <5>2
          <6>2. \A n \in 1 .. Points + 1 : [s EXCEPT !.next = n] \in Stream
            BY <3>1
          <6> QED BY <6>1, <6>2
        <5>3. [[s EXCEPT !.stage = "aggregate"] EXCEPT !.failed = TRUE] \in Stream
          <6>1. ASSUME NEW x \in Stream PROVE [x EXCEPT !.failed = TRUE] \in Stream
            OBVIOUS
          <6>2. [s EXCEPT !.stage = "aggregate"] \in Stream
            BY <5>1
          <6> HIDE DEF Stream
          <6> QED BY <6>1, <6>2
        <5>4. [s EXCEPT !.stage = "aggregate", !.failed = TRUE]
                = [[s EXCEPT !.stage = "aggregate"] EXCEPT !.failed = TRUE]
          OBVIOUS
        <5> QED BY <5>1, <5>2, <5>3, <5>4
      <4>5. \/ Sweep!Ends(s)
            \/ \E g \in {"geometry", "points", "aggregate", "end"} :
                 Sweep!Becomes(s, [s EXCEPT !.stage = g])
            \/ s.next <= Points /\ Sweep!Becomes(s, [s EXCEPT !.next = @ + 1])
            \/ Sweep!Becomes(s, [s EXCEPT !.stage = "aggregate", !.failed = TRUE])
        <5> HIDE DEF Sweep!Stages
        <5> QED BY <2>4, Zenon DEF Sweep!Step, Sweep!PrepareFails, Sweep!Prepared,
                                   Sweep!SendGeometryCaveats, Sweep!SendPoint,
                                   Sweep!PointFails, Sweep!PointsDone, Sweep!SendAggregate,
                                   Sweep!SendEnd
      <4> HIDE DEF Stream
      <4>6. ASSUME NEW g \in {"geometry", "points", "aggregate", "end"},
                   Sweep!Becomes(s, [s EXCEPT !.stage = g])
            PROVE  streams' \subseteq Stream
        BY <4>2, <4>4, <4>6
      <4>7. CASE s.next <= Points /\ Sweep!Becomes(s, [s EXCEPT !.next = @ + 1])
        BY <4>2, <4>4, <4>7
      <4>8. CASE Sweep!Becomes(s, [s EXCEPT !.stage = "aggregate", !.failed = TRUE])
        BY <4>2, <4>4, <4>8
      <4> QED BY <4>3, <4>5, <4>6, <4>7, <4>8
    <3>9. UNCHANGED <<solver, nextSweep, sweepOf>>
      BY <2>4 DEF Sweep!Step
    <3> QED BY <3>7, <3>8, <3>9 DEF Sweep!TypeOK
  <2>5. CASE UNCHANGED Sweep!vars
    BY <2>5 DEF Sweep!TypeOK, Sweep!vars
  <2> QED BY <2>1, <2>2, <2>3, <2>4, <2>5 DEF Sweep!Next
<1> QED BY <1>1, <1>2, PTL DEF Sweep!Spec
-----------------------------------------------------------------------------
\* A stream that sends a message and goes on.
LEMMA GoesOn ==
    ASSUME Sweep!SweepAssumption, Sweep!TypeOK, SweepInv, NEW s \in streams, NEW t, t.run = s.run,
           Sweep!Becomes(s, t), UNCHANGED <<solver, nextSweep, sweepOf>>,
           \/ s.run # run /\ UNCHANGED <<phase, run, points, caveats>>
           \/ s.run = run /\ run' = run /\ InStep(t)'
    PROVE  SweepInv'
<1>1. s.run # 0
  BY DEF Sweep!TypeOK, Sweep!RunIds, Sweep!SweepAssumption
<1>2. run' = run
  OBVIOUS
<1>3. StreamsDistinct'
  BY <1>2 DEF SweepInv, StreamsDistinct, Sweep!Becomes
<1>4. Awaited'
  BY <1>2 DEF SweepInv, Awaited, Sweep!Becomes
<1>5. StreamsInStep'
  <2> SUFFICES ASSUME NEW x \in streams', x.run = run PROVE InStep(x)'
    BY <1>2 DEF StreamsInStep
  <2>1. CASE s.run = run
    <3>1. x = t
      BY <2>1 DEF SweepInv, StreamsDistinct, Sweep!Becomes
    <3> QED BY <2>1, <3>1
  <2>2. CASE s.run # run
    <3>1. x \in streams /\ UNCHANGED <<phase, points, caveats>>
      BY <2>2 DEF Sweep!Becomes
    <3>2. InStep(x)
      BY <3>1 DEF SweepInv, StreamsInStep
    <3> QED BY <3>1, <3>2 DEF InStep
  <2> QED BY <2>1, <2>2
<1>6. run' = 0 => SweepSettled'
  BY <1>1, <1>2 DEF SweepInv, SweepSettled
<1> QED BY <1>3, <1>4, <1>5, <1>6 DEF SweepInv

\* A stream that ends, and with it what it was awaited for.
LEMMA Stops ==
    ASSUME Sweep!SweepAssumption, Sweep!TypeOK, SweepInv, NEW s \in streams,
           Sweep!Ends(s), UNCHANGED <<solver, nextSweep, sweepOf>>,
           \/ s.run # run /\ UNCHANGED <<phase, run, points, caveats>>
           \/ s.run = run /\ run' = 0 /\ SweepSettled'
    PROVE  SweepInv'
<1>1. \A x \in streams' : x \in streams /\ x # s
  BY DEF Sweep!Ends
<1>2. run' \in {run, 0} /\ run' <= nextSweep
  BY DEF SweepInv, StreamsDistinct, Sweep!TypeOK, Sweep!SweepAssumption
<1>3. StreamsDistinct'
  BY <1>1, <1>2 DEF SweepInv, StreamsDistinct
<1>4. Awaited'
  BY DEF SweepInv, Awaited, Sweep!Ends
<1>5. StreamsInStep'
  <2> SUFFICES ASSUME NEW x \in streams', x.run = run' PROVE InStep(x)'
    BY DEF StreamsInStep
  <2>1. x.run # 0
    BY <1>1 DEF Sweep!TypeOK, Sweep!RunIds, Sweep!SweepAssumption
  <2>2. run' = run /\ UNCHANGED <<phase, points, caveats>>
    BY <2>1
  <2>3. InStep(x)
    BY <1>1, <2>2 DEF SweepInv, StreamsInStep
  <2> QED BY <2>2, <2>3 DEF InStep
<1>6. run' = 0 => SweepSettled'
  BY DEF SweepInv, SweepSettled
<1> QED BY <1>3, <1>4, <1>5, <1>6 DEF SweepInv

\* Append at its smallest.
LEMMA AppendToOne ==
    ASSUME NEW a, NEW b PROVE Append(<<a>>, b) = <<a, b>>
<1>1. <<a>> \in Seq({a, b}) /\ <<a, b>> \in Seq({a, b}) /\ Len(<<a>>) = 1 /\ Len(<<a, b>>) = 2
  OBVIOUS
<1>2. /\ Append(<<a>>, b) \in Seq({a, b}) /\ Len(Append(<<a>>, b)) = 2
      /\ Append(<<a>>, b)[1] = a /\ Append(<<a>>, b)[2] = b
  BY <1>1, AppendProperties
<1>3. \A i \in 1 .. 2 : Append(<<a>>, b)[i] = <<a, b>>[i]
  BY <1>2
<1> QED BY <1>1, <1>2, <1>3, SeqEqual

\* One message of any stream.
LEMMA StreamStep ==
    ASSUME Sweep!SweepAssumption, Sweep!TypeOK, SweepInv, NEW s \in streams, Sweep!Step(s)
    PROVE  SweepInv'
<1> DEFINE same == UNCHANGED <<phase, run, points, caveats>>
           here(t) == s.run = run /\ run' = run /\ InStep(t)'
<1>1. /\ s.run \in 1 .. MaxSweeps /\ s.next \in 1 .. Points + 1 /\ s.failed \in BOOLEAN
      /\ s = [run |-> s.run, stage |-> s.stage, next |-> s.next, failed |-> s.failed]
      /\ Points \in Nat \ {0} /\ s.next - 1 \in Nat
  BY DEF Sweep!TypeOK, Sweep!RunIds, Sweep!SweepAssumption
<1>2. UNCHANGED <<solver, nextSweep, sweepOf>>
  BY DEF Sweep!Step
<1>3. s.run = run => InStep(s)
  BY DEF SweepInv, StreamsInStep
<1>4. Sweep!SweepFailed(s) /\ s.run # run => same
  BY DEF Sweep!SweepFailed, Sweep!Accepts
<1>5. CASE Sweep!PrepareFails(s)
  <2>1. ASSUME s.run = run PROVE run' = 0 /\ SweepSettled'
    <3>1. points = FirstOf(s.run, s.next - 1) /\ s.next = 1
      BY <1>3, <1>5, <2>1 DEF Sweep!PrepareFails, InStep
    <3>2. s.next - 1 = 0
      BY <3>1
    <3>3. points = <<>>
      BY <3>1, <3>2, FirstOfNone
    <3>4. points' = <<>> /\ phase' = "failed" /\ run' = 0
      BY <1>5, <2>1, <3>3 DEF Sweep!PrepareFails, Sweep!SweepFailed, Sweep!Accepts,
                              Sweep!RunAfterEnd, Sweep!PointsKept
    <3> QED BY <3>4 DEF SweepSettled
  <2> QED BY <1>2, <1>4, <1>5, <2>1, Stops DEF Sweep!PrepareFails
<1>6. CASE Sweep!Prepared(s)
  <2> DEFINE t == [s EXCEPT !.stage = "geometry"]
  <2>1. s.run = run => here(t)
    BY <1>1, <1>3, <1>6 DEF Sweep!Prepared, InStep
  <2>2. t.run = s.run /\ Sweep!Becomes(s, t) /\ same
    BY <1>1, <1>6 DEF Sweep!Prepared
  <2> HIDE DEF t
  <2> QED BY <1>2, <2>1, <2>2, GoesOn
<1>7. CASE Sweep!SendGeometryCaveats(s)
  <2> DEFINE t == [s EXCEPT !.stage = "points"]
  <2>1. s.run = run => here(t)
    <3> SUFFICES ASSUME s.run = run PROVE here(t)
      OBVIOUS
    <3>1. UNCHANGED <<phase, run, points>> /\ caveats' = Append(<<>>, Mine(s.run, "geometry"))
      BY <1>3, <1>7 DEF Sweep!SendGeometryCaveats, Sweep!SweepCaveats, Sweep!Accepts, InStep, Mine
    <3>2. Append(<<>>, Mine(s.run, "geometry")) = <<Mine(s.run, "geometry")>>
      OBVIOUS
    <3> QED BY <1>1, <1>3, <1>7, <3>1, <3>2 DEF Sweep!SendGeometryCaveats, InStep
  <2>2. t.run = s.run /\ Sweep!Becomes(s, t) /\ (s.run # run => same)
    BY <1>1, <1>7 DEF Sweep!SendGeometryCaveats, Sweep!SweepCaveats, Sweep!Accepts
  <2> HIDE DEF t
  <2> QED BY <1>2, <2>1, <2>2, GoesOn
<1>8. CASE Sweep!SendPoint(s)
  <2> DEFINE t == [s EXCEPT !.next = @ + 1]
  <2>1. s.run = run => here(t)
    <3> SUFFICES ASSUME s.run = run PROVE here(t)
      OBVIOUS
    <3>1. /\ phase' = "streaming" /\ run' = run /\ caveats' = caveats
          /\ points' = Append(points, [run |-> s.run, at |-> s.next])
      BY <1>8 DEF Sweep!SendPoint, Sweep!SweepPointComputed, Sweep!Accepts
    <3>2. points' = FirstOf(s.run, s.next)
      BY <1>1, <1>3, <3>1, FirstOfFacts DEF InStep
    <3>3. t.next = s.next + 1 /\ t.run = s.run /\ t.stage = "points"
      BY <1>1, <1>8 DEF Sweep!SendPoint
    <3> HIDE DEF t
    <3> QED BY <1>1, <1>3, <1>8, <3>1, <3>2, <3>3 DEF Sweep!SendPoint, InStep
  <2>2. t.run = s.run /\ Sweep!Becomes(s, t) /\ (s.run # run => same)
    BY <1>1, <1>8 DEF Sweep!SendPoint, Sweep!SweepPointComputed, Sweep!Accepts
  <2> HIDE DEF t
  <2> QED BY <1>2, <2>1, <2>2, GoesOn
<1>9. CASE Sweep!PointFails(s)
  <2> DEFINE t == [s EXCEPT !.stage = "aggregate", !.failed = TRUE]
  <2>1. t.run = s.run /\ t.next = s.next /\ t.stage = "aggregate" /\ t.failed
    BY <1>1
  <2>2. Sweep!Becomes(s, t) /\ same
    BY <1>9 DEF Sweep!PointFails
  <2> HIDE DEF t
  <2>3. s.run = run => here(t)
    BY <1>1, <1>3, <1>9, <2>1, <2>2 DEF Sweep!PointFails, InStep
  <2> QED BY <1>2, <2>1, <2>2, <2>3, GoesOn
<1>10. CASE Sweep!PointsDone(s)
  <2> DEFINE t == [s EXCEPT !.stage = "aggregate"]
  <2>1. t.run = s.run /\ t.next = s.next /\ t.stage = "aggregate" /\ t.failed = s.failed
    BY <1>1
  <2>2. Sweep!Becomes(s, t) /\ same /\ s.next = Points + 1
    BY <1>1, <1>10 DEF Sweep!PointsDone
  <2> HIDE DEF t
  <2>3. s.run = run => here(t)
    BY <1>1, <1>3, <1>10, <2>1, <2>2 DEF Sweep!PointsDone, InStep
  <2> QED BY <1>2, <2>1, <2>2, <2>3, GoesOn
<1>11. CASE Sweep!SendAggregate(s)
  <2> DEFINE t == [s EXCEPT !.stage = "end"]
  <2>1. t.run = s.run /\ t.next = s.next /\ t.stage = "end" /\ t.failed = s.failed
    BY <1>1
  <2>2. Sweep!Becomes(s, t) /\ (s.run # run => same)
    BY <1>11 DEF Sweep!SendAggregate, Sweep!Aggregate, Sweep!SweepCaveats, Sweep!Accepts
  <2> HIDE DEF t
  <2>3. s.run = run => here(t)
    <3> SUFFICES ASSUME s.run = run PROVE here(t)
      OBVIOUS
    <3>1. /\ UNCHANGED <<phase, run, points>>
          /\ caveats' = Append(<<Mine(s.run, "geometry")>>, Mine(s.run, "aggregate"))
      BY <1>3, <1>11 DEF Sweep!SendAggregate, Sweep!Aggregate, Sweep!SweepCaveats, Sweep!Accepts,
                         InStep, Mine
    <3>2. Append(<<Mine(s.run, "geometry")>>, Mine(s.run, "aggregate"))
            = <<Mine(s.run, "geometry"), Mine(s.run, "aggregate")>>
      BY AppendToOne
    <3> QED BY <1>1, <1>3, <1>11, <2>1, <3>1, <3>2 DEF Sweep!SendAggregate, InStep
  <2> QED BY <1>2, <2>1, <2>2, <2>3, GoesOn
<1>12. CASE Sweep!SendEnd(s)
  <2>1. ASSUME s.run = run PROVE run' = 0 /\ SweepSettled'
    <3>1. /\ points = FirstOf(s.run, s.next - 1) /\ Len(points) = s.next - 1
          /\ caveats = <<Mine(s.run, "geometry"), Mine(s.run, "aggregate")>>
          /\ s.failed \/ s.next = Points + 1
          /\ phase = IF s.next = 1 THEN "running" ELSE "streaming"
      <4>1. InStep(s) /\ s.stage = "end"
        BY <1>3, <1>12, <2>1 DEF Sweep!SendEnd
      <4>2. Len(FirstOf(s.run, s.next - 1)) = s.next - 1
        BY <1>1, FirstOfFacts
      <4> QED BY <4>1, <4>2 DEF InStep
    <3>2. /\ run' = 0 /\ points' = points /\ caveats' = caveats
          /\ phase' = IF s.failed THEN "failed" ELSE "done"
      BY <1>1, <1>12, <2>1, <3>1
         DEF Sweep!SendEnd, Sweep!Close, Sweep!SweepFailed, Sweep!SweepStreamDone, Sweep!Accepts,
             Sweep!RunAfterEnd, Sweep!PointsKept
    <3>3. sweepOf'[s.run] = solver' /\ s.run \in Sweep!RunIds
      BY <1>1, <1>2, <2>1 DEF SweepInv, Awaited, Sweep!RunIds
    <3> QED BY <1>1, <3>1, <3>2, <3>3 DEF SweepSettled
  <2>2. s.run # run => same
    BY <1>12 DEF Sweep!SendEnd, Sweep!Close, Sweep!SweepFailed, Sweep!SweepStreamDone,
                 Sweep!Accepts
  <2> QED BY <1>2, <1>12, <2>1, <2>2, Stops DEF Sweep!SendEnd
<1> QED BY <1>5, <1>6, <1>7, <1>8, <1>9, <1>10, <1>11, <1>12 DEF Sweep!Step
-----------------------------------------------------------------------------
\* However the streams interleave, the screen keeps step with the one awaited.
LEMMA SweepInvariant ==
    ASSUME Sweep!SweepAssumption PROVE Sweep!Spec => []SweepInv
<1>1. Sweep!Init => SweepInv
  BY DEF Sweep!Init, SweepInv, StreamsDistinct, Awaited, StreamsInStep, SweepSettled
<1>2. Sweep!TypeOK /\ SweepInv /\ [Sweep!Next]_(Sweep!vars) => SweepInv'
  <2> SUFFICES ASSUME Sweep!TypeOK, SweepInv, [Sweep!Next]_(Sweep!vars) PROVE SweepInv'
    OBVIOUS
  <2>1. CASE Sweep!RunSweep
    <3> DEFINE r == nextSweep + 1
    <3>0. PICK t : t = [run |-> r, stage |-> "prepare", next |-> 1, failed |-> FALSE]
      OBVIOUS
    <3>1. /\ r \in Sweep!RunIds /\ nextSweep' = r /\ run' = r /\ solver' = solver /\ phase' = "running"
          /\ points' = <<>> /\ caveats' = <<>> /\ sweepOf'[r] = solver /\ r # 0
          /\ streams' = streams \cup {t}
      BY <2>1, <3>0 DEF Sweep!RunSweep, Sweep!Minted, Sweep!MayRun, Sweep!TypeOK, Sweep!RunIds,
                        Sweep!SweepAssumption
    <3>2. \A x \in streams : x.run <= nextSweep /\ x.run \in Nat /\ x.run # r
      BY DEF SweepInv, StreamsDistinct, Sweep!TypeOK, Sweep!RunIds, Sweep!SweepAssumption
    <3>3. t.run = r /\ t.next = 1 /\ t.stage = "prepare"
      BY <3>0
    <3>4. StreamsDistinct'
      BY <3>1, <3>2, <3>3 DEF SweepInv, StreamsDistinct, Sweep!TypeOK, Sweep!RunIds,
                              Sweep!SweepAssumption
    <3>5. Awaited'
      BY <3>1, <3>3 DEF Awaited
    <3>6. InStep(t)'
      <4>1. t.next - 1 = 0 /\ FirstOf(t.run, 0) = <<>>
        BY <3>3, FirstOfNone
      <4> QED BY <3>1, <3>3, <4>1 DEF InStep
    <3>7. StreamsInStep'
      <4> SUFFICES ASSUME NEW x \in streams', x.run = run' PROVE InStep(x)'
        BY DEF StreamsInStep
      <4>1. x = t
        BY <3>1, <3>2
      <4> QED BY <3>6, <4>1
    <3> QED BY <3>1, <3>4, <3>5, <3>7 DEF SweepInv
  <2>2. CASE Sweep!RunSweepRefused
    <3>1. /\ nextSweep' = nextSweep + 1 /\ run' = 0 /\ phase' = "failed" /\ points' = <<>>
          /\ streams' = streams
      BY <2>2 DEF Sweep!RunSweepRefused, Sweep!Minted
    <3>2. nextSweep \in Nat /\ \A x \in streams : x.run \in 1 .. MaxSweeps
      BY DEF Sweep!TypeOK, Sweep!RunIds, Sweep!SweepAssumption
    <3>3. StreamsDistinct'
      BY <3>1, <3>2 DEF SweepInv, StreamsDistinct
    <3>4. StreamsInStep'
      BY <3>1, <3>2 DEF StreamsInStep
    <3> QED BY <3>1, <3>3, <3>4 DEF SweepInv, Awaited, SweepSettled
  <2>3. ASSUME NEW x \in Solvers, Sweep!SolverSelected(x) PROVE SweepInv'
    <3>1. /\ run' = 0 /\ phase' = "idle" /\ points' = <<>>
          /\ UNCHANGED <<nextSweep, streams>>
      BY <2>3 DEF Sweep!SolverSelected, Sweep!Discard
    <3>2. nextSweep \in Nat /\ \A y \in streams : y.run \in 1 .. MaxSweeps
      BY DEF Sweep!TypeOK, Sweep!RunIds, Sweep!SweepAssumption
    <3> QED BY <3>1, <3>2 DEF SweepInv, StreamsDistinct, Awaited, StreamsInStep, SweepSettled
  <2>4. ASSUME NEW s \in streams, Sweep!Step(s) PROVE SweepInv'
    BY <2>4, StreamStep
  <2>5. CASE UNCHANGED Sweep!vars
    BY <2>5 DEF Sweep!vars, SweepInv, StreamsDistinct, Awaited, StreamsInStep, InStep, SweepSettled
  <2> QED BY <2>1, <2>2, <2>3, <2>4, <2>5 DEF Sweep!Next
<1> QED BY <1>1, <1>2, SweepTypes, PTL DEF Sweep!Spec

\* The points on screen are the first of one sweep, in order and each once, of the
\* sweep awaited if one is; the selected solver solved them; the caveats that qualify
\* them stand with them; and a finished sweep has all of its points.
THEOREM SweepShowsOne ==
    ASSUME Sweep!SweepAssumption
    PROVE  Sweep!Spec => [](Sweep!OneSweepOnScreen /\ Sweep!PointsOfSelectedSolver
                       /\ Sweep!PointsAreQualified /\ Sweep!DoneIsComplete)
<1> DEFINE Shown == /\ Sweep!OneSweepOnScreen /\ Sweep!PointsOfSelectedSolver
                    /\ Sweep!PointsAreQualified /\ Sweep!DoneIsComplete
<1>1. ASSUME Sweep!TypeOK, SweepInv PROVE Shown
  <2>1. CASE run = 0
    <3>1. /\ SweepSettled /\ phase \notin {"running", "streaming"}
          /\ points \in Seq([run : Sweep!RunIds, at : 1 .. Points])
      BY <1>1, <2>1 DEF SweepInv, Sweep!TypeOK
    <3>2. CASE points = <<>>
      BY <2>1, <3>1, <3>2 DEF SweepSettled, Sweep!OneSweepOnScreen, Sweep!PointsOfSelectedSolver,
                              Sweep!PointsAreQualified, Sweep!DoneIsComplete
    <3>3. CASE points # <<>>
      <4>1. PICK r \in Sweep!RunIds : /\ points = FirstOf(r, Len(points)) /\ sweepOf[r] = solver
                                      /\ caveats = <<Mine(r, "geometry"), Mine(r, "aggregate")>>
        BY <3>1, <3>3 DEF SweepSettled
      <4>2. Len(points) \in Nat /\ 1 \in 1 .. Len(points)
        BY <3>1, <3>3
      <4>3. PICK n \in Nat : n = Len(points)
        BY <4>2
      <4>4. points = FirstOf(r, n)
        BY <4>1, <4>3
      <4>5. points[1].run = r /\ \A i \in 1 .. Len(points) : points[i] = [run |-> r, at |-> i]
        BY <3>3, <4>3, <4>4, FirstPoints
      <4> QED BY <2>1, <3>1, <4>1, <4>5
              DEF SweepSettled, Sweep!OneSweepOnScreen, Sweep!PointsOfSelectedSolver,
                  Sweep!PointsAreQualified,
                  Sweep!DoneIsComplete, Mine
    <3> QED BY <3>2, <3>3
  <2>2. CASE run # 0
    <3>1. PICK s \in streams : s.run = run
      BY <1>1, <2>2 DEF SweepInv, Awaited
    <3>2. InStep(s) /\ sweepOf[run] = solver
      BY <1>1, <2>2, <3>1 DEF SweepInv, StreamsInStep, Awaited
    <3>3. s.next - 1 \in Nat /\ s.next \in Nat /\ s.stage \in Sweep!Stages /\ phase # "done"
      BY <1>1, <2>2 DEF Sweep!TypeOK, Sweep!SweepAssumption
    <3>4. points = FirstOf(run, s.next - 1)
      BY <3>1, <3>2 DEF InStep
    <3>5. /\ Len(points) = s.next - 1
          /\ \A i \in 1 .. Len(points) : points[i] = [run |-> run, at |-> i]
          /\ points # <<>> => s.next - 1 # 0 /\ points[1].run = run
      BY <3>3, <3>4, FirstPoints
    <3>6. CASE points = <<>>
      BY <3>3, <3>5, <3>6 DEF Sweep!OneSweepOnScreen, Sweep!PointsOfSelectedSolver,
                              Sweep!PointsAreQualified,
                              Sweep!DoneIsComplete
    <3>7. CASE points # <<>>
      <4>1. s.next # 1
        BY <3>3, <3>5, <3>7
      <4>2. points[1].run = run
        BY <3>5, <3>7
      <4>3. phase = "streaming" /\ s.stage \notin {"prepare", "geometry"}
        BY <3>2, <4>1 DEF InStep
      <4>4. caveats \in {<<Mine(run, "geometry")>>,
                         <<Mine(run, "geometry"), Mine(run, "aggregate")>>}
        BY <3>1, <3>2, <3>3, <4>3 DEF InStep, Sweep!Stages
      <4> QED BY <3>2, <3>3, <3>5, <4>2, <4>3, <4>4
              DEF Sweep!OneSweepOnScreen, Sweep!PointsOfSelectedSolver, Sweep!PointsAreQualified,
                  Sweep!DoneIsComplete, Mine
    <3> QED BY <3>6, <3>7
  <2> QED BY <2>1, <2>2
<1> QED BY <1>1, SweepInvariant, SweepTypes, PTL
-----------------------------------------------------------------------------
\* A sequence is a prefix of itself, and of itself with one element more.
LEMMA PrefixOfMore ==
    ASSUME NEW S, NEW s \in Seq(S), NEW e \in S
    PROVE  Sweep!IsPrefix(s, s) /\ Sweep!IsPrefix(s, Append(s, e))
<1>1. Len(s) \in Nat /\ SubSeq(s, 1, Len(s)) = s
  BY LenProperties, SubSeqFull
<1>2. /\ Append(s, e) \in Seq(S) /\ Len(Append(s, e)) = Len(s) + 1
      /\ \A i \in 1 .. Len(s) : Append(s, e)[i] = s[i]
  BY AppendProperties
<1>3. \A i \in 1 .. Len(s) : s[i] \in S
  BY ElementOfSeq
<1>4. SubSeq(Append(s, e), 1, Len(s)) = s
  <2> DEFINE t == SubSeq(Append(s, e), 1, Len(s))
  <2>1. \A i \in 1 .. Len(s) : Append(s, e)[i] \in S
    BY <1>2, <1>3
  <2>2. /\ t \in Seq(S) /\ Len(t) = IF 1 <= Len(s) THEN Len(s) - 1 + 1 ELSE 0
        /\ \A i \in 1 .. Len(s) - 1 + 1 : t[i] = Append(s, e)[1 + i - 1]
    <3>1. 1 \in Int /\ Len(s) \in Int
      BY <1>1
    <3> QED BY <2>1, <3>1, SubSeqProperties
  <2>3. Len(t) = Len(s) /\ \A i \in 1 .. Len(t) : t[i] = s[i]
    BY <1>1, <1>2, <2>2
  <2> QED BY <2>2, <2>3, SeqEqual
<1> QED BY <1>1, <1>2, <1>4 DEF Sweep!IsPrefix

\* A point that reached the screen stays there until the user starts another sweep or
\* picks another solver, whatever a stream sends or fails at.
THEOREM PointsStayOnScreen ==
    ASSUME Sweep!SweepAssumption PROVE Sweep!Spec => [][Sweep!PointKept]_vars
<1> DEFINE P == [run : Sweep!RunIds, at : 1 .. Points]
<1>1. ASSUME Sweep!TypeOK, [Sweep!Next]_(Sweep!vars) PROVE Sweep!PointKept
  <2>1. points \in Seq(P)
    BY <1>1 DEF Sweep!TypeOK
  <2>2. UNCHANGED points => Sweep!PointKept
    <3>1. ASSUME UNCHANGED points PROVE Sweep!IsPrefix(points, points')
      <4>1. Len(points) \in Nat /\ SubSeq(points, 1, Len(points)) = points
        BY <2>1, LenProperties, SubSeqFull
      <4> QED BY <3>1, <4>1 DEF Sweep!IsPrefix
    <3> QED BY <3>1 DEF Sweep!PointKept
  <2>3. CASE Sweep!Minted
    BY <1>1, <2>3 DEF Sweep!Minted, Sweep!PointKept, Sweep!TypeOK
  <2>4. ASSUME NEW x \in Solvers, Sweep!SolverSelected(x) PROVE Sweep!PointKept
    BY <2>4 DEF Sweep!SolverSelected, Sweep!PointKept
  <2>5. ASSUME NEW s \in streams, Sweep!Step(s) PROVE Sweep!PointKept
    <3>1. CASE Sweep!SendPoint(s)
      <4>1. CASE UNCHANGED points
        BY <2>2, <4>1
      <4>2. CASE points' = Append(points, [run |-> s.run, at |-> s.next])
        <5>1. [run |-> s.run, at |-> s.next] \in P
          BY <1>1, <3>1 DEF Sweep!TypeOK, Sweep!SendPoint, Sweep!SweepAssumption
        <5>2. PICK e \in P : e = [run |-> s.run, at |-> s.next]
          BY <5>1
        <5> HIDE DEF P
        <5> QED BY <2>1, <4>2, <5>2, PrefixOfMore DEF Sweep!PointKept
      <4> QED BY <3>1, <4>1, <4>2 DEF Sweep!SendPoint, Sweep!SweepPointComputed
    <3>2. CASE ~Sweep!SendPoint(s)
      <4>1. UNCHANGED points
        BY <2>5, <3>2 DEF Sweep!Step, Sweep!PrepareFails, Sweep!Prepared,
                          Sweep!SendGeometryCaveats, Sweep!PointFails,
           Sweep!PointsDone, Sweep!SendAggregate, Sweep!Aggregate, Sweep!SendEnd, Sweep!Close,
           Sweep!SweepFailed, Sweep!SweepCaveats,
           Sweep!SweepStreamDone, Sweep!PointsKept
      <4> QED BY <2>2, <4>1
    <3> QED BY <3>1, <3>2
  <2>6. CASE UNCHANGED Sweep!vars
    BY <2>2, <2>6 DEF Sweep!vars
  <2> QED BY <1>1, <2>3, <2>4, <2>5, <2>6 DEF Sweep!Next, Sweep!RunSweep, Sweep!RunSweepRefused
<1> QED BY <1>1, SweepTypes, PTL DEF Sweep!Spec
-----------------------------------------------------------------------------
(* The viewport by itself, its three legs answering in whatever order.     *)

SolvedLegs == {"currents", "pattern"}

\* Runs are told apart from no run, and a solved leg that would land is one of the
\* selected solver: the switch forgets those it was waiting for.
TasksLand == /\ IsFiniteSet(legTasks)
             /\ \A t \in legTasks : t.run # 0
             /\ \A t \in legTasks : t.leg \in SolvedLegs /\ t.run = pending[t.leg]
                                   => t.of.solver = solver

\* No leg is awaited while an edit owns the screen.
EditOwns == kept # None => geometry = kept /\ pending = View!NoLegs

ViewInv == TasksLand /\ EditOwns /\ View!DrawnIsHeld /\ View!OverlaysOfSelectedSolver

Fresh(r) == /\ r \in View!Runs \ {0}
            /\ \A l \in View!Legs : pending[l] # r
            /\ \A t \in legTasks : t.run # r
-----------------------------------------------------------------------------
\* The viewport counts its tasks as the lemmas of finite sets do.
LEMMA ViewCounts == ASSUME NEW S PROVE View!Cardinality(S) = Cardinality(S)
BY DEF View!Cardinality, Cardinality

\* One more element is at most one more to count.
LEMMA OneMore ==
    ASSUME NEW S, IsFiniteSet(S), NEW x
    PROVE  /\ IsFiniteSet(S \cup {x}) /\ Cardinality(S \cup {x}) \in Nat
           /\ Cardinality(S \cup {x}) <= Cardinality(S) + 1
<1>1. /\ Cardinality(S) \in Nat /\ IsFiniteSet(S \cup {x})
      /\ Cardinality(S \cup {x}) = IF x \in S THEN Cardinality(S) ELSE Cardinality(S) + 1
  BY FS_AddElement, FS_CardinalityType
<1>2. Cardinality(S \cup {x}) \in Nat
  BY <1>1, FS_CardinalityType
<1> QED BY <1>1, <1>2

\* There are more run ids than legs and tasks to hold them.
LEMMA MintFacts ==
    ASSUME View!ViewportAssumption, View!TypeOK,
           IsFiniteSet(legTasks), Cardinality(legTasks) < MaxTasks
    PROVE  Fresh(View!Mint)
<1> DEFINE a == pending["geometry"]
           b == pending["currents"]
           c == pending["pattern"]
           R == {t.run : t \in legTasks}
           f == [t \in legTasks |-> t.run]
           H == ((R \cup {a}) \cup {b}) \cup {c}
           S == 1 .. MaxTasks + 3
<1>1. MaxTasks \in Nat /\ Cardinality(legTasks) \in Nat
  BY FS_CardinalityType DEF View!ViewportAssumption
<1>2. f \in Surjection(legTasks, R)
  BY DEF Surjection
<1>3. IsFiniteSet(R) /\ Cardinality(R) <= Cardinality(legTasks)
  <2> HIDE DEF f, R
  <2> QED BY <1>2, FS_Surjection
<1>4. IsFiniteSet(H) /\ Cardinality(H) <= Cardinality(legTasks) + 3
  <2> HIDE DEF a, b, c, R
  <2>1. Cardinality(R) \in Nat
    BY <1>3, FS_CardinalityType
  <2>2. /\ IsFiniteSet(R \cup {a}) /\ Cardinality(R \cup {a}) \in Nat
        /\ Cardinality(R \cup {a}) <= Cardinality(R) + 1
    BY <1>3, OneMore
  <2> DEFINE Ra == R \cup {a}
             Rab == Ra \cup {b}
  <2>3. IsFiniteSet(Rab) /\ Cardinality(Rab) \in Nat /\ Cardinality(Rab) <= Cardinality(Ra) + 1
    <3> HIDE DEF Ra
    <3> QED BY <2>2, OneMore DEF Ra
  <2>4. /\ IsFiniteSet(Rab \cup {c}) /\ Cardinality(Rab \cup {c}) \in Nat
        /\ Cardinality(Rab \cup {c}) <= Cardinality(Rab) + 1
    <3> HIDE DEF Rab
    <3> QED BY <2>3, OneMore
  <2> QED BY <1>1, <1>3, <2>1, <2>2, <2>3, <2>4
<1>5. Cardinality(S) = MaxTasks + 3
  BY <1>1, FS_Interval
<1>6. PICK r \in S : r \notin H
  <2>1. CASE S \subseteq H
    <3>1. Cardinality(S) <= Cardinality(H)
      <4> HIDE DEF S, H
      <4> QED BY <1>4, <2>1, FS_Subset
    <3>2. Cardinality(H) \in Nat
      BY <1>4, FS_CardinalityType
    <3> HIDE DEF S, H
    <3> QED BY <1>1, <1>4, <1>5, <3>1, <3>2
  <2> QED BY <2>1
<1>7. Fresh(r)
  <2>1. r \in View!Runs \ {0}
    BY <1>1 DEF View!Runs
  <2>2. \A l \in View!Legs : pending[l] \in {a, b, c}
    BY DEF View!Legs
  <2> QED BY <1>6, <2>1, <2>2 DEF Fresh
<1>8. View!Mint = CHOOSE x \in View!Runs \ {0} : /\ \A l \in View!Legs : pending[l] # x
                                       /\ \A t \in legTasks : t.run # x
  BY DEF View!Mint
<1> QED BY <1>7, <1>8 DEF Fresh

\* What is drawn is drawn of what is held, or is what was there.
LEMMA SceneType ==
    ASSUME View!TypeOK, NEW g \in View!Sources \cup {None},
           NEW m \in View!Overlay \cup {None}, NEW on \in BOOLEAN
    PROVE  View!SceneOf(g, m, on) \in View!Scene \cup {None}
BY DEF View!TypeOK, View!SceneOf, View!Scene

ViewTypeInv == View!TypeOK /\ IsFiniteSet(legTasks)

\* Every variable keeps its type: in particular there is always an unused run id.
THEOREM ViewTypes ==
    ASSUME View!ViewportAssumption PROVE View!Spec => []ViewTypeInv
<1> USE DEF View!ViewportAssumption
<1>1. View!Init => ViewTypeInv
  <2>1. [l \in View!Legs |-> 0] \in [View!Legs -> View!Runs] /\ IsFiniteSet({})
    BY FS_EmptySet DEF View!Runs
  <2> QED BY <2>1 DEF View!Init, ViewTypeInv, View!TypeOK
<1>2. ViewTypeInv /\ [View!Next]_(View!vars) => ViewTypeInv'
  <2> SUFFICES ASSUME View!TypeOK, IsFiniteSet(legTasks), [View!Next]_(View!vars)
               PROVE  ViewTypeInv'
    BY DEF ViewTypeInv
  <2>1. \A o \in View!Overlay \cup {None}, on \in BOOLEAN :
          View!LobeOf(o, on) \in View!Overlay \cup {None}
    BY DEF View!LobeOf
  <2>2. /\ geometry \in View!Sources \cup {None}
        /\ currents \in View!Overlay \cup {None} /\ grid \in View!Overlay \cup {None}
        /\ showCurrents \in BOOLEAN /\ showPattern \in BOOLEAN
        /\ scene \in View!Scene \cup {None} /\ lobe \in View!Overlay \cup {None}
        /\ pending \in [View!Legs -> View!Runs] /\ 0 \in View!Runs
    BY DEF View!TypeOK, View!Runs
  <2>3. ASSUME NEW d \in ViewDecks, View!DeckPathChanged(d) PROVE ViewTypeInv'
    BY <2>3 DEF ViewTypeInv, View!TypeOK, View!DeckPathChanged, View!shown
  <2>4. ASSUME NEW l \in View!Legs, View!Ask(l) PROVE ViewTypeInv'
    <3>1. PICK r \in View!Runs : r = View!Mint
      BY <2>4, MintFacts, ViewCounts DEF View!Ask, Fresh
    <3>2. PICK new : new = [leg |-> l, run |-> r, of |-> [src |-> deck, solver |-> solver]]
      OBVIOUS
    <3>3. new \in View!Task
      BY <3>1, <3>2 DEF View!TypeOK, View!Task, View!Overlay, View!Sources
    <3>4. legTasks' = legTasks \cup {new} /\ pending' = [pending EXCEPT ![l] = r]
      BY <2>4, <3>1, <3>2 DEF View!Ask
    <3>5. IsFiniteSet(legTasks')
      BY <3>4, FS_AddElement
    <3> QED BY <2>4, <3>3, <3>4, <3>5 DEF ViewTypeInv, View!TypeOK, View!Ask, View!shown
  <2>5. ASSUME NEW s \in Solvers, View!SolverSelected(s) PROVE ViewTypeInv'
    <3>1. scene' \in View!Scene \cup {None} /\ lobe' \in View!Overlay \cup {None}
      BY <2>1, <2>2, <2>5, SceneType DEF View!SolverSelected
    <3>2. pending' \in [View!Legs -> View!Runs]
      BY <2>2, <2>5 DEF View!SolverSelected, View!SolvedLegsOrphaned
    <3> QED BY <2>5, <3>1, <3>2 DEF ViewTypeInv, View!TypeOK, View!SolverSelected
  <2>6. ASSUME NEW on \in BOOLEAN, View!ToggleCurrents(on) PROVE ViewTypeInv'
    <3>1. scene' \in View!Scene \cup {None}
      BY <2>2, <2>6, SceneType DEF View!ToggleCurrents
    <3> QED BY <2>6, <3>1 DEF ViewTypeInv, View!TypeOK, View!ToggleCurrents
  <2>7. ASSUME NEW on \in BOOLEAN, View!TogglePattern(on) PROVE ViewTypeInv'
    <3>1. lobe' \in View!Overlay \cup {None}
      BY <2>1, <2>2, <2>7 DEF View!TogglePattern
    <3> QED BY <2>7, <3>1 DEF ViewTypeInv, View!TypeOK, View!TogglePattern
  <2>8. CASE View!ToggleReference
    <3>1. scene' \in View!Scene \cup {None}
      BY <2>2, <2>8, SceneType DEF View!ToggleReference
    <3> QED BY <2>8, <3>1 DEF ViewTypeInv, View!TypeOK, View!ToggleReference
  <2>9. ASSUME NEW e \in Edits, View!EditPreviewed(e) PROVE ViewTypeInv'
    <3>1. e \in View!Sources
      BY DEF View!Sources
    <3>2. scene' \in View!Scene \cup {None} /\ lobe' \in View!Overlay \cup {None}
      BY <2>1, <2>9, <3>1, SceneType DEF View!EditPreviewed
    <3>3. pending' \in [View!Legs -> View!Runs]
      BY <2>2, <2>9 DEF View!EditPreviewed, View!NoLegs
    <3> QED BY <2>9, <3>1, <3>2, <3>3 DEF ViewTypeInv, View!TypeOK, View!EditPreviewed
  <2>10. CASE View!EditInvalid
    BY <2>2, <2>10 DEF ViewTypeInv, View!TypeOK, View!EditInvalid, View!NoLegs, View!shown
  <2>11. ASSUME NEW t \in legTasks, View!Complete(t) PROVE ViewTypeInv'
    <3>1. t.of \in View!Overlay /\ t.of.src \in View!Sources /\ t.leg \in View!Legs
      BY DEF View!TypeOK, View!Task, View!Overlay
    <3>2. legTasks' \subseteq View!Task /\ IsFiniteSet(legTasks')
      BY <2>11, FS_RemoveElement DEF View!TypeOK, View!Complete
    <3>3. UNCHANGED <<deck, solver, kept>>
      BY <2>11 DEF View!Complete
    <3>4. CASE ~View!Accepted(t)
      BY <2>11, <3>2, <3>3, <3>4 DEF ViewTypeInv, View!TypeOK, View!Complete, View!shown
    <3>5. CASE View!Accepted(t)
      <4>1. pending' \in [View!Legs -> View!Runs]
        BY <2>2, <2>11, <3>5 DEF View!Complete, View!Landed
      <4>2. CASE View!GeometryLoaded(t)
        <5>1. scene' \in View!Scene \cup {None}
          BY <2>2, <3>1, <4>2, SceneType, ZenonT(30) DEF View!GeometryLoaded
        <5> QED BY <3>1, <3>2, <3>3, <4>1, <4>2, <5>1
                   DEF ViewTypeInv, View!TypeOK, View!GeometryLoaded
      <4>3. CASE View!CurrentsSolved(t)
        <5>1. scene' \in View!Scene \cup {None}
          BY <2>2, <3>1, <4>3, SceneType DEF View!CurrentsSolved, View!shown
        <5> QED BY <3>1, <3>2, <3>3, <4>1, <4>3, <5>1, ZenonT(30)
                   DEF ViewTypeInv, View!TypeOK, View!CurrentsSolved, View!shown
      <4>4. CASE View!Pattern3dComplete(t)
        <5>1. scene' \in View!Scene \cup {None}
          BY <2>2, <3>1, <4>4, SceneType, ZenonT(30) DEF View!Pattern3dComplete, View!shown
        <5>2. View!LobeOf(t.of, TRUE) \in View!Overlay \cup {None}
          BY <2>1, <3>1
        <5>3. lobe' \in View!Overlay \cup {None}
          BY <2>2, <4>4, <5>2 DEF View!Pattern3dComplete, View!shown
        <5> QED BY <3>1, <3>2, <3>3, <4>1, <4>4, <5>1, <5>3
                DEF ViewTypeInv, View!TypeOK, View!Pattern3dComplete, View!shown
      <4> QED BY <2>11, <3>5, <4>2, <4>3, <4>4 DEF View!Complete, View!Landed
    <3> QED BY <3>4, <3>5
  <2>12. CASE UNCHANGED View!vars
    BY <2>12 DEF ViewTypeInv, View!TypeOK, View!vars, View!shown
  <2> QED BY <2>3, <2>4, <2>5, <2>6, <2>7, <2>8, <2>9, <2>10, <2>11, <2>12
             DEF View!Next, View!User
<1> QED BY <1>1, <1>2, PTL DEF View!Spec
-----------------------------------------------------------------------------
\* An action that leaves the three legs and their tasks alone.
LEMMA LegsKeep ==
    ASSUME ViewInv, UNCHANGED <<solver, pending, legTasks>> PROVE TasksLand'
BY DEF ViewInv, TasksLand

\* The meshes on screen are those of what is held; the overlays are of the selected
\* solver; and the geometry an edit left on screen stays until a leg is asked for.
THEOREM ViewportShowsWhatIsHeld ==
    ASSUME View!ViewportAssumption
    PROVE  View!Spec =>
             [](View!DrawnIsHeld /\ View!OverlaysOfSelectedSolver /\ View!EditKeepsTheScreen)
<1> USE DEF View!ViewportAssumption
<1>1. View!Init => ViewInv
  BY FS_EmptySet
     DEF View!Init, ViewInv, TasksLand, EditOwns, View!DrawnIsHeld,
         View!OverlaysOfSelectedSolver
<1>2. ViewTypeInv /\ ViewInv /\ [View!Next]_(View!vars) => ViewInv'
  <2> SUFFICES ASSUME View!TypeOK, IsFiniteSet(legTasks), ViewInv, [View!Next]_(View!vars)
               PROVE  ViewInv'
    BY DEF ViewTypeInv
  <2>1. /\ \A g \in View!Sources : g # None
        /\ geometry = None => scene = None
        /\ pending \in [View!Legs -> View!Runs]
    BY DEF View!TypeOK, View!Sources, ViewInv, View!DrawnIsHeld, View!Scene
  <2>2. ASSUME NEW g \in View!Sources \cup {None}, NEW m, NEW on,
               g = geometry \/ g \in View!Sources, scene' = View!SceneOf(g, m, on)
        PROVE  scene' # None => scene' = [wires |-> g, paint |-> IF on THEN m ELSE None]
    BY <2>1, <2>2 DEF View!SceneOf
  <2>3. geometry \in View!Sources \cup {None}
    BY DEF View!TypeOK
  <2>4. ASSUME NEW d \in ViewDecks, View!DeckPathChanged(d) PROVE ViewInv'
    BY <2>4, LegsKeep
       DEF View!DeckPathChanged, View!shown, ViewInv, EditOwns, View!DrawnIsHeld,
           View!OverlaysOfSelectedSolver
  <2>5. ASSUME NEW l \in View!Legs, View!Ask(l) PROVE ViewInv'
    <3>1. PICK r : r = View!Mint
      OBVIOUS
    <3>2. Fresh(r)
      BY <2>5, <3>1, MintFacts, ViewCounts DEF View!Ask
    <3>3. PICK new : new = [leg |-> l, run |-> r, of |-> [src |-> deck, solver |-> solver]]
      OBVIOUS
    <3>4. new.leg = l /\ new.run = r /\ new.of.solver = solver
      BY <3>3
    <3>5. /\ legTasks' = legTasks \cup {new} /\ kept' = None
          /\ pending' = [pending EXCEPT ![l] = r] /\ UNCHANGED <<solver, View!shown>>
      BY <2>5, <3>1, <3>3 DEF View!Ask
    <3>6. TasksLand'
      <4>1. IsFiniteSet(legTasks')
        BY <3>5, FS_AddElement
      <4>2. ASSUME NEW t \in legTasks' PROVE t.run # 0
        BY <3>2, <3>4, <3>5 DEF Fresh, ViewInv, TasksLand
      <4>3. ASSUME NEW t \in legTasks', t.leg \in SolvedLegs, t.run = pending'[t.leg]
            PROVE  t.of.solver = solver
        <5>1. CASE t = new
          BY <3>4, <5>1
        <5>2. CASE t \in legTasks
          <6>1. t.run # r /\ t.leg \in View!Legs
            BY <3>2, <5>2 DEF Fresh, View!TypeOK, View!Task
          <6>2. t.run = pending[t.leg]
            BY <2>1, <3>5, <4>3, <6>1
          <6> QED BY <4>3, <5>2, <6>2 DEF ViewInv, TasksLand
        <5> QED BY <3>5, <5>1, <5>2
      <4> QED BY <3>5, <4>1, <4>2, <4>3 DEF TasksLand
    <3> QED BY <3>5, <3>6
               DEF View!shown, ViewInv, EditOwns, View!DrawnIsHeld,
                   View!OverlaysOfSelectedSolver
  <2>6. ASSUME NEW s \in Solvers, View!SolverSelected(s) PROVE ViewInv'
    <3>1. /\ currents' = None /\ grid' = None /\ showCurrents' = FALSE /\ showPattern' = FALSE
          /\ geometry' = geometry /\ kept' = kept /\ legTasks' = legTasks
          /\ scene' = View!SceneOf(geometry, None, FALSE) /\ lobe' = View!LobeOf(None, FALSE)
          /\ pending' = View!SolvedLegsOrphaned
      BY <2>6 DEF View!SolverSelected
    <3>2. View!DrawnIsHeld'
      BY <2>2, <2>3, <3>1 DEF View!DrawnIsHeld, View!LobeOf
    <3>3. View!OverlaysOfSelectedSolver'
      BY <3>1 DEF View!OverlaysOfSelectedSolver
    <3>4. \A l \in SolvedLegs : pending'[l] = 0
      BY <2>1, <3>1 DEF View!SolvedLegsOrphaned, SolvedLegs, View!Legs
    <3>5. TasksLand'
      BY <3>1, <3>4 DEF ViewInv, TasksLand
    <3>6. pending = View!NoLegs => pending' = View!NoLegs
      BY <3>1 DEF View!SolvedLegsOrphaned, View!NoLegs, View!Legs
    <3>7. EditOwns'
      BY <3>1, <3>6 DEF ViewInv, EditOwns, View!NoLegs
    <3> QED BY <3>2, <3>3, <3>5, <3>7 DEF ViewInv
  <2>7. ASSUME NEW on \in BOOLEAN, View!ToggleCurrents(on) PROVE ViewInv'
    <3>1. View!DrawnIsHeld'
      BY <2>2, <2>3, <2>7 DEF View!ToggleCurrents, View!DrawnIsHeld, ViewInv
    <3> QED BY <2>7, <3>1, LegsKeep
            DEF View!ToggleCurrents, ViewInv, EditOwns, View!OverlaysOfSelectedSolver
  <2>8. ASSUME NEW on \in BOOLEAN, View!TogglePattern(on) PROVE ViewInv'
    <3>1. View!DrawnIsHeld'
      BY <2>8 DEF View!TogglePattern, View!DrawnIsHeld, ViewInv, View!LobeOf
    <3> QED BY <2>8, <3>1, LegsKeep
            DEF View!TogglePattern, ViewInv, EditOwns, View!OverlaysOfSelectedSolver
  <2>9. CASE View!ToggleReference
    <3>1. View!DrawnIsHeld'
      BY <2>2, <2>3, <2>9 DEF View!ToggleReference, View!DrawnIsHeld, ViewInv
    <3> QED BY <2>9, <3>1, LegsKeep
            DEF View!ToggleReference, ViewInv, EditOwns, View!OverlaysOfSelectedSolver
  <2>10. ASSUME NEW e \in Edits, View!EditPreviewed(e) PROVE ViewInv'
    <3>1. /\ pending' = View!NoLegs /\ geometry' = e /\ kept' = e
          /\ currents' = None /\ grid' = None
          /\ showCurrents' = FALSE /\ showPattern' = FALSE /\ legTasks' = legTasks
          /\ scene' = View!SceneOf(e, None, FALSE) /\ lobe' = View!LobeOf(None, FALSE)
      BY <2>10 DEF View!EditPreviewed
    <3>2. e \in View!Sources
      BY DEF View!Sources
    <3>3. View!DrawnIsHeld'
      BY <2>2, <3>1, <3>2 DEF View!DrawnIsHeld, View!LobeOf
    <3>4. TasksLand'
      BY <3>1 DEF ViewInv, TasksLand, View!NoLegs, SolvedLegs, View!Legs
    <3>5. EditOwns' /\ View!OverlaysOfSelectedSolver'
      BY <3>1 DEF EditOwns, View!NoLegs, View!OverlaysOfSelectedSolver
    <3> QED BY <3>3, <3>4, <3>5 DEF ViewInv
  <2>11. CASE View!EditInvalid
    <3>1. /\ pending' = View!NoLegs /\ kept' = geometry
          /\ UNCHANGED <<deck, solver, View!shown, legTasks>>
      BY <2>11 DEF View!EditInvalid
    <3>2. TasksLand'
      BY <3>1 DEF ViewInv, TasksLand, View!NoLegs, SolvedLegs, View!Legs
    <3>3. EditOwns'
      BY <3>1 DEF EditOwns, View!NoLegs, View!shown
    <3> QED BY <3>1, <3>2, <3>3
               DEF View!shown, ViewInv, View!DrawnIsHeld, View!OverlaysOfSelectedSolver
  <2>12. ASSUME NEW t \in legTasks, View!Complete(t) PROVE ViewInv'
    <3>1. t.of \in View!Overlay /\ t.of.src \in View!Sources /\ t.leg \in View!Legs /\ t.run # 0
      BY DEF View!TypeOK, View!Task, View!Overlay, ViewInv, TasksLand
    <3>2. /\ legTasks' = legTasks \ {t} /\ IsFiniteSet(legTasks')
          /\ UNCHANGED <<deck, solver, kept>>
      BY <2>12, FS_RemoveElement DEF View!Complete
    <3>3. CASE ~View!Accepted(t)
      <4>1. UNCHANGED <<pending, View!shown>>
        BY <2>12, <3>3 DEF View!Complete
      <4> QED BY <3>2, <4>1
              DEF View!shown, ViewInv, TasksLand, EditOwns, View!DrawnIsHeld,
                  View!OverlaysOfSelectedSolver
    <3>4. CASE View!Accepted(t)
      <4>1. t.run = pending[t.leg] /\ pending' = [pending EXCEPT ![t.leg] = 0]
        BY <2>12, <3>4 DEF View!Accepted, View!Complete, View!Landed
      <4>2. EditOwns'
        BY <3>1, <3>2, <4>1 DEF ViewInv, EditOwns, View!NoLegs
      <4>3. TasksLand'
        BY <2>1, <3>1, <3>2, <4>1 DEF ViewInv, TasksLand
      <4>4. CASE t.leg = "geometry" /\ View!GeometryLoaded(t)
        <5>1. View!DrawnIsHeld'
          BY <2>2, <3>1, <4>4 DEF View!GeometryLoaded, View!DrawnIsHeld, ViewInv
        <5>2. View!OverlaysOfSelectedSolver'
          BY <3>2, <4>4 DEF View!GeometryLoaded, View!OverlaysOfSelectedSolver, ViewInv
        <5> QED BY <4>2, <4>3, <5>1, <5>2 DEF ViewInv
      <4>5. CASE t.leg = "currents" /\ View!CurrentsSolved(t)
        <5>1. t.of.solver = solver
          BY <4>1, <4>5 DEF ViewInv, TasksLand, SolvedLegs
        <5>2. View!DrawnIsHeld'
          <6>1. CASE UNCHANGED View!shown
            BY <6>1 DEF View!shown, View!DrawnIsHeld, ViewInv
          <6>2. CASE /\ geometry' = t.of.src /\ currents' = t.of /\ showCurrents' = TRUE
                     /\ scene' = View!SceneOf(t.of.src, t.of, TRUE)
                     /\ UNCHANGED <<grid, showPattern, lobe>>
            <7>1. scene' # None => scene' = [wires |-> t.of.src, paint |-> t.of]
              BY <2>2, <3>1, <6>2
            <7> QED BY <6>2, <7>1 DEF View!DrawnIsHeld, ViewInv
          <6> QED BY <4>5, <6>1, <6>2 DEF View!CurrentsSolved
        <5>3. View!OverlaysOfSelectedSolver'
          BY <3>2, <4>5, <5>1
             DEF View!CurrentsSolved, View!shown, View!OverlaysOfSelectedSolver, ViewInv
        <5> QED BY <4>2, <4>3, <5>2, <5>3 DEF ViewInv
      <4>6. CASE t.leg = "pattern" /\ View!Pattern3dComplete(t)
        <5>1. t.of.solver = solver
          BY <4>1, <4>6 DEF ViewInv, TasksLand, SolvedLegs
        <5>2. View!DrawnIsHeld'
          BY <2>2, <3>1, <4>6
             DEF View!Pattern3dComplete, View!shown, View!DrawnIsHeld, ViewInv, View!LobeOf
        <5>3. View!OverlaysOfSelectedSolver'
          BY <3>2, <4>6, <5>1
             DEF View!Pattern3dComplete, View!shown, View!OverlaysOfSelectedSolver, ViewInv
        <5> QED BY <4>2, <4>3, <5>2, <5>3 DEF ViewInv
      <4> QED BY <2>12, <3>4, <4>4, <4>5, <4>6 DEF View!Complete, View!Landed
    <3> QED BY <3>3, <3>4
  <2>13. CASE UNCHANGED View!vars
    BY <2>13
       DEF View!vars, View!shown, ViewInv, TasksLand, EditOwns, View!DrawnIsHeld,
           View!OverlaysOfSelectedSolver
  <2> QED BY <2>4, <2>5, <2>6, <2>7, <2>8, <2>9, <2>10, <2>11, <2>12, <2>13
             DEF View!Next, View!User
<1>3. ViewInv => View!DrawnIsHeld /\ View!OverlaysOfSelectedSolver /\ View!EditKeepsTheScreen
  BY DEF ViewInv, EditOwns, View!EditKeepsTheScreen
<1> QED BY <1>1, <1>2, <1>3, ViewTypes, PTL DEF View!Spec
-----------------------------------------------------------------------------
(* The panels together.                                                    *)

TabsUnused == /\ deck \in Decks /\ solver \in Solvers /\ nextRun = 0
              /\ tab = [t \in Tabs!Tabs |-> Tabs!Idle]
              /\ strip = None /\ stripRun = 0 /\ tasks = {}
              /\ asked = [t \in Tabs!Tabs |-> None] /\ refreshed = None

SweepUnused == /\ phase = "idle" /\ run = 0 /\ points = <<>> /\ caveats = <<>>
               /\ streams = {}

ViewUnused == /\ geometry = None /\ currents = None /\ grid = None
              /\ ~showCurrents /\ ~showPattern
              /\ scene = None /\ lobe = None /\ kept = None

Shared == /\ panel \in {"tabs", "sweep", "view"} /\ deck \in Decks /\ solver \in Solvers
          /\ panel # "sweep" => SweepUnused
          /\ panel # "view" => ViewUnused
-----------------------------------------------------------------------------
\* The solver is changed by the three reducer arms that may, to one of the solvers.
LEMMA SharedInvariant == Spec => []Shared
<1>1. Init => Shared
  <2>1. (CHOOSE d \in ViewDecks : TRUE) \in Decks
       /\ (CHOOSE s \in Solvers : TRUE) \in Solvers
    BY GuiAssumption
  <2> QED BY <2>1 DEF Init, Shared, Sweep!Init, View!Init, SweepUnused, ViewUnused
<1>2. Shared /\ [Next]_vars => Shared'
  <2> SUFFICES ASSUME Shared, [Next]_vars PROVE Shared'
    OBVIOUS
  <2>1. CASE TabStep
    <3>1. deck' \in Decks /\ solver' \in Solvers
      BY <2>1 DEF Shared, TabStep, Tabs!Next, Tabs!User, Tabs!DeckPathChanged,
         Tabs!SolverSelected, Tabs!Ask, Tabs!Launch, Tabs!AskPatternInvalid,
            Tabs!ApplySolve,
         Tabs!ApplySolveInvalid, Tabs!Complete
    <3> QED BY <2>1, <3>1
            DEF Shared, TabStep, sweepVars, viewVars, SweepUnused, ViewUnused
  <2>2. CASE SweepStep
    <3>1. solver' \in Solvers
      BY <2>2 DEF Shared, SweepStep, Sweep!Next, Sweep!RunSweep, Sweep!RunSweepRefused,
         Sweep!SolverSelected, Sweep!Step
    <3> QED BY <2>2, <3>1 DEF Shared, SweepStep, viewVars, ViewUnused
  <2>3. CASE ViewStep
    <3>1. deck' \in Decks /\ solver' \in Solvers
      BY <2>3, GuiAssumption
         DEF Shared, ViewStep, View!Next, View!User, View!DeckPathChanged, View!Ask,
         View!SolverSelected, View!ToggleCurrents, View!TogglePattern, View!ToggleReference,
         View!EditPreviewed, View!EditInvalid, View!Complete
    <3> QED BY <2>3, <3>1 DEF Shared, ViewStep, sweepVars, SweepUnused
  <2>4. CASE UNCHANGED vars
    BY <2>4 DEF Shared, vars, sweepVars, viewVars, SweepUnused, ViewUnused
  <2> QED BY <2>1, <2>2, <2>3, <2>4 DEF Next
<1> QED BY <1>1, <1>2, PTL DEF Spec
-----------------------------------------------------------------------------
\* A behaviour uses the tabs throughout or never, and the viewport too.
LEMMA TabsOrNot == Spec => [](panel = "tabs") \/ []~(panel = "tabs")
<1>1. panel = "tabs" /\ [Next]_vars => (panel = "tabs")'
  BY DEF Next, TabStep, SweepStep, ViewStep, vars
<1>2. ~(panel = "tabs") /\ [Next]_vars => ~(panel = "tabs")'
  BY DEF Next, TabStep, SweepStep, ViewStep, vars
<1> QED BY <1>1, <1>2, PTL DEF Spec

LEMMA ViewOrNot == Spec => [](panel = "view") \/ []~(panel = "view")
<1>1. panel = "view" /\ [Next]_vars => (panel = "view")'
  BY DEF Next, TabStep, SweepStep, ViewStep, vars
<1>2. ~(panel = "view") /\ [Next]_vars => ~(panel = "view")'
  BY DEF Next, TabStep, SweepStep, ViewStep, vars
<1> QED BY <1>1, <1>2, PTL DEF Spec

\* Whatever panel is used, what the sweep does is what a sweep alone may do: another
\* panel's switch of the solver is the sweep's own, on a sweep that has not been used.
LEMMA SweepAsAlone == Spec => Sweep!Spec
<1>1. Init => Sweep!Init
  BY DEF Init
<1>2. Shared /\ Shared' /\ [Next]_vars => [Sweep!Next]_(Sweep!vars)
  <2> SUFFICES ASSUME Shared, Shared', [Next]_vars PROVE Sweep!Next \/ UNCHANGED Sweep!vars
    OBVIOUS
  <2>1. CASE SweepStep
    BY <2>1 DEF SweepStep
  <2>2. CASE UNCHANGED <<panel, sweepVars>> /\ panel # "sweep"
    <3>1. CASE solver' = solver
      BY <2>2, <3>1 DEF sweepVars, Sweep!vars
    <3>2. CASE solver' # solver
      <4>1. Sweep!SolverSelected(solver')
        BY <2>2, <3>2
           DEF Shared, SweepUnused, sweepVars, Sweep!SolverSelected, Sweep!Discard
      <4>2. solver' \in Solvers
        BY DEF Shared
      <4> QED BY <4>1, <4>2 DEF Sweep!Next
    <3> QED BY <3>1, <3>2
  <2>3. CASE UNCHANGED vars
    BY <2>3 DEF vars, sweepVars, Sweep!vars
  <2> QED BY <2>1, <2>2, <2>3 DEF Next, TabStep, ViewStep
<1> QED BY <1>1, <1>2, SharedInvariant, PTL DEF Spec, Sweep!Spec

\* A behaviour that uses the tabs, or the viewport, is one of that panel alone.
LEMMA TabsAsAlone == Spec /\ [](panel = "tabs") => Tabs!Spec
<1>1. Init => Tabs!Init
  BY DEF Init
<1>2. panel = "tabs" /\ [Next]_vars => [Tabs!Next]_(Tabs!vars)
  BY DEF Next, TabStep, SweepStep, ViewStep, vars, tabVars, Tabs!vars
<1> QED BY <1>1, <1>2, PTL DEF Spec, Tabs!Spec

LEMMA ViewAsAlone == Spec /\ [](panel = "view") => View!Spec
<1>1. Init => View!Init
  BY DEF Init
<1>2. panel = "view" /\ [Next]_vars => [View!Next]_(View!vars)
  BY DEF Next, TabStep, SweepStep, ViewStep, vars, viewVars, View!vars, View!shown
<1> QED BY <1>1, <1>2, PTL DEF Spec, View!Spec

\* Nobody has used the tabs of a behaviour that uses another panel.
LEMMA TabsLeftAlone == Spec /\ []~(panel = "tabs") => []TabsUnused
<1>1. Init => TabsUnused
  BY GuiAssumption DEF Init, Tabs!Init, TabsUnused
<1>2. TabsUnused /\ Shared' /\ ~(panel = "tabs") /\ [Next]_vars => TabsUnused'
  BY DEF TabsUnused, Shared, Next, TabStep, SweepStep, ViewStep, vars, tabVars, Tabs!Idle
<1> QED BY <1>1, <1>2, SharedInvariant, PTL DEF Spec

LEMMA UnusedTabs ==
    ASSUME TabsUnused
    PROVE  /\ Tabs!TypeOK /\ Tabs!ShownIsOfSelectedSolver /\ Tabs!ShownIsLastAsked
           /\ Tabs!StripIsLastRefresh /\ Tabs!AwaitedIsInFlight
<1>1. 0 \in 0 .. MaxRuns /\ MaxRuns \in Nat
  BY GuiAssumption DEF Tabs!RunsAssumption
<1>2. \A t \in Tabs!Tabs : tab[t].at = "idle"
  BY DEF TabsUnused, Tabs!Idle
<1>3. tab \in [Tabs!Tabs -> Tabs!Phase] /\ asked \in [Tabs!Tabs -> Tabs!Result \cup {None}]
  BY DEF TabsUnused, Tabs!Phase
<1>4. Tabs!TypeOK
  BY <1>1, <1>3 DEF TabsUnused, Tabs!TypeOK
<1> QED BY <1>2, <1>4 DEF TabsUnused, Tabs!ShownIsOfSelectedSolver, Tabs!ShownIsLastAsked,
           Tabs!StripIsLastRefresh, Tabs!AwaitedIsInFlight

LEMMA UnusedView ==
    ASSUME ViewUnused
    PROVE  View!DrawnIsHeld /\ View!OverlaysOfSelectedSolver /\ View!EditKeepsTheScreen
BY DEF ViewUnused, View!DrawnIsHeld, View!OverlaysOfSelectedSolver, View!EditKeepsTheScreen
-----------------------------------------------------------------------------
\* Every variable of the three panels keeps its type, whichever of them is used.
THEOREM TypeCorrect == Spec => []TypeOK
<1>1. Spec /\ [](panel = "tabs") => []Tabs!TypeOK
  BY TabsAsAlone, TabsTypes, GuiAssumption, PTL
<1>2. Spec /\ []~(panel = "tabs") => []Tabs!TypeOK
  BY TabsLeftAlone, UnusedTabs, PTL
<1>3. Spec => []Sweep!TypeOK
  BY SweepAsAlone, SweepTypes, GuiAssumption, PTL
<1>4. Spec /\ [](panel = "view") => []View!TypeOK
  <2>1. ViewTypeInv => View!TypeOK
    BY DEF ViewTypeInv
  <2> QED BY <2>1, ViewAsAlone, ViewTypes, GuiAssumption, PTL
<1>5. Tabs!TypeOK /\ Sweep!TypeOK /\ (panel = "view" => View!TypeOK) => TypeOK
  BY DEF TypeOK
<1>6. ~(panel = "view") => (panel = "view" => View!TypeOK)
  OBVIOUS
<1> QED BY <1>1, <1>2, <1>3, <1>4, <1>5, <1>6, TabsOrNot, ViewOrNot, PTL

\* What the tabs, the sweep and the viewport show is what it says it is, in every
\* behaviour of the program and not only in those of the panel by itself.
LEMMA TabsShow ==
    Spec => [](Tabs!ShownIsOfSelectedSolver /\ Tabs!ShownIsLastAsked
                /\ Tabs!StripIsLastRefresh /\ Tabs!AwaitedIsInFlight)
BY TabsOrNot, TabsAsAlone, TabsAloneShowLastAsked, TabsLeftAlone, UnusedTabs,
   GuiAssumption, PTL

LEMMA SweepShows ==
    Spec => [](Sweep!OneSweepOnScreen /\ Sweep!PointsOfSelectedSolver
                /\ Sweep!PointsAreQualified /\ Sweep!DoneIsComplete)
BY SweepAsAlone, SweepShowsOne, GuiAssumption, PTL

LEMMA ViewShows ==
    Spec => [](View!DrawnIsHeld /\ View!OverlaysOfSelectedSolver /\ View!EditKeepsTheScreen)
<1>1. Shared /\ ~(panel = "view") => ViewUnused
  BY DEF Shared
<1> QED BY <1>1, ViewOrNot, SharedInvariant, ViewAsAlone, ViewportShowsWhatIsHeld,
   UnusedView,
           GuiAssumption, PTL
-----------------------------------------------------------------------------
\* Nothing on screen was computed by a solver other than the selected one, in any panel:
\* a run in flight across a switch cannot bring it back.
THEOREM NothingShownOfAnotherSolver == Spec => []NothingOfAnotherSolver
<1>1. Tabs!ShownIsOfSelectedSolver /\ Sweep!PointsOfSelectedSolver
        /\ View!OverlaysOfSelectedSolver => NothingOfAnotherSolver
  BY DEF NothingOfAnotherSolver
<1> QED BY <1>1, TabsShow, SweepShows, ViewShows, PTL

\* A tab shows the answer to the last thing it was asked, the strip that to its last
\* refresh or nothing, and whatever is awaited has a task that will report it.
THEOREM TabsShowLastAsked == Spec => []ShownIsLastAsked
<1>1. Tabs!ShownIsLastAsked /\ Tabs!StripIsLastRefresh /\ Tabs!AwaitedIsInFlight
        => ShownIsLastAsked
  BY DEF ShownIsLastAsked
<1> QED BY <1>1, TabsShow, PTL

\* The points on screen are the first of one sweep, in order and each once, with both of
\* its caveats, and all of them when it is finished.
THEOREM ScreenShowsOneSweep == Spec => []OneSweepOnScreen
<1>1. Sweep!OneSweepOnScreen /\ Sweep!PointsAreQualified /\ Sweep!DoneIsComplete
        => OneSweepOnScreen
  BY DEF OneSweepOnScreen
<1> QED BY <1>1, SweepShows, PTL

\* The meshes in the viewport are those of what it holds, and no leg in flight replaces
\* the geometry an edit left on screen.
THEOREM ViewportDrawsWhatItHolds == Spec => []DrawnIsHeld
<1>1. View!DrawnIsHeld /\ View!EditKeepsTheScreen => DrawnIsHeld
  BY DEF DrawnIsHeld
<1> QED BY <1>1, ViewShows, PTL

\* No step of the program takes a point off the screen but a new sweep or another solver.
THEOREM NoStepTakesPointsAway == Spec => PointsStay
<1>1. Sweep!TypeOK /\ [Sweep!PointKept]_(Sweep!vars)
     /\ [Next]_vars => [Sweep!PointKept]_vars
  <2> SUFFICES ASSUME Sweep!TypeOK, UNCHANGED Sweep!vars PROVE Sweep!PointKept
    OBVIOUS
  <2>1. PICK S : points \in Seq(S)
    BY DEF Sweep!TypeOK
  <2>2. points' = points
    BY DEF Sweep!vars
  <2>3. Len(points) \in Nat
    BY <2>1
  <2> QED BY <2>2, <2>3 DEF Sweep!PointKept, Sweep!IsPrefix
<1>2. Spec => []Sweep!TypeOK
  BY SweepAsAlone, SweepTypes, GuiAssumption, PTL
<1> QED BY <1>1, <1>2, SweepAsAlone, PointsStayOnScreen, GuiAssumption, PTL
        DEF Spec, PointsStay
=============================================================================
