------------------------- MODULE SettingsTui_proofs -------------------------
(***************************************************************************)
(* The management UI with its rounds and deletes in flight implements      *)
(* Console, for any number of templates and overlapping rounds: so it is   *)
(* as honest as Console is.  The inductive invariant adds that the delete  *)
(* calls are what the dialog says, which is what makes the end of a call a *)
(* step of Console, and it is worth a theorem itself.                      *)
(***************************************************************************)
EXTENDS SettingsTui, Console_proofs

\* DialogTellsDeletes, without counting.
OneDelete ==
  \/ dialog # "deleting" /\ deletes = {}
  \/ dialog = "deleting" /\ \E d : deletes = {d} /\ d.row = selected

Inv == UiInv /\ TypeOK /\ OneDelete

LEMMA CountOfOne == OneDelete => DialogTellsDeletes
<1> SUFFICES ASSUME OneDelete PROVE DialogTellsDeletes
  OBVIOUS
<1>1. CASE dialog = "deleting"
  <2>1. PICK d : deletes = {d} /\ d.row = selected
    BY <1>1 DEF OneDelete
  <2>2. Cardinality(deletes) = 1
    BY <2>1, FS_Singleton
  <2> QED
    BY <1>1, <2>1, <2>2 DEF OneDelete, DialogTellsDeletes
<1> QED
  BY <1>1 DEF OneDelete, DialogTellsDeletes

\* A completed round has a result for every row.
LEMMA CompleteRounds ==
  ASSUME TypeOK, NEW k \in Rounds, Complete(k)
  PROVE  [i \in Rows |-> rounds[k][i].got] \in [Rows -> Known \cup Faults]
<1>1. rounds[k] \in [Rows -> Results \cup {NotRead}]
  BY DEF TypeOK, Complete
<1>2. \A i \in Rows : rounds[k][i] \in Results
  BY <1>1 DEF Complete
<1> QED
  BY <1>2 DEF Results

\* What a get returns, and that the fate of a delete is one the model handles.
LEMMA AnswersTyped ==
  /\ \A pod \in Known : GetPod(pod) \subseteq Known \cup Faults
  /\ Errors \subseteq Faults
  /\ DeletePod(404) = "ok" /\ DeletePod(200) = "ok"
<1>1. Classify(404) = "absent"
  BY DEF Classify
<1>2. Errors \subseteq Faults
  BY DEF Errors
<1> QED
  BY <1>1, <1>2 DEF GetPod, DeletePod, Known

-----------------------------------------------------------------------------
\* The step of Console that each step is, if any.
LEMMA StepImplements ==
  ASSUME Inv, [Next]_vars
  PROVE  [UiNext]_ui
<1>1. CASE Keys
  BY <1>1 DEF Keys, UiNext
<1>2. CASE Confirm
  BY <1>2 DEF Confirm, UiNext
<1>3. CASE Quit
  BY <1>3 DEF Quit, UiNext
<1>4. CASE Tick \/ PressR
  BY <1>4 DEF Tick, PressR, Poll, ui
<1>5. ASSUME NEW k \in Rounds, RefreshDone(k) PROVE UiNext
  <2>1. [i \in Rows |-> rounds[k][i].got] \in [Rows -> Known \cup Faults]
    BY <1>5, CompleteRounds DEF RefreshDone, Inv
  <2> QED
    BY <1>5, <2>1 DEF RefreshDone, UiNext
<1>6. ASSUME NEW k \in Rounds, NEW i \in Rows, Get(k, i) PROVE UNCHANGED ui
  BY <1>6 DEF Get
<1>7. ASSUME NEW d \in deletes, DeleteActs(d) \/ DeleteFails(d) PROVE UNCHANGED ui
  BY <1>7 DEF DeleteActs, DeleteFails
<1>8. ASSUME NEW d \in deletes, DeleteDone(d) PROVE UiNext
  <2>1. dialog = "deleting"
    BY DEF Inv, OneDelete
  <2>2. d.answer \in {"ok"} \cup Faults
    BY <1>8 DEF Inv, TypeOK, DeleteDone
  <2> QED
    BY <1>8, <2>1, <2>2 DEF DeleteDone, UiNext
<1>9. ASSUME NEW i \in Rows, PodChanges(i) PROVE UNCHANGED ui
  BY <1>9 DEF PodChanges
<1>10. CASE UNCHANGED vars
  BY <1>10 DEF vars
<1> QED
  BY <1>1, <1>2, <1>3, <1>4, <1>5, <1>6, <1>7, <1>8, <1>9, <1>10 DEF Next

\* No step of the UI changes which rows there are.
LEMMA RowsStay ==
  ASSUME [UiNext]_ui
  PROVE  Rows' = Rows
<1>1. CASE \E results \in [Rows -> Known \cup Faults] : Refreshed(results)
  BY <1>1 DEF Refreshed, Rows
<1>2. CASE rows' = rows
  BY <1>2 DEF Rows
<1> QED
  BY <1>1, <1>2 DEF UiNext, Move, MoveUp, MoveDown, Focus, PressD, PressY, PressN, PressQ, Stop,
     DeleteSettled, Show, ui

LEMMA Initial == Init => Inv
<1> SUFFICES ASSUME Init PROVE Inv
  OBVIOUS
<1>1. UiInv
  BY UiInitial DEF Init
<1>2. rounds \in [Rounds -> {Idle} \cup [Rows -> Results \cup {NotRead}]]
  BY DEF Init, NewRound
<1>3. TypeOK
  BY <1>1, <1>2 DEF Init, TypeOK, UiInv
<1>4. OneDelete
  BY DEF Init, UiInit, OneDelete
<1> QED
  BY <1>1, <1>3, <1>4 DEF Inv

-----------------------------------------------------------------------------
\* The parts of the type invariant beside the UI, and how they are kept.
RoundsOK == rounds \in [Rounds -> {Idle} \cup [Rows -> Results \cup {NotRead}]]
PodsOK == pods \in [Rows -> Known]
DeletesOK == deletes \subseteq [row : Rows, answer : {"pending", "ok"} \cup Faults]

LEMMA Parts ==
  ASSUME Rows' = Rows, UiInv', RoundsOK', PodsOK', DeletesOK', OneDelete',
         refreshing' \in BOOLEAN, old' \subseteq Rows
  PROVE  Inv'
BY DEF Inv, TypeOK, UiInv, RoundsOK, PodsOK, DeletesOK

LEMMA StartTyped ==
  ASSUME RoundsOK, Rows' = Rows, NEW free \in SUBSET Rounds, StartRound(free)
  PROVE  RoundsOK' /\ refreshing' \in BOOLEAN
BY DEF RoundsOK, StartRound, NewRound

\* The outcome of a delete call arrives: still one call, for the same row.
LEMMA AnswerTyped ==
  ASSUME DeletesOK, OneDelete, Rows' = Rows, UNCHANGED ui,
         NEW d \in deletes, NEW answer \in {"ok"} \cup Faults, Answer(d, answer)
  PROVE  DeletesOK' /\ OneDelete'
<1>1. deletes = {d} /\ dialog = "deleting" /\ d.row = selected
  BY DEF OneDelete
<1>2. d \in [row : Rows, answer : {"pending", "ok"} \cup Faults]
  BY DEF DeletesOK
<1>3. deletes' = {[d EXCEPT !.answer = answer]}
  BY <1>1 DEF Answer
<1>4. [d EXCEPT !.answer = answer].row = selected
  BY <1>1, <1>2
<1>5. [d EXCEPT !.answer = answer] \in [row : Rows, answer : {"pending", "ok"} \cup Faults]
  BY <1>2
<1>6. DeletesOK'
  BY <1>3, <1>5 DEF DeletesOK
<1>7. OneDelete'
  BY <1>1, <1>3, <1>4 DEF OneDelete, ui
<1> QED
  BY <1>6, <1>7

LEMMA OutdateTyped ==
  ASSUME RoundsOK, Rows' = Rows, old \subseteq Rows, NEW i \in Rows, Outdate(i)
  PROVE  RoundsOK' /\ old' \subseteq Rows
<1>1. CASE i \notin Watched
  BY <1>1 DEF Outdate, RoundsOK
<1>2. CASE i \in Watched
  <2>1. rounds' = [k \in Rounds |->
            IF rounds[k] = Idle \/ rounds[k][i].got \notin Known THEN rounds[k]
            ELSE [rounds[k] EXCEPT ![i].old = TRUE]]
    BY <1>2 DEF Outdate
  <2>2. ASSUME NEW k \in Rounds, rounds[k] # Idle, rounds[k][i].got \in Known
        PROVE  [rounds[k] EXCEPT ![i].old = TRUE] \in [Rows -> Results \cup {NotRead}]
    <3>1. rounds[k] \in [Rows -> Results \cup {NotRead}]
      BY <2>2 DEF RoundsOK
    <3>2. rounds[k][i] \in Results
      BY <2>2, <3>1, ConsoleAssumption DEF NotRead, Known, Ending, ConsoleAssumption
    <3>3. [rounds[k][i] EXCEPT !.old = TRUE] \in Results
      BY <3>2 DEF Results
    <3> QED
      BY <3>1, <3>3
  <2>3. RoundsOK'
    BY <2>1, <2>2 DEF RoundsOK
  <2>4. old' \subseteq Rows
    BY <1>2 DEF Outdate
  <2> QED
    BY <2>3, <2>4
<1> QED
  BY <1>1, <1>2

LEMMA Step == Inv /\ [Next]_vars => Inv'
<1> SUFFICES ASSUME Inv, [Next]_vars PROVE Inv'
  OBVIOUS
<1>u. UiInv'
  BY StepImplements, UiStep DEF Inv
<1>r. Rows' = Rows
  BY StepImplements, RowsStay
<1>t. /\ RoundsOK /\ PodsOK /\ DeletesOK /\ OneDelete
      /\ refreshing \in BOOLEAN /\ old \subseteq Rows
  BY DEF Inv, TypeOK, RoundsOK, PodsOK, DeletesOK
<1>1. CASE Keys
  <2>1. UNCHANGED <<rounds, deletes, refreshing, old, pods>>
        /\ dialog # "deleting" /\ dialog' # "deleting"
    BY <1>1 DEF Keys, work, Move, MoveUp, MoveDown, Focus, PressD, PressN, PressQ, Show, InList, DialogAccepts
  <2>2. RoundsOK' /\ PodsOK' /\ DeletesOK' /\ OneDelete'
    BY <1>r, <1>t, <2>1 DEF RoundsOK, PodsOK, DeletesOK, OneDelete
  <2> QED
    BY <1>u, <1>r, <1>t, <2>1, <2>2, Parts
<1>2. CASE Confirm
  <2>1. UNCHANGED <<rounds, refreshing, old, pods, selected>> /\ dialog = "confirm"
    BY <1>2 DEF Confirm, PressY, Show, DialogAccepts
  <2>2. deletes = {}
    BY <1>t, <2>1 DEF OneDelete
  <2>3. \/ dialog' = "deleting" /\ deletes' = {[row |-> selected, answer |-> "pending"]}
           /\ conn = "live"
        \/ dialog' = "none" /\ deletes' = {}
    BY <1>2, <2>2 DEF Confirm, PressY, Show
  <2>4. selected \in Rows
    BY <2>1 DEF Inv, UiInv, DialogHasRow
  <2>5. RoundsOK' /\ PodsOK'
    BY <1>r, <1>t, <2>1 DEF RoundsOK, PodsOK
  <2>6. DeletesOK'
    BY <1>r, <2>3, <2>4 DEF DeletesOK
  <2>7. OneDelete'
    <3>1. CASE dialog' = "none" /\ deletes' = {}
      BY <3>1 DEF OneDelete
    <3>2. CASE dialog' = "deleting" /\ deletes' = {[row |-> selected, answer |-> "pending"]}
      <4>1. selected' = selected
        BY <2>1
      <4>2. \E d : deletes' = {d} /\ d.row = selected
        <5>1. [row |-> selected, answer |-> "pending"].row = selected
          OBVIOUS
        <5> QED
          BY <3>2, <5>1
      <4> QED
        BY <3>2, <4>1, <4>2 DEF OneDelete
    <3> QED
      BY <2>3, <3>1, <3>2
  <2> QED
    BY <1>u, <1>r, <1>t, <2>1, <2>5, <2>6, <2>7, Parts
<1>3. CASE Quit
  <2>1. UNCHANGED <<deletes, refreshing, old, pods>> /\ UNCHANGED <<dialog, selected>>
        /\ rounds' = [k \in Rounds |-> Idle]
    BY <1>3 DEF Quit, Stop
  <2>2. RoundsOK' /\ PodsOK' /\ DeletesOK' /\ OneDelete'
    BY <1>r, <1>t, <2>1 DEF RoundsOK, PodsOK, DeletesOK, OneDelete
  <2> QED
    BY <1>u, <1>r, <1>t, <2>1, <2>2, Parts
<1>4. CASE Tick \/ PressR
  <2>1. StartRound(Rounds \ {AfterDelete}) /\ UNCHANGED <<ui, deletes, old, pods>>
    BY <1>4 DEF Tick, PressR, Poll
  <2>2. RoundsOK' /\ refreshing' \in BOOLEAN
    BY <1>r, <1>t, <2>1, StartTyped
  <2>3. PodsOK' /\ DeletesOK' /\ OneDelete'
    BY <1>r, <1>t, <2>1 DEF PodsOK, DeletesOK, OneDelete, ui
  <2> QED
    BY <1>u, <1>r, <1>t, <2>1, <2>2, <2>3, Parts
<1>5. ASSUME NEW k \in Rounds, RefreshDone(k) PROVE Inv'
  <2>1. UNCHANGED <<dialog, selected, deletes, pods>> /\ refreshing' = FALSE
        /\ rounds' = [rounds EXCEPT ![k] = Idle] /\ old' \subseteq Rows
    BY <1>5 DEF RefreshDone, Refreshed
  <2>2. RoundsOK' /\ PodsOK' /\ DeletesOK' /\ OneDelete'
    BY <1>r, <1>t, <2>1 DEF RoundsOK, PodsOK, DeletesOK, OneDelete
  <2> QED
    BY <1>u, <1>r, <2>1, <2>2, Parts
<1>6. ASSUME NEW k \in Rounds, NEW i \in Rows, Get(k, i) PROVE Inv'
  <2>1. PICK got \in Known \cup Faults :
          rounds' = [rounds EXCEPT ![k][i] = [got |-> got, old |-> FALSE]]
    BY <1>6, <1>t, AnswersTyped DEF Get, PodsOK
  <2>2. rounds[k] # Idle /\ UNCHANGED <<ui, deletes, refreshing, old, pods>>
    BY <1>6 DEF Get
  <2>3. [rounds[k] EXCEPT ![i] = [got |-> got, old |-> FALSE]] \in [Rows -> Results \cup {NotRead}]
    BY <1>t, <2>2 DEF RoundsOK, Results
  <2>4. RoundsOK'
    BY <1>r, <1>t, <2>1, <2>3 DEF RoundsOK
  <2>5. PodsOK' /\ DeletesOK' /\ OneDelete'
    BY <1>r, <1>t, <2>2 DEF PodsOK, DeletesOK, OneDelete, ui
  <2> QED
    BY <1>u, <1>r, <1>t, <2>2, <2>4, <2>5, Parts
<1>7. ASSUME NEW d \in deletes, DeleteActs(d) PROVE Inv'
  <2>1. d.row \in Rows
    BY <1>t DEF DeletesOK
  <2>2. PICK answer \in {"ok"} \cup Faults : Answer(d, answer)
    BY <1>7, AnswersTyped DEF DeleteActs
  <2>3. UNCHANGED <<ui, refreshing>>
    BY <1>7 DEF DeleteActs
  <2>4. DeletesOK' /\ OneDelete'
    BY <1>r, <1>t, <2>2, <2>3, AnswerTyped
  <2>5. PodsOK'
    BY <1>7, <1>r, <1>t, <2>1 DEF DeleteActs, PodsOK, Known, Ending, Deleted
  <2>6. Outdate(d.row) \/ UNCHANGED <<rounds, old>>
    BY <1>7 DEF DeleteActs
  <2>7. RoundsOK' /\ old' \subseteq Rows
    <3>1. CASE Outdate(d.row)
      BY <1>r, <1>t, <2>1, <3>1, OutdateTyped
    <3>2. CASE UNCHANGED <<rounds, old>>
      BY <1>r, <1>t, <3>2 DEF RoundsOK
    <3> QED
      BY <2>6, <3>1, <3>2
  <2> QED
    BY <1>u, <1>r, <1>t, <2>3, <2>4, <2>5, <2>7, Parts
<1>8. ASSUME NEW d \in deletes, DeleteFails(d) PROVE Inv'
  <2>1. PICK answer \in {"ok"} \cup Faults : Answer(d, answer)
    BY <1>8, AnswersTyped DEF DeleteFails
  <2>2. UNCHANGED <<ui, rounds, refreshing, old, pods>>
    BY <1>8 DEF DeleteFails
  <2>3. DeletesOK' /\ OneDelete'
    BY <1>r, <1>t, <2>1, <2>2, AnswerTyped
  <2>4. RoundsOK' /\ PodsOK'
    BY <1>r, <1>t, <2>2 DEF RoundsOK, PodsOK
  <2> QED
    BY <1>u, <1>r, <1>t, <2>2, <2>3, <2>4, Parts
<1>9. ASSUME NEW d \in deletes, DeleteDone(d) PROVE Inv'
  <2>1. deletes' = {} /\ dialog' = "none"
    BY <1>9, <1>t DEF DeleteDone, DeleteSettled, Settled, Show, OneDelete
  <2>2. StartRound({AfterDelete}) /\ UNCHANGED <<old, pods>>
    BY <1>9 DEF DeleteDone
  <2>3. RoundsOK' /\ refreshing' \in BOOLEAN
    BY <1>r, <1>t, <2>2, StartTyped, TuiAssumption DEF TuiAssumption
  <2>4. PodsOK' /\ DeletesOK' /\ OneDelete'
    BY <1>r, <1>t, <2>1, <2>2 DEF PodsOK, DeletesOK, OneDelete
  <2> QED
    BY <1>u, <1>r, <1>t, <2>2, <2>3, <2>4, Parts
<1>10. ASSUME NEW i \in Rows, PodChanges(i) PROVE Inv'
  <2>1. UNCHANGED <<ui, rounds, deletes, refreshing, old>>
    BY <1>10 DEF PodChanges, work
  <2>2. PodsOK'
    BY <1>10, <1>r, <1>t DEF PodChanges, PodsOK, Known, Ending, Deleted
  <2>3. RoundsOK' /\ DeletesOK' /\ OneDelete'
    BY <1>r, <1>t, <2>1 DEF RoundsOK, DeletesOK, OneDelete, ui
  <2> QED
    BY <1>u, <1>r, <1>t, <2>1, <2>2, <2>3, Parts
<1>11. CASE UNCHANGED vars
  <2>1. UNCHANGED <<ui, rounds, deletes, refreshing, old, pods>>
    BY <1>11 DEF vars, work
  <2>2. RoundsOK' /\ PodsOK' /\ DeletesOK' /\ OneDelete'
    BY <1>r, <1>t, <2>1 DEF RoundsOK, PodsOK, DeletesOK, OneDelete, ui
  <2> QED
    BY <1>u, <1>r, <1>t, <2>1, <2>2, Parts
<1> QED
  BY <1>1, <1>2, <1>3, <1>4, <1>5, <1>6, <1>7, <1>8, <1>9, <1>10, <1>11 DEF Next

-----------------------------------------------------------------------------
\* How each step changes the number of rounds under way.
LEMMA BusyIsFinite == IsFiniteSet(Busy) /\ Cardinality(Busy) \in Nat
<1>1. IsFiniteSet(Rounds)
  BY TuiAssumption DEF TuiAssumption
<1>2. Busy \subseteq Rounds
  BY DEF Busy
<1> QED
  BY <1>1, <1>2, FS_Subset, FS_CardinalityType

LEMMA NoMoreBusy ==
  ASSUME \A k \in Rounds : rounds[k] = Idle => rounds'[k] = Idle
  PROVE  Cardinality(Busy') <= Cardinality(Busy) /\ Cardinality(Busy') \in Nat
<1>1. Busy' \subseteq Busy
  BY DEF Busy
<1>2. IsFiniteSet(Busy')
  BY <1>1, BusyIsFinite, FS_Subset
<1> QED
  BY <1>1, <1>2, BusyIsFinite, FS_Subset, FS_CardinalityType

LEMMA OneLessBusy ==
  ASSUME NEW k \in Rounds, RoundsOK, rounds[k] # Idle, rounds' = [rounds EXCEPT ![k] = Idle]
  PROVE  Cardinality(Busy') = Cardinality(Busy) - 1
<1>1. Busy' = Busy \ {k}
  BY DEF Busy, RoundsOK
<1>2. k \in Busy
  BY DEF Busy
<1> QED
  BY <1>1, <1>2, BusyIsFinite, FS_RemoveElement

LEMMA OneMoreBusy ==
  ASSUME RoundsOK, NEW free \in SUBSET Rounds, StartRound(free)
  PROVE  Cardinality(Busy') \in {Cardinality(Busy), Cardinality(Busy) + 1}
<1>1. PICK k \in free : rounds[k] = Idle /\ rounds' = [rounds EXCEPT ![k] = NewRound]
  BY DEF StartRound
<1>2. Busy' = Busy \/ Busy' = Busy \cup {k}
  BY <1>1 DEF Busy, RoundsOK
<1>3. k \notin Busy
  BY <1>1 DEF Busy
<1>4. CASE Busy' = Busy
  BY <1>4
<1>5. CASE Busy' = Busy \cup {k}
  BY <1>3, <1>5, BusyIsFinite, FS_AddElement
<1> QED
  BY <1>2, <1>4, <1>5

LEMMA LoadStays ==
  ASSUME \A k \in Rounds : rounds[k] = Idle => rounds'[k] = Idle, refreshing' = refreshing
  PROVE  Load' <= Load
<1>1. MayAdd' = MayAdd /\ MayAdd \in Nat
  BY DEF MayAdd
<1>2. Load = Cardinality(Busy) + MayAdd
  BY DEF Load
<1>3. Load' = Cardinality(Busy') + MayAdd
  BY <1>1 DEF Load
<1> QED
  BY <1>1, <1>2, <1>3, NoMoreBusy, BusyIsFinite

LEMMA LoadStep ==
  ASSUME Inv, [Next]_vars
  PROVE  \/ Load' <= Load
         \/ Load' = Load + 1 /\ \E d \in deletes : d.answer # "pending" /\ deletes' = deletes \ {d}
<1>r. RoundsOK
  BY DEF Inv, TypeOK, RoundsOK
<1>n. Cardinality(Busy) \in Nat
  BY BusyIsFinite
<1>l. Load = Cardinality(Busy) + MayAdd /\ Load' = Cardinality(Busy') + MayAdd'
  BY DEF Load
<1>1. CASE Keys \/ Confirm \/ (\E d \in deletes : DeleteFails(d)) \/ (\E i \in Rows : PodChanges(i))
           \/ UNCHANGED vars
  <2>1. UNCHANGED <<rounds, refreshing>>
    BY <1>1 DEF Keys, Confirm, DeleteFails, PodChanges, work, vars
  <2> QED
    BY <2>1, LoadStays
<1>2. CASE Quit
  BY <1>2, LoadStays DEF Quit
<1>3. CASE Tick \/ PressR
  <2>1. StartRound(Rounds \ {AfterDelete}) /\ ~refreshing /\ refreshing'
    BY <1>3 DEF Tick, PressR, Poll, MayPoll, StartRound
  <2>2. MayAdd = 1 /\ MayAdd' = 0
    BY <2>1 DEF MayAdd
  <2>3. Cardinality(Busy') \in {Cardinality(Busy), Cardinality(Busy) + 1}
    BY <1>r, <2>1, OneMoreBusy
  <2> QED
    BY <1>n, <1>l, <2>2, <2>3
<1>4. ASSUME NEW k \in Rounds, RefreshDone(k) PROVE Load' <= Load
  <2>1. rounds[k] # Idle /\ rounds' = [rounds EXCEPT ![k] = Idle]
    BY <1>4 DEF RefreshDone, Complete
  <2>2. Cardinality(Busy') = Cardinality(Busy) - 1
    BY <1>r, <2>1, OneLessBusy
  <2>3. MayAdd \in {0, 1} /\ MayAdd' \in {0, 1}
    BY DEF MayAdd
  <2> QED
    BY <1>n, <1>l, <2>2, <2>3
<1>5. ASSUME NEW k \in Rounds, NEW i \in Rows, Get(k, i) PROVE Load' <= Load
  <2>1. PICK got : rounds' = [rounds EXCEPT ![k][i] = [got |-> got, old |-> FALSE]]
    BY <1>5 DEF Get
  <2>2. \A j \in Rounds : rounds[j] = Idle => rounds'[j] = Idle
    BY <1>5, <1>r, <2>1 DEF Get, RoundsOK
  <2> QED
    BY <1>5, <2>2, LoadStays DEF Get
<1>6. ASSUME NEW d \in deletes, DeleteActs(d) PROVE Load' <= Load
  <2>1. Outdate(d.row) \/ UNCHANGED rounds
    BY <1>6 DEF DeleteActs
  <2>2. \A k \in Rounds : rounds[k] = Idle => rounds'[k] = Idle
    BY <2>1 DEF Outdate
  <2> QED
    BY <1>6, <2>2, LoadStays DEF DeleteActs
<1>7. ASSUME NEW d \in deletes, DeleteDone(d)
      PROVE  \/ Load' <= Load
             \/ Load' = Load + 1 /\ d.answer # "pending" /\ deletes' = deletes \ {d}
  <2>1. StartRound({AfterDelete}) /\ refreshing' /\ d.answer # "pending" /\ deletes' = deletes \ {d}
    BY <1>7 DEF DeleteDone, StartRound
  <2>2. MayAdd \in {0, 1} /\ MayAdd' = 0
    BY <2>1 DEF MayAdd
  <2>3. Cardinality(Busy') \in {Cardinality(Busy), Cardinality(Busy) + 1}
    BY <1>r, <2>1, OneMoreBusy, TuiAssumption DEF TuiAssumption
  <2>4. Load' <= Load \/ Load' = Load + 1
    BY <1>n, <1>l, <2>2, <2>3
  <2> QED
    BY <2>1, <2>4
<1> QED
  BY <1>1, <1>2, <1>3, <1>4, <1>5, <1>6, <1>7 DEF Next

-----------------------------------------------------------------------------
\* The state of the UI and of its calls in flight is typed.
THEOREM TypeCorrect == Spec => []TypeOK
<1>1. Inv => TypeOK
  BY DEF Inv
<1> QED
  BY Initial, Step, <1>1, PTL DEF Spec

\* A delete call is in flight exactly while the dialog says so, one at a time and
\* for the row it shows, also for what is typed between q and the end of the program
\* (model.go listKey, dialogKey, delete, Update).
THEOREM OneDeleteAtATime == Spec => []DialogTellsDeletes
<1>1. Inv => DialogTellsDeletes
  BY CountOfOne DEF Inv
<1> QED
  BY Initial, Step, <1>1, PTL DEF Spec

\* However slow the API is, ticks do not pile rounds up: how many may run at once
\* grows only with the deletes that end (model.go Update).
THEOREM PollsAreBounded == Spec => PollsDoNotPileUp
<1>1. Inv /\ [Next]_vars =>
        [ \/ Load' <= Load
          \/ Load' = Load + 1 /\ \E d \in deletes : d.answer # "pending" /\ deletes' = deletes \ {d} ]_vars
  BY LoadStep
<1> QED
  BY Initial, Step, <1>1, PTL DEF Spec, PollsDoNotPileUp

\* The UI with everything in flight implements Console: every step is one of its
\* steps or not seen.
THEOREM Implements == Spec => ImplementsConsole
<1>1. Init => UiInit
  BY DEF Init
<1>2. Inv /\ [Next]_vars => [UiNext]_ui
  BY StepImplements
<1> QED
  BY Initial, Step, <1>1, <1>2, PTL DEF Spec, ImplementsConsole, UiSpec

\* So Live is honest whatever rounds and deletes are under way.
THEOREM LiveStaysHonest == Spec => []LiveMeansCurrent
<1> QED
  BY Implements, LiveIsHonest, PTL DEF ImplementsConsole
=====================================================================================================================================================
