--------------------------- MODULE Console_proofs ---------------------------
(***************************************************************************)
(* The honesty of the management UI, for any number of templates, pod      *)
(* states and failures: what Console allows the user to see is typed, Live *)
(* means current, and a message on a Live screen is true of it.  Whatever  *)
(* implements Console, such as SettingsTui, has these properties too.      *)
(***************************************************************************)
EXTENDS Console, FiniteSetTheorems, TLAPS

\* The rows are numbered from one.
LEMMA RowsAreNumbered ==
  ASSUME UiTypeOK
  PROVE  \E n \in 0..N : /\ Rows = 1..n /\ Cardinality(Rows) = n
                         /\ rows \in [1..n -> RowStates]
<1>1. PICK n \in 0..N : rows \in [1..n -> RowStates]
  BY DEF UiTypeOK
<1>2. Rows = 1..n
  BY <1>1 DEF Rows
<1>3. Cardinality(1..n) = n
  BY <1>1, ConsoleAssumption, FS_Interval DEF ConsoleAssumption
<1> QED
  BY <1>1, <1>2, <1>3

\* The result of a get makes a row of a row.
LEMMA ResultsMakeRows ==
  ASSUME NEW row \in RowStates, NEW result \in Known \cup Faults
  PROVE  /\ ApplyResult(row, result) \in RowStates
         /\ result \notin Faults =>
              ApplyResult(row, result) = [state |-> result, stale |-> FALSE, reconnect |-> FALSE]
<1>1. CASE result = "forbidden"
  <2>1. result \in Faults
    BY <1>1, ConsoleAssumption DEF ConsoleAssumption, Known, Ending
  <2>2. ApplyResult(row, result) =
          [state |-> IF row.state = "checking" THEN "forbidden" ELSE row.state,
           stale |-> Faded(row), reconnect |-> TRUE]
    BY <1>1 DEF ApplyResult
  <2>3. Faded(row) \in BOOLEAN
    BY DEF Faded, HasPhase
  <2>4. ApplyResult(row, result) \in RowStates
    BY <2>2, <2>3 DEF RowStates
  <2> QED BY <2>1, <2>4
<1>2. CASE result = "failed"
  <2>1. result \in Faults
    BY <1>2, ConsoleAssumption DEF ConsoleAssumption, Known, Ending
  <2>2. ApplyResult(row, result) =
          [state |-> IF row.state = "checking" THEN "unavailable" ELSE row.state,
           stale |-> Faded(row), reconnect |-> FALSE]
    BY <1>2 DEF ApplyResult
  <2>3. Faded(row) \in BOOLEAN
    BY DEF Faded, HasPhase
  <2>4. ApplyResult(row, result) \in RowStates
    BY <2>2, <2>3 DEF RowStates
  <2> QED BY <2>1, <2>4
<1>3. CASE result \notin {"forbidden", "failed"}
  <2>1. result \in Known
    BY <1>3, ConsoleAssumption DEF ConsoleAssumption
  <2>2. ApplyResult(row, result) = [state |-> result, stale |-> FALSE, reconnect |-> FALSE]
    BY <1>3 DEF ApplyResult
  <2> QED BY <2>1, <2>2 DEF RowStates
<1> QED
  BY <1>1, <1>2, <1>3

\* Every line the code writes is a message.
LEMMA MessagesTyped ==
  /\ NoMessage \in Messages
  /\ \A why \in {"none", "nothing", "stale", "notCreated", "cancelled", "refused", "failed"},
        i \in Rows \cup {0}, c \in {"", "checking", "partial", "unreachable"} :
       Says(why, i, c) \in Messages
  BY DEF Messages, Says, NoMessage

\* A line that names no connection, no row and no empty list is true of any screen,
\* as long as no dialog is open beside it.
LEMMA NoNameIsTrue ==
  ASSUME NEW why \in {"none", "stale", "cancelled", "refused", "failed"},
         message' = Says(why, 0, "") \/ (message' = Says(why, 0, conn') /\ conn' # "live"),
         dialog' = "none" \/ message' = NoMessage
  PROVE  MessageTrueWhenLive'
<1>1. message'.why = why /\ message'.row = 0 /\ (conn' = "live" => message'.conn = "")
  <2>1. CASE message' = Says(why, 0, "")
    BY <2>1 DEF Says
  <2>2. CASE message' = Says(why, 0, conn') /\ conn' # "live"
    BY <2>2 DEF Says
  <2> QED
    BY <2>1, <2>2
<1> QED
  BY <1>1 DEF MessageTrueWhenLive, NoMessage, Says

LEMMA NoMessageIsTrue == ASSUME message' = NoMessage PROVE MessageTrueWhenLive'
  BY NoNameIsTrue DEF NoMessage

-----------------------------------------------------------------------------
\* A dialog is about a row: clamp never has to make one up.
DialogHasRow == dialog # "none" => selected \in Rows

UiInv == UiTypeOK /\ LiveMeansCurrent /\ MessageTrueWhenLive /\ DialogHasRow

LEMMA UiInitial == UiInit => UiInv
<1> SUFFICES ASSUME UiInit PROVE UiInv
  OBVIOUS
<1>1. PICK n \in 0..N :
        rows = [i \in 1..n |-> [state |-> "checking", stale |-> FALSE, reconnect |-> FALSE]]
  BY DEF UiInit
<1>2. rows \in [1..n -> RowStates] /\ Rows = 1..n
  BY <1>1 DEF RowStates, Rows
<1>3. n = 0 => Rows = {}
  BY <1>2
<1>4. n # 0 => 1 \in Rows
  BY <1>2, ConsoleAssumption DEF ConsoleAssumption
<1>5. UiTypeOK
  <2>1. message \in Messages
    BY MessagesTyped DEF UiInit
  <2>2. selected \in Rows \/ (Rows = {} /\ selected = 1)
    BY <1>3, <1>4 DEF UiInit
  <2> QED
    BY <1>2, <2>1, <2>2 DEF UiTypeOK, UiInit
<1> QED
  BY <1>5 DEF UiInv, LiveMeansCurrent, MessageTrueWhenLive, DialogHasRow, UiInit, NoMessage, Says

LEMMA RefreshedKeeps ==
  ASSUME UiInv, NEW results \in [Rows -> Known \cup Faults], Refreshed(results)
  PROVE  UiInv'
<1>1. PICK n \in 0..N : Rows = 1..n /\ rows \in [1..n -> RowStates]
  BY RowsAreNumbered DEF UiInv
<1>2. Rows' = Rows /\ rows' \in [1..n -> RowStates]
  BY <1>1, ResultsMakeRows DEF Refreshed, Rows
<1>3. conn' \in {"live", "partial", "unreachable"} /\ (conn' = "live" => Failed(results) = {} \/ Rows = {})
  BY DEF Refreshed, Connection, Failed
<1>4. message' = NoMessage \/ (message' = message /\ conn' # "live")
  BY DEF Refreshed, AfterRound
<1>5. UiTypeOK'
  <2>1. Messages' = Messages
    BY <1>2 DEF Messages
  <2>2. message' \in Messages
    BY <1>4, MessagesTyped DEF UiInv, UiTypeOK
  <2> QED
    BY <1>2, <1>3, <2>1, <2>2 DEF UiInv, UiTypeOK, Refreshed
<1>6. LiveMeansCurrent'
  <2> SUFFICES ASSUME conn' = "live", NEW i \in Rows'
               PROVE  rows'[i].state \in Known /\ ~rows'[i].stale /\ ~rows'[i].reconnect
    BY <1>2 DEF LiveMeansCurrent
  <2>1. i \in Rows /\ results[i] \notin Faults /\ results[i] \in Known
    BY <1>2, <1>3 DEF Failed
  <2>2. rows'[i] = ApplyResult(rows[i], results[i])
    BY <2>1 DEF Refreshed
  <2>3. rows[i] \in RowStates
    BY <1>1, <2>1
  <2>4. rows'[i] = [state |-> results[i], stale |-> FALSE, reconnect |-> FALSE]
    BY <2>1, <2>2, <2>3, ResultsMakeRows
  <2> QED
    BY <2>1, <2>4
<1>7. MessageTrueWhenLive'
  <2>1. CASE message' = NoMessage
    BY <2>1, NoMessageIsTrue
  <2>2. CASE message' = message /\ conn' # "live"
    BY <1>2, <2>2 DEF UiInv, MessageTrueWhenLive, Refreshed
  <2> QED
    BY <1>4, <2>1, <2>2
<1>8. DialogHasRow'
  BY <1>2 DEF UiInv, DialogHasRow, Refreshed
<1> QED
  BY <1>5, <1>6, <1>7, <1>8 DEF UiInv

\* Everything but a round leaves rows and connection alone.
LEMMA KeysKeep ==
  ASSUME UiInv, UNCHANGED <<rows, conn>>,
         program' \in {"running", "quitting", "stopped"}, message' \in Messages,
         dialog' \in {"none", "confirm", "deleting"},
         selected' = selected \/ selected' \in Rows,
         MessageTrueWhenLive', DialogHasRow'
  PROVE  UiInv'
<1>1. Rows' = Rows
  BY DEF Rows
<1>2. UiTypeOK'
  BY <1>1 DEF UiInv, UiTypeOK, Messages
<1>3. LiveMeansCurrent'
  BY <1>1 DEF UiInv, LiveMeansCurrent
<1> QED
  BY <1>2, <1>3 DEF UiInv

LEMMA UiStep == UiInv /\ [UiNext]_ui => UiInv'
<1> SUFFICES ASSUME UiInv, [UiNext]_ui PROVE UiInv'
  OBVIOUS
<1>r. (rows' = rows) => Rows' = Rows
  BY DEF Rows
<1>t. /\ program \in {"running", "quitting", "stopped"} /\ message \in Messages
      /\ dialog \in {"none", "confirm", "deleting"}
  BY DEF UiInv, UiTypeOK
<1>s. Rows # {} => selected \in Rows
  BY DEF UiInv, UiTypeOK
<1>1. CASE \E results \in [Rows -> Known \cup Faults] : Refreshed(results)
  BY <1>1, RefreshedKeeps
<1>2. CASE Move
  <2>1. PICK n \in 0..N : Rows = 1..n /\ Cardinality(Rows) = n
    BY RowsAreNumbered DEF UiInv
  <2>2. UNCHANGED <<rows, conn, dialog, message, program>>
    BY <1>2 DEF Move, MoveUp, MoveDown, Focus
  <2>3. selected' \in Rows
    <3>1. selected \in Int /\ n \in Nat /\ (selected \in 1..n \/ selected = 1)
      BY <2>1, ConsoleAssumption DEF UiInv, UiTypeOK, ConsoleAssumption
    <3>2. (selected < n /\ selected' = selected + 1) \/ (selected > 1 /\ selected' = selected - 1)
      BY <1>2, <2>1 DEF Move, MoveUp, MoveDown, Focus
    <3> QED
      BY <2>1, <3>1, <3>2
  <2>4. MessageTrueWhenLive' /\ DialogHasRow'
    BY <1>r, <2>2, <2>3 DEF UiInv, MessageTrueWhenLive, DialogHasRow, BoxExists
  <2>5. Messages' = Messages
    BY <1>r, <2>2 DEF Messages
  <2> QED
    BY <1>t, <2>2, <2>3, <2>4, <2>5, KeysKeep
<1>3. CASE PressD
  <2>1. UNCHANGED <<rows, conn, selected, program>>
    BY <1>3 DEF PressD, Show
  <2>2. \/ Rows = {} /\ dialog' = "none" /\ message' = Says("nothing", 0, "")
        \/ conn # "live" /\ dialog' = "none" /\ message' = Says("stale", 0, conn)
        \/ /\ Rows # {} /\ ~BoxExists(rows[selected]) /\ dialog' = "none"
           /\ message' = Says("notCreated", selected, "")
        \/ Rows # {} /\ dialog' = "confirm" /\ message' = NoMessage
    BY <1>3 DEF PressD, Show
  <2>3. message' \in Messages
    <3>1. CASE Rows = {} /\ message' = Says("nothing", 0, "")
      BY <3>1, MessagesTyped
    <3>2. CASE conn # "live" /\ message' = Says("stale", 0, conn)
      BY <3>2, MessagesTyped DEF UiInv, UiTypeOK
    <3>3. CASE Rows # {} /\ message' = Says("notCreated", selected, "")
      BY <1>s, <3>3, MessagesTyped
    <3>4. CASE message' = NoMessage
      BY <3>4, MessagesTyped
    <3> QED
      BY <2>2, <3>1, <3>2, <3>3, <3>4
  <2>4. MessageTrueWhenLive'
    <3>1. CASE dialog' = "none" /\ Rows = {} /\ message' = Says("nothing", 0, "")
      BY <1>r, <2>1, <3>1, MessagesTyped DEF Says, NoMessage, MessageTrueWhenLive
    <3>2. CASE dialog' = "none" /\ conn # "live" /\ message' = Says("stale", 0, conn)
      BY <2>1, <3>2, NoNameIsTrue
    <3>3. CASE /\ dialog' = "none" /\ ~BoxExists(rows[selected])
               /\ message' = Says("notCreated", selected, "")
      BY <1>r, <2>1, <3>3, MessagesTyped DEF Says, NoMessage, MessageTrueWhenLive, BoxExists
    <3>4. CASE message' = NoMessage
      BY <3>4, NoMessageIsTrue
    <3> QED
      BY <2>2, <3>1, <3>2, <3>3, <3>4
  <2>5. DialogHasRow'
    BY <1>r, <1>s, <2>1, <2>2 DEF DialogHasRow
  <2>6. Messages' = Messages /\ dialog' \in {"none", "confirm"}
    BY <1>r, <2>1, <2>2 DEF Messages
  <2> QED
    BY <1>t, <2>1, <2>3, <2>4, <2>5, <2>6, KeysKeep
<1>4. CASE PressY
  <2>1. UNCHANGED <<rows, conn, selected, program>>
    BY <1>4 DEF PressY, Show
  <2>2. message = NoMessage
    BY <1>4 DEF PressY, DialogAccepts, UiInv, MessageTrueWhenLive
  <2>3. \/ dialog' = "deleting" /\ message' = NoMessage
        \/ dialog' = "none" /\ message' = Says("cancelled", 0, conn) /\ conn # "live"
    BY <1>4, <2>2 DEF PressY, Show
  <2>4. MessageTrueWhenLive'
    <3>1. CASE message' = NoMessage
      BY <3>1, NoMessageIsTrue
    <3>2. CASE dialog' = "none" /\ message' = Says("cancelled", 0, conn) /\ conn # "live"
      BY <2>1, <3>2, NoNameIsTrue
    <3> QED
      BY <2>3, <3>1, <3>2
  <2>5. DialogHasRow'
    BY <1>4, <1>r, <2>1, <2>3 DEF DialogHasRow, UiInv, PressY, DialogAccepts
  <2>6. message' \in Messages
    BY <2>3, MessagesTyped DEF UiInv, UiTypeOK
  <2>7. Messages' = Messages
    BY <1>r, <2>1 DEF Messages
  <2> QED
    BY <1>t, <2>1, <2>3, <2>4, <2>5, <2>6, <2>7, KeysKeep
<1>5. CASE PressN
  <2>1. UNCHANGED <<rows, conn, selected, message, program>> /\ dialog' = "none"
    BY <1>5 DEF PressN, Show
  <2>2. MessageTrueWhenLive' /\ DialogHasRow'
    BY <1>r, <2>1 DEF UiInv, MessageTrueWhenLive, DialogHasRow, BoxExists
  <2>3. Messages' = Messages
    BY <1>r, <2>1 DEF Messages
  <2> QED
    BY <1>t, <2>1, <2>2, <2>3, KeysKeep
<1>6. CASE PressQ \/ Stop
  <2>1. /\ UNCHANGED <<rows, conn, selected, dialog, message>>
        /\ program' \in {"quitting", "stopped"}
    BY <1>6 DEF PressQ, Stop
  <2>2. MessageTrueWhenLive' /\ DialogHasRow'
    BY <1>r, <2>1 DEF UiInv, MessageTrueWhenLive, DialogHasRow, BoxExists
  <2>3. Messages' = Messages
    BY <1>r, <2>1 DEF Messages
  <2> QED
    BY <1>t, <2>1, <2>2, <2>3, KeysKeep
<1>7. CASE \E answer \in {"ok"} \cup Faults : DeleteSettled(answer)
  <2>1. UNCHANGED <<rows, conn, selected, program>> /\ dialog' = "none"
    BY <1>7 DEF DeleteSettled, Show, Settled
  <2>2. message' \in {NoMessage, Says("refused", 0, ""), Says("failed", 0, "")}
    BY <1>7 DEF DeleteSettled, Show
  <2>3. MessageTrueWhenLive' /\ DialogHasRow'
    BY <2>1, <2>2, NoMessageIsTrue, NoNameIsTrue DEF DialogHasRow
  <2>4. message' \in Messages
    BY <2>2, MessagesTyped
  <2>5. Messages' = Messages
    BY <1>r, <2>1 DEF Messages
  <2> QED
    BY <1>t, <2>1, <2>3, <2>4, <2>5, KeysKeep
<1>8. CASE UNCHANGED ui
  <2>1. UNCHANGED <<rows, conn, selected, dialog, message, program>>
    BY <1>8 DEF ui
  <2>2. MessageTrueWhenLive' /\ DialogHasRow'
    BY <1>r, <2>1 DEF UiInv, MessageTrueWhenLive, DialogHasRow, BoxExists
  <2>3. Messages' = Messages
    BY <1>r, <2>1 DEF Messages
  <2> QED
    BY <1>t, <2>1, <2>2, <2>3, KeysKeep
<1> QED
  BY <1>1, <1>2, <1>3, <1>4, <1>5, <1>6, <1>7, <1>8 DEF UiNext

\* What the user sees is always typed: the selection is a row, or 1 in an empty
\* list (model.go clamp).
THEOREM UiTyped == UiSpec => []UiTypeOK
<1>1. UiInv => UiTypeOK
  BY DEF UiInv
<1> QED
  BY UiInitial, UiStep, <1>1, PTL DEF UiSpec

\* Live is only shown over rows that were all read in the latest round (model.go
\* applyRefresh).
THEOREM LiveIsHonest == UiSpec => []LiveMeansCurrent
<1>1. UiInv => LiveMeansCurrent
  BY DEF UiInv
<1> QED
  BY UiInitial, UiStep, <1>1, PTL DEF UiSpec

\* On a Live screen the message line is true: it blames no connection, and calls no
\* existing box not created; and it never stands beside a dialog (model.go listKey,
\* dialogKey, applyRefresh).
THEOREM MessagesAreTrueWhenLive == UiSpec => []MessageTrueWhenLive
<1>1. UiInv => MessageTrueWhenLive
  BY DEF UiInv
<1> QED
  BY UiInitial, UiStep, <1>1, PTL DEF UiSpec
=============================================================================
