------------------------------- MODULE Console -------------------------------
(***************************************************************************)
(* The management UI as its user sees it (settings-tui/model.go): the      *)
(* Bubble Tea model without its commands.  Every action is one message     *)
(* that Update handles: a key, a completed refresh round, the end of a     *)
(* delete call.  What a round brings and when it ends is left open here:   *)
(* any results may come at any time.  SettingsTui adds the calls in flight *)
(* and implements this specification; Screen adds what View makes of it.   *)
(***************************************************************************)
EXTENDS Integers, FiniteSets

CONSTANTS
  N,        \* most templates the owner can have: bounds the model
  Alive,    \* states of a pod that is not being deleted; a "new" one has no phase yet
  Faults    \* how a call may fail: "forbidden" (403), "failed" (all the rest)

ASSUME ConsoleAssumption ==
  /\ N \in Nat
  /\ Alive \subseteq {"running", "pending", "error", "new"}
  /\ Faults \subseteq {"forbidden", "failed"}

VARIABLES
  rows,      \* one row per trusted template, in the order of the list
  conn,      \* connState
  selected,  \* the selected row; 1 in an empty list
  dialog,    \* dialogState
  message,   \* the message line; its wording is left out
  program    \* Bubble Tea's event loop

ui == <<rows, conn, selected, dialog, message, program>>
Running == program # "stopped"

Rows == DOMAIN rows
\* "ending": a pod that is deleted before it has a phase.
Ending == IF "new" \in Alive THEN {"ending"} ELSE {}
Known == Alive \cup {"absent", "terminating"} \cup Ending
RowStates == [state : Known \cup {"checking", "unavailable", "forbidden"},
              stale : BOOLEAN, reconnect : BOOLEAN]
\* Why the line stands there, and the row or the connection it names: "nothing",
\* "stale" and "notCreated" refuse the key d, "cancelled" the key y, "refused" and
\* "failed" report a delete.
Messages == [why : {"none", "nothing", "stale", "notCreated", "cancelled", "refused", "failed"},
             row : Rows \cup {0}, conn : {"", "checking", "partial", "unreachable"}]
Says(why, row, connection) == [why |-> why, row |-> row, conn |-> connection]
NoMessage == Says("none", 0, "")

UiTypeOK ==
  /\ \E n \in 0..N : rows \in [1..n -> RowStates]
  /\ conn \in {"checking", "live", "partial", "unreachable"}
  /\ selected \in Rows \/ (Rows = {} /\ selected = 1)
  /\ dialog \in {"none", "confirm", "deleting"}
  /\ message \in Messages
  /\ program \in {"running", "quitting", "stopped"}

UiInit ==
  /\ \E n \in 0..N :
       rows = [i \in 1..n |-> [state |-> "checking", stale |-> FALSE, reconnect |-> FALSE]]
  /\ conn = "checking" /\ selected = 1
  /\ dialog = "none" /\ message = NoMessage
  /\ program = "running"

-----------------------------------------------------------------------------
(* Refreshing: the results of a round, one for each row, all at once. *)

\* boxExists: rows that never saw their pod cannot vouch for it.
BoxExists(row) == row.state \in Known \ {"absent"}
\* phase # "": rows without a pod have none, nor has a pod that is too young.
HasPhase(row) == row.state \in Known \ {"absent", "new", "ending"}

\* Mutant: a failure keeps the row as it was.
FadedNever(row) == row.stale
\* What is known of a box fades when it cannot be read.
Faded(row) == HasPhase(row)

\* boxRow.apply and the 404 case set the row; a failure keeps what is known,
\* dim, and a row never seen says why.
ApplyResult(row, result) ==
  CASE result = "forbidden" ->
         [state |-> IF row.state = "checking" THEN "forbidden" ELSE row.state,
          stale |-> Faded(row), reconnect |-> TRUE]
    [] result = "failed" ->
         [state |-> IF row.state = "checking" THEN "unavailable" ELSE row.state,
          stale |-> Faded(row), reconnect |-> FALSE]
    [] OTHER -> [state |-> result, stale |-> FALSE, reconnect |-> FALSE]

Failed(results) == {i \in Rows : results[i] \in Faults}

\* Mutant: one row read is sufficient for Live.
ConnectionIfAny(results) ==
  IF Failed(results) = {} \/ Failed(results) # Rows THEN "live" ELSE "unreachable"

Connection(results) ==
  IF Failed(results) = {} THEN "live"
  ELSE IF Failed(results) = Rows THEN "unreachable" ELSE "partial"

\* Mutant: the message line outlives the state it speaks of.
AfterRoundKept == message
\* A screen that is Live again has nothing to report.
AfterRound == IF conn' = "live" THEN NoMessage ELSE message

\* refreshDoneMsg, applyRefresh: the round is applied as a whole.
Refreshed(results) ==
  /\ Running
  /\ rows' = [i \in Rows |-> ApplyResult(rows[i], results[i])]
  /\ conn' = Connection(results)
  /\ message' = AfterRound
  /\ UNCHANGED <<selected, dialog, program>>

-----------------------------------------------------------------------------
(* The keys of the list and of the dialog. *)

InList == Running /\ dialog = "none"

Focus(i) == selected' = i /\ UNCHANGED <<rows, conn, dialog, message, program>>
Show(d, text) == dialog' = d /\ message' = text /\ UNCHANGED <<rows, conn, selected, program>>

\* Mutant: no lower end of the list.
MoveDownUnbounded == Focus(selected + 1)
MoveDown == selected < Cardinality(Rows) /\ Focus(selected + 1)
MoveUp == selected > 1 /\ Focus(selected - 1)
Move == InList /\ (MoveUp \/ MoveDown)

\* d: only for an existing box, only while Live; otherwise the line says why not.
PressD ==
  /\ InList
  /\ \/ Rows = {} /\ Show("none", Says("nothing", 0, ""))
     \/ Rows # {} /\ conn # "live" /\ Show("none", Says("stale", 0, conn))
     \/ /\ Rows # {} /\ conn = "live" /\ ~BoxExists(rows[selected])
        /\ Show("none", Says("notCreated", selected, ""))
     \/ Rows # {} /\ conn = "live" /\ BoxExists(rows[selected]) /\ Show("confirm", NoMessage)

\* Mutant: keys reach the dialog while the delete is in flight.
DialogAcceptsAlways == dialog # "none"
\* A dialog that waits for a delete call ignores every key.
DialogAccepts == dialog = "confirm"

\* y: deletes if the screen is still Live, else cancels.
PressY ==
  /\ Running /\ DialogAccepts
  /\ IF conn = "live" THEN Show("deleting", message)
     ELSE Show("none", Says("cancelled", 0, conn))

PressN == Running /\ DialogAccepts /\ Show("none", message)

\* q and ctrl+c quit from the list only.  They return tea.Quit, a command: what is
\* typed before its QuitMsg arrives is handled as ever, d and y included.
PressQ == InList /\ program' = "quitting" /\ UNCHANGED <<rows, conn, selected, dialog, message>>

\* QuitMsg, after which the event loop handles nothing.
Stop ==
  /\ program = "quitting"
  /\ program' = "stopped" /\ UNCHANGED <<rows, conn, selected, dialog, message>>

\* Mutant: a failed delete leaves the dialog as it is.
SettledKeepsFailure(answer) == IF answer = "ok" THEN "none" ELSE dialog
Settled(answer) == "none"

\* deleteDoneMsg: the dialog is over whatever the answer.
DeleteSettled(answer) ==
  /\ Running
  /\ Show(Settled(answer), CASE answer = "ok" -> NoMessage
                             [] answer = "forbidden" -> Says("refused", 0, "")
                             [] OTHER -> Says("failed", 0, ""))

-----------------------------------------------------------------------------
UiNext ==
  \/ \E results \in [Rows -> Known \cup Faults] : Refreshed(results)
  \/ Move \/ PressD \/ PressY \/ PressN \/ PressQ \/ Stop
  \/ dialog = "deleting" /\ \E answer \in {"ok"} \cup Faults : DeleteSettled(answer)

UiSpec == UiInit /\ [][UiNext]_ui

-----------------------------------------------------------------------------
(* Properties. *)

\* Live is honest: every row was read in the latest round, none is dim, none
\* waits for a reconnect (README "Honesty", model.go applyRefresh).
LiveMeansCurrent ==
  conn = "live" =>
    \A i \in Rows : rows[i].state \in Known /\ ~rows[i].stale /\ ~rows[i].reconnect

\* On a Live screen the message line is true of that screen: it blames no connection,
\* and calls only a row not created that is not.  Under any other connection the
\* line may be older than the screen, and name a connection or a row as they were
\* some rounds ago, until a round makes the screen Live.  It never blames an empty list that
\* is not, nor stands beside a dialog, for which no layout has room (model.go
\* listKey, dialogKey, applyRefresh).
MessageTrueWhenLive ==
  /\ conn = "live" => message.conn = ""
  /\ conn = "live" /\ message.row # 0 => ~BoxExists(rows[message.row])
  /\ message.why = "nothing" => Rows = {}
  /\ dialog # "none" => message = NoMessage
=============================================================================
