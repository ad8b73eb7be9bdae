-------------------------------- MODULE Screen --------------------------------
(***************************************************************************)
(* A settings session from the config server's answer to the screen: the   *)
(* trusted cap (settings.go), start-up (settings-tui main.go, boxes.go),   *)
(* and what View draws of the model in a terminal of any size (view.go).   *)
(*                                                                         *)
(* A screen is a sequence of lines from top to bottom, a line the set of   *)
(* things it shows; text, colours but dim, and clipping at the right edge  *)
(* are left out.  The terminal may be resized at any moment, so the        *)
(* properties speak of every size in Heights and Widths.                   *)
(***************************************************************************)
EXTENDS Console, Sequences

CONSTANTS
  Caps,           \* values of CONTAINERSSH_MAX_PODS_PER_USER; no cap when <= 0
  Heights, Widths,  \* terminal sizes
  TemplateWidth,  \* width of the template column, at least 6
  PopupWidth      \* width of the widest line of the delete popup

ASSUME ScreenAssumption ==
  /\ Caps \subseteq Int
  /\ Heights \subseteq Nat /\ Widths \subseteq Nat
  /\ TemplateWidth \in Nat /\ TemplateWidth >= 6
  /\ PopupWidth \in Nat

VARIABLES
  persistent,  \* config server: CONTAINERSSH_OPERATING_MODE is persistent
  maxPods,     \* config server: the cap it was started with
  maxBoxes,    \* settingsModel.maxBoxes
  session      \* the settings process

vars == <<ui, persistent, maxPods, maxBoxes, session>>

TypeOK ==
  /\ UiTypeOK
  /\ persistent \in BOOLEAN /\ maxPods \in Caps
  /\ maxBoxes \in {0} \cup {c \in Caps : c > 0}
  /\ session \in {"starting", "open", "refused"}

\* persistentTemplates: boxes exist in persistent mode only.
Init ==
  /\ UiInit
  /\ persistent \in BOOLEAN /\ (~persistent => Rows = {})
  /\ maxPods \in Caps /\ maxBoxes = 0
  /\ session = "starting"

\* enforceCap counts only in persistent mode.
CapEnforced == persistent /\ maxPods > 0

\* Mutant: without a cap the UI is told the default one.
HandedDefault(cap) == IF cap <= 0 THEN 3 ELSE cap
\* settingsConfig writes the number as it is, negative or not.
Handed(cap) == cap

\* parseMaxBoxes: anything but a natural number fails closed.
ParseMaxBoxes(cap) == cap >= 0

\* run, newModel: what the config server wrote is parsed once, at the start.
Start ==
  /\ session = "starting"
  /\ IF ParseMaxBoxes(Handed(maxPods))
     THEN session' = "open" /\ maxBoxes' = Handed(maxPods)
     ELSE session' = "refused" /\ UNCHANGED maxBoxes
  /\ UNCHANGED <<ui, persistent, maxPods>>

\* run: no terminal, or one without dimensions for two seconds.
NoTerminal ==
  /\ session = "starting"
  /\ session' = "refused"
  /\ UNCHANGED <<ui, persistent, maxPods, maxBoxes>>

Next ==
  \/ Start \/ NoTerminal
  \/ session = "open" /\ UiNext /\ UNCHANGED <<persistent, maxPods, maxBoxes, session>>

Spec == Init /\ [][Next]_vars

-----------------------------------------------------------------------------
(* What a line can show. *)

Max2(a, b) == IF a > b THEN a ELSE b
Item(what, i, dim) == [what |-> what, row |-> i, dim |-> dim]
Show1(what) == {Item(what, 0, FALSE)}
Blanks(n) == [i \in 1..n |-> {}]
Border == <<{}>>

\* Last-known data is dim.
Dim(row) == row.stale \/ row.reconnect

\* One line per row, in the panes and in the older layouts; an item is dim if the
\* state of the box is.  A row without a pod always is.  In the panes the name of
\* the selected row is bold, and the reset that ends it ends what is dim around it.
MasterRows == [i \in Rows |-> {Item("row", i, ~BoxExists(rows[i]) \/ (Dim(rows[i]) /\ i # selected))}]
RowLines == [i \in Rows |-> {Item("row", i, ~BoxExists(rows[i]) \/ Dim(rows[i]))}]

\* Mutant: the window follows the selection one row late.
ScrollTopLate(n, visible) ==
  LET top == Max2(0, selected - 1 - visible) IN IF top + visible > n THEN n - visible ELSE top
\* scrollRows: how many of n rows are above the window.
ScrollTop(n, visible) ==
  LET top == Max2(0, selected - visible) IN IF top + visible > n THEN n - visible ELSE top

Scroll(lines, visible) ==
  IF Len(lines) <= visible THEN lines
  ELSE LET top == ScrollTop(Len(lines), visible) IN SubSeq(lines, top + 1, top + visible)

\* The widest hints, shorter ones, or just how to quit; with <identity> also the
\* owner and the connection, if there is room for at least one rune of the owner.
ConnectionWidth == CASE conn = "live" -> 7 [] conn = "partial" -> 10
                     [] conn = "unreachable" -> 14 [] OTHER -> 12
Footer(width, identity) ==
  LET keys == IF width >= 44 THEN 43 ELSE 21 IN
    <<Show1("quit")
      \cup (IF identity /\ width >= 22 /\ width - keys - 2 - 7 - ConnectionWidth >= 1
            THEN Show1("connection") ELSE {})>>

-----------------------------------------------------------------------------
(* The panes and the popup: <budget> lines above message and footer. *)

Created == Cardinality({i \in Rows : BoxExists(rows[i])})

\* The cap line, and at the cap the way out.
CapBlock ==
  IF maxBoxes <= 0 THEN <<>>
  ELSE Border \o <<Show1("cap")>> \o (IF Created >= maxBoxes THEN <<Show1("atCap")>> ELSE <<>>)

MasterPane(budget) ==
  LET room == budget - 2 - Len(CapBlock)
      shown == Scroll(MasterRows, Max2(1, room))
  IN Border \o shown \o Blanks(room - Len(shown)) \o CapBlock \o Border

\* Only the honesty line is dropped when the pane does not fit.
Honesty(budget) ==
  IF ~Dim(rows[selected]) \/ 2 + 4 + 4 > budget THEN <<>>
  ELSE <<Show1(IF rows[selected].reconnect THEN "reconnect" ELSE "lastKnown")>>

\* Status strip and ledger, or what is known of a row without a pod.
DetailPane(budget) ==
  LET row == rows[selected]
      strip == Border \o <<{}, {Item("detail", selected, FALSE)}>> \o Honesty(budget) \o Border
      lines == IF BoxExists(row) THEN strip \o Blanks(budget - 5 - Len(strip)) \o Blanks(4)
               ELSE Border \o <<{Item("detail", selected, FALSE)}>>
                    \o (IF row.state = "checking" THEN <<>>
                        ELSE <<Show1(IF row.state = "forbidden" THEN "reconnect" ELSE "how")>>)
  IN lines \o Blanks(budget - 1 - Len(lines)) \o Border

\* zipPanes.
SideBySide(left, right) ==
  [i \in 1..Max2(Len(left), Len(right)) |->
     (IF i <= Len(left) THEN left[i] ELSE {}) \cup (IF i <= Len(right) THEN right[i] ELSE {})]

\* paneWidths: no pane, the master pane, or both.
Panes(budget, width) ==
  LET master == 2 + TemplateWidth + 2 + 11
      rest == width - (master + 4) - 1 - 4
  IN IF budget < 6 \/ width < master + 4 THEN 0 ELSE IF rest < 31 \/ budget < 9 THEN 1 ELSE 2

Prompt == {Item("prompt", selected, FALSE)}
DeletePopup(budget) ==
  LET popup == Border \o <<Prompt, Show1("warning"), Show1("sessions"), Show1("fresh"), {}>>
               \o Blanks(IF budget >= 9 THEN 1 ELSE 0) \o <<Show1("keys")>> \o Border
  IN Blanks((budget - Len(popup)) \div 2) \o popup

\* masterDetailLines, where it fits.
PanesFit(budget, width) ==
  /\ Rows # {} /\ budget >= 6
  /\ IF dialog = "none" THEN Panes(budget, width) > 0
     ELSE budget >= 8 /\ PopupWidth + 4 <= width
MasterDetail(budget, width) ==
  CASE dialog # "none" -> DeletePopup(budget)
    [] dialog = "none" /\ Panes(budget, width) = 2 ->
         SideBySide(MasterPane(budget), DetailPane(budget))
    [] OTHER -> MasterPane(budget)

-----------------------------------------------------------------------------
(* The older layouts, for terminals without room for the panes. *)

\* Mutant: the storage consequence gives way to the keys in the smallest dialog.
DialogCompactShort == Prompt \cup Show1("keys")
DialogCompact == Prompt \cup Show1("warning") \cup Show1("keys")

DialogLines(budget) ==
  CASE budget >= 5 ->
         <<Prompt, Show1("warning"), Show1("sessions"), Show1("fresh"), Show1("keys")>>
    [] budget \in 3..4 ->
         <<Prompt, Show1("warning") \cup Show1("sessions") \cup Show1("fresh"), Show1("keys")>>
    [] budget = 2 -> <<Show1("warning"), Prompt \cup Show1("keys")>>
    [] OTHER -> <<DialogCompact>>

BodyLines(budget) ==
  IF Rows # {} THEN Scroll(RowLines, budget)
  ELSE IF budget > 1 THEN <<Show1("empty"), {}>> ELSE <<Show1("empty")>>

MessageLine == IF message = NoMessage THEN <<>> ELSE <<Show1("message")>>

\* Mutant: the message line is not taken from the room of the body.
RoomIgnoresMessage(height, chrome) == Max2(1, height - chrome)
\* What message line and <chrome> leave of the height, but never nothing.
Room(height, chrome) == Max2(1, height - chrome - Len(MessageLine))

Older(height, width) ==
  LET header == IF height < 7 THEN <<Show1("connection")>> ELSE <<{}, {}, Show1("connection")>>
      budget == Room(height, Len(header) + 1)
  IN header \o (IF dialog # "none" THEN DialogLines(budget) ELSE BodyLines(budget))
            \o MessageLine \o Footer(width, FALSE)

\* renderLines.
Lines(height, width) ==
  CASE height <= 1 -> Footer(width, FALSE)
    [] height = 2 ->
         <<IF dialog # "none" THEN DialogCompact
           ELSE IF Rows = {} THEN Show1("empty") ELSE RowLines[selected]>> \o Footer(width, FALSE)
    [] height > 2 /\ PanesFit(Room(height, 1), width) ->
         MasterDetail(Room(height, 1), width) \o MessageLine \o Footer(width, TRUE)
    [] OTHER -> Older(height, width)

-----------------------------------------------------------------------------
(* Properties, of the screen of an open session in every terminal. *)

\* A list in the panes, and with room for the honesty line of a selected box.
InPanes(height, width) == height > 2 /\ dialog = "none" /\ PanesFit(Room(height, 1), width)
HasHonestyLine(height, width) ==
  Panes(Room(height, 1), width) = 2 /\ Room(height, 1) >= 10 /\ HasPhase(rows[selected])

Shown(lines, what) == {item \in UNION {lines[k] : k \in DOMAIN lines} : item.what = what}
Sizes == Heights \X Widths
OnEveryScreen(P(_, _, _)) ==
  session = "open" /\ Running => \A s \in Sizes : P(s[1], s[2], Lines(s[1], s[2]))

\* The screen fits the terminal and ends with the footer, and a message stands
\* right above it (view.go renderLines; model_test.go: "the render never exceeds
\* the terminal height").  Three rows with a message are one line short of room.
FitsTerminal ==
  OnEveryScreen(LAMBDA height, width, lines :
    /\ Len(lines) <= Max2(1, height) \/ (height = 3 /\ message # NoMessage /\ Len(lines) = 4)
    /\ Show1("quit") \subseteq lines[Len(lines)]
    /\ height >= 3 /\ message # NoMessage => lines[Len(lines) - 1] = Show1("message"))

\* The selected row, on which d will act, is on every screen that shows a list,
\* however few rows fit beside the cap and the message, and the detail pane is
\* that row's (view.go scrollRows).
SelectionShown ==
  dialog = "none" /\ Rows # {} =>
    OnEveryScreen(LAMBDA height, width, lines :
      /\ height >= 2 => \E item \in Shown(lines, "row") : item.row = selected
      /\ \A item \in Shown(lines, "detail") : item.row = selected)

\* Every layout of the confirmation names the selected box, the storage
\* consequence and the keys (README "Every confirmation layout uses the same
\* storage consequence"), with the other consequences from six rows on, and
\* shows no list beside it.
ConfirmationComplete ==
  dialog # "none" =>
    OnEveryScreen(LAMBDA height, width, lines :
      height >= 2 =>
        /\ Shown(lines, "prompt") = {Item("prompt", selected, FALSE)}
        /\ Shown(lines, "warning") # {} /\ Shown(lines, "keys") # {}
        /\ height >= 6 => Shown(lines, "sessions") # {} /\ Shown(lines, "fresh") # {}
        /\ Shown(lines, "row") = {})

\* What is dim tells what the last round read, in every layout (README "failed rows
\* keep their last-known state dimmed", "the same dimmed not created row").  A row
\* without a pod is dim whatever was read.  A box is not dim on a Live screen, nor
\* does the detail pane call anything there last known.  When nothing was read,
\* every box that has a phase is dim, but for the selected row of the panes: it has
\* the honesty line of the detail pane instead, where that has room for it.
DimTellsTheRound ==
  OnEveryScreen(LAMBDA height, width, lines :
    /\ \A item \in Shown(lines, "row") :
         /\ ~BoxExists(rows[item.row]) => item.dim
         /\ conn = "live" /\ BoxExists(rows[item.row]) => ~item.dim
         /\ conn = "unreachable" /\ HasPhase(rows[item.row]) =>
              item.dim \/ (item.row = selected /\ InPanes(height, width))
    /\ conn = "live" => Shown(lines, "lastKnown") = {} /\ Shown(lines, "reconnect") = {}
    /\ conn = "unreachable" /\ InPanes(height, width) /\ HasHonestyLine(height, width) =>
         Shown(lines, "lastKnown") # {} \/ Shown(lines, "reconnect") # {})

\* The cap element shows the cap that the config server enforces, and none where
\* it enforces none (settings.go: "0 hides the element exactly when no cap is
\* enforced").
CapAsEnforced ==
  OnEveryScreen(LAMBDA height, width, lines :
    /\ Shown(lines, "cap") # {} => CapEnforced /\ maxBoxes = maxPods
    /\ CapEnforced /\ dialog = "none" /\ PanesFit(Room(height, 1), width) /\ height > 2 =>
         Shown(lines, "cap") # {})

=============================================================================
