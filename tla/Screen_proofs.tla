---------------------------- MODULE Screen_proofs ----------------------------
(* What holds of Screen for every size of terminal, number of rows and cap. *)
EXTENDS Screen, Console_proofs

-----------------------------------------------------------------------------
(* Lines, and the items on them. *)

Things == [what : {"row", "detail", "cap", "atCap", "prompt", "warning", "sessions", "fresh", "keys",
                   "quit", "connection", "lastKnown", "reconnect", "how", "empty", "message"},
           row : Nat, dim : BOOLEAN]
Texts == Seq(SUBSET Things)

Items(lines) == UNION {lines[k] : k \in DOMAIN lines}

LEMMA ItemsConcat ==
  ASSUME NEW s \in Texts, NEW t \in Texts
  PROVE  /\ s \o t \in Texts /\ Len(s \o t) = Len(s) + Len(t)
         /\ Items(s \o t) = Items(s) \cup Items(t)
         /\ Len(t) > 0 => (s \o t)[Len(s \o t)] = t[Len(t)]
<1>1. /\ s \o t \in Texts /\ Len(s \o t) = Len(s) + Len(t) /\ Len(s) \in Nat /\ Len(t) \in Nat
      /\ DOMAIN (s \o t) = 1 .. (Len(s) + Len(t)) /\ DOMAIN s = 1..Len(s) /\ DOMAIN t = 1..Len(t)
      /\ \A i \in 1..(Len(s) + Len(t)) :
           (s \o t)[i] = IF i <= Len(s) THEN s[i] ELSE t[i - Len(s)]
  BY DEF Texts
<1>2. Items(s \o t) \subseteq Items(s) \cup Items(t)
  <2>. SUFFICES ASSUME NEW k \in DOMAIN (s \o t)
                PROVE  (s \o t)[k] \subseteq Items(s) \cup Items(t)
    BY DEF Items
  <2>1. CASE k <= Len(s)
    BY <1>1, <2>1 DEF Items
  <2>2. CASE k > Len(s)
    <3>1. k - Len(s) \in DOMAIN t
      BY <1>1, <2>2
    <3>. QED
      BY <1>1, <2>2, <3>1 DEF Items
  <2>. QED
    BY <1>1, <2>1, <2>2
<1>3. Items(s) \subseteq Items(s \o t)
  <2>. SUFFICES ASSUME NEW k \in DOMAIN s PROVE s[k] \subseteq Items(s \o t)
    BY DEF Items
  <2>1. k \in DOMAIN (s \o t) /\ (s \o t)[k] = s[k]
    BY <1>1
  <2>. QED
    BY <2>1 DEF Items
<1>4. Items(t) \subseteq Items(s \o t)
  <2>. SUFFICES ASSUME NEW k \in DOMAIN t PROVE t[k] \subseteq Items(s \o t)
    BY DEF Items
  <2>1. k + Len(s) \in DOMAIN (s \o t) /\ (s \o t)[k + Len(s)] = t[k]
    BY <1>1
  <2>. QED
    BY <2>1 DEF Items
<1>. QED
  BY <1>1, <1>2, <1>3, <1>4

LEMMA ItemsOne ==
  ASSUME NEW x \in SUBSET Things
  PROVE  <<x>> \in Texts /\ Len(<<x>>) = 1 /\ Items(<<x>>) = x /\ <<x>>[1] = x
<1>1. <<x>> \in Texts /\ Len(<<x>>) = 1 /\ DOMAIN <<x>> = {1} /\ <<x>>[1] = x
  BY DEF Texts
<1>. QED
  BY <1>1 DEF Items

LEMMA ItemsNone == <<>> \in Texts /\ Len(<<>>) = 0 /\ Items(<<>>) = {}
BY DEF Texts, Items

LEMMA ItemsBlanks ==
  ASSUME NEW n \in Int
  PROVE  /\ Blanks(n) \in Texts /\ Items(Blanks(n)) = {}
         /\ Len(Blanks(n)) = IF n > 0 THEN n ELSE 0
<1>1. CASE n > 0
  BY <1>1 DEF Blanks, Texts, Items
<1>2. CASE n <= 0
  <2>1. 1..n = {}
    BY <1>2
  <2>2. Blanks(n) = <<>>
    BY <2>1 DEF Blanks
  <2>. QED
    BY <1>2, <2>2, ItemsNone
<1>. QED
  BY <1>1, <1>2

LEMMA ItemsBorder == Border \in Texts /\ Len(Border) = 1 /\ Items(Border) = {}
BY ItemsOne DEF Border

\* Scrolling keeps the selected line in the window, and nothing else appears.
LEMMA ItemsScroll ==
  ASSUME NEW lines \in Texts, NEW visible \in Nat \ {0}, selected \in 1..Len(lines)
  PROVE  /\ Scroll(lines, visible) \in Texts
         /\ Items(Scroll(lines, visible)) \subseteq Items(lines)
         /\ lines[selected] \subseteq Items(Scroll(lines, visible))
         /\ Len(Scroll(lines, visible)) = IF Len(lines) <= visible THEN Len(lines) ELSE visible
<1>0. Len(lines) \in Nat /\ DOMAIN lines = 1..Len(lines)
  BY DEF Texts
<1>1. CASE Len(lines) <= visible
  BY <1>0, <1>1 DEF Scroll, Items
<1>2. CASE Len(lines) > visible
  <2>. DEFINE top == ScrollTop(Len(lines), visible)
              window == SubSeq(lines, top + 1, top + visible)
  <2>1. top \in Nat /\ top + visible <= Len(lines) /\ top < selected /\ selected <= top + visible
    BY <1>0, <1>2 DEF ScrollTop, Max2
  <2>. HIDE DEF top
  <2>2. /\ window \in Texts /\ Len(window) = visible
        /\ \A i \in 1..visible : window[i] = lines[top + i]
    <3>1. \A i \in top + 1 .. top + visible : lines[i] \in SUBSET Things
      BY <1>0, <2>1 DEF Texts
    <3>2. /\ Len(window) = visible
          /\ \A i \in 1..visible : window[i] = lines[top + i]
      BY <1>0, <2>1 DEF Texts
    <3>3. window \in Texts
      BY <1>0, <2>1, <3>1 DEF Texts
    <3>. QED
      BY <3>2, <3>3
  <2>3. Scroll(lines, visible) = window
    <3>1. ~(Len(lines) <= visible)
      BY <1>0, <1>2
    <3>. QED
      BY <3>1, Zenon DEF Scroll, top
  <2>. HIDE DEF window
  <2>4. DOMAIN window = 1..visible
    BY <2>2 DEF Texts
  <2>5. Items(window) \subseteq Items(lines)
    <3>. SUFFICES ASSUME NEW i \in 1..visible PROVE window[i] \subseteq Items(lines)
      BY <2>4 DEF Items
    <3>1. top + i \in DOMAIN lines /\ window[i] = lines[top + i]
      BY <1>0, <2>1, <2>2
    <3>. QED
      BY <3>1 DEF Items
  <2>6. lines[selected] \subseteq Items(window)
    <3>1. selected - top \in DOMAIN window /\ window[selected - top] = lines[selected]
      BY <1>0, <2>1, <2>2, <2>4
    <3>. QED
      BY <3>1 DEF Items
  <2>. QED
    BY <1>2, <2>2, <2>3, <2>5, <2>6
<1>. QED
  BY <1>0, <1>1, <1>2

-----------------------------------------------------------------------------
(* What lines show of one kind. *)

LEMMA ShownIsItems ==
  ASSUME NEW lines, NEW what
  PROVE  Shown(lines, what) = {item \in Items(lines) : item.what = what}
BY DEF Shown, Items

LEMMA ShownConcat ==
  ASSUME NEW s \in Texts, NEW t \in Texts, NEW what
  PROVE  Shown(s \o t, what) = Shown(s, what) \cup Shown(t, what)
BY ItemsConcat, ShownIsItems

LEMMA ShownOne ==
  ASSUME NEW x \in SUBSET Things, NEW what
  PROVE  Shown(<<x>>, what) = {item \in x : item.what = what}
BY ItemsOne, ShownIsItems

LEMMA ShownNothing ==
  ASSUME NEW what
  PROVE  /\ Shown(<<>>, what) = {} /\ Shown(Border, what) = {}
         /\ \A n \in Int : Shown(Blanks(n), what) = {}
BY ItemsNone, ItemsBorder, ItemsBlanks, ShownIsItems

LEMMA Joined ==
  ASSUME NEW s \in Texts, NEW t \in Texts
  PROVE  /\ s \o t \in Texts /\ Len(s \o t) = Len(s) + Len(t)
         /\ \A what : Shown(s \o t, what) = Shown(s, what) \cup Shown(t, what)
<1>1. s \o t \in Texts /\ Len(s \o t) = Len(s) + Len(t)
  BY ItemsConcat
<1>2. \A what : Shown(s \o t, what) = Shown(s, what) \cup Shown(t, what)
  BY ShownConcat
<1>. QED
  BY <1>1, <1>2

LEMMA BorderLine == Border \in Texts /\ Len(Border) = 1 /\ \A what : Shown(Border, what) = {}
BY ItemsBorder, ShownNothing

LEMMA BlankLines ==
  ASSUME NEW n \in Int
  PROVE  /\ Blanks(n) \in Texts /\ Len(Blanks(n)) = IF n > 0 THEN n ELSE 0
         /\ \A what : Shown(Blanks(n), what) = {}
BY ItemsBlanks, ShownNothing

\* A line with one thing on it.
LEMMA SaysOne ==
  ASSUME NEW say \in {"detail", "cap", "atCap", "prompt", "warning", "sessions", "fresh", "keys",
                      "quit", "connection", "lastKnown", "reconnect", "how", "empty", "message"}
  PROVE  /\ Show1(say) \in SUBSET Things
         /\ \A what : {item \in Show1(say) : item.what = what}
                      = IF what = say THEN Show1(say) ELSE {}
         /\ Show1(say) # {}
<1>1. Item(say, 0, FALSE) \in Things /\ Item(say, 0, FALSE).what = say
  BY DEF Item, Things
<1>. QED
  BY <1>1 DEF Show1

LEMMA LineOf ==
  ASSUME NEW say \in {"detail", "cap", "atCap", "prompt", "warning", "sessions", "fresh", "keys",
                      "quit", "connection", "lastKnown", "reconnect", "how", "empty", "message"}
  PROVE  /\ <<Show1(say)>> \in Texts /\ Len(<<Show1(say)>>) = 1
         /\ <<Show1(say)>>[1] = Show1(say)
         /\ \A what : Shown(<<Show1(say)>>, what) = IF what = say THEN Show1(say) ELSE {}
<1>1. Show1(say) \in SUBSET Things
      /\ \A what : {item \in Show1(say) : item.what = what} = IF what = say THEN Show1(say) ELSE {}
  BY SaysOne
<1>2. \A what : Shown(<<Show1(say)>>, what) = {item \in Show1(say) : item.what = what}
  BY <1>1, ShownOne
<1>3. \A what : Shown(<<Show1(say)>>, what) = IF what = say THEN Show1(say) ELSE {}
  BY <1>1, <1>2
<1>. QED
  BY <1>1, <1>3, ItemsOne

\* The message line and the footer under <body>, in every layout of three lines
\* and more.
LEMMA FooterLine ==
  ASSUME NEW width, NEW identity
  PROVE  /\ Footer(width, identity) \in Texts /\ Len(Footer(width, identity)) = 1
         /\ Show1("quit") \subseteq Footer(width, identity)[1]
         /\ \A what : what \notin {"quit", "connection"} => Shown(Footer(width, identity), what) = {}
<1>. PICK y \in {{}, Show1("connection")} :
       Footer(width, identity) = <<Show1("quit") \cup y>>
  BY DEF Footer
<1>1. Show1("quit") \cup y \in SUBSET Things
  BY SaysOne
<1>2. \A what : what \notin {"quit", "connection"} =>
        {item \in Show1("quit") \cup y : item.what = what} = {}
  BY SaysOne
<1>. QED
  BY <1>1, <1>2, ItemsOne, ShownOne

LEMMA MessageLines ==
  /\ MessageLine \in Texts /\ Len(MessageLine) = IF message = NoMessage THEN 0 ELSE 1
  /\ \A what : what # "message" => Shown(MessageLine, what) = {}
  /\ message # NoMessage => MessageLine = <<Show1("message")>> /\ MessageLine[1] = Show1("message")
<1>1. CASE message = NoMessage
  <2>1. MessageLine = <<>>
    BY <1>1 DEF MessageLine
  <2>. QED
    BY <1>1, <2>1, ItemsNone, ShownNothing
<1>2. CASE message # NoMessage
  <2>1. MessageLine = <<Show1("message")>>
    BY <1>2 DEF MessageLine
  <2>2. /\ <<Show1("message")>> \in Texts /\ Len(<<Show1("message")>>) = 1
        /\ <<Show1("message")>>[1] = Show1("message")
        /\ \A what : what # "message" => Shown(<<Show1("message")>>, what) = {}
    BY LineOf
  <2>. QED
    BY <1>2, <2>1, <2>2
<1>. QED
  BY <1>1, <1>2

LEMMA Framed ==
  ASSUME NEW body \in Texts, NEW width, NEW identity, NEW lines,
         lines = (body \o MessageLine) \o Footer(width, identity)
  PROVE  /\ lines \in Texts
         /\ Len(lines) = Len(body) + (IF message = NoMessage THEN 1 ELSE 2)
         /\ Show1("quit") \subseteq lines[Len(lines)]
         /\ message # NoMessage => lines[Len(lines) - 1] = Show1("message")
<1>0. Len(body) \in Nat
  BY DEF Texts
<1>1. /\ MessageLine \in Texts /\ Len(MessageLine) = IF message = NoMessage THEN 0 ELSE 1
      /\ message # NoMessage => MessageLine[1] = Show1("message")
  BY MessageLines
<1>2. /\ body \o MessageLine \in Texts
      /\ Len(body \o MessageLine) = Len(body) + Len(MessageLine)
      /\ Len(MessageLine) > 0 => (body \o MessageLine)[Len(body \o MessageLine)] = MessageLine[Len(MessageLine)]
  BY <1>1, ItemsConcat
<1>3. /\ lines \in Texts /\ Len(lines) = Len(body \o MessageLine) + 1
      /\ lines[Len(lines)] = Footer(width, identity)[1]
  <2>. DEFINE above == body \o MessageLine
              foot == Footer(width, identity)
  <2>1. above \in Texts /\ foot \in Texts /\ Len(foot) = 1 /\ lines = above \o foot
    BY <1>2, FooterLine
  <2>. HIDE DEF above, foot
  <2>2. /\ lines \in Texts /\ Len(lines) = Len(above) + 1
        /\ lines[Len(lines)] = foot[1]
    <3>1. /\ above \o foot \in Texts /\ Len(above \o foot) = Len(above) + Len(foot)
          /\ Len(foot) > 0 => (above \o foot)[Len(above \o foot)] = foot[Len(foot)]
      BY <2>1, ItemsConcat
    <3>. QED
      BY <2>1, <3>1
  <2>. QED
    BY <2>2 DEF above, foot
<1>4. ASSUME message # NoMessage PROVE lines[Len(lines) - 1] = Show1("message")
  <2>1. Len(lines) - 1 = Len(body \o MessageLine) /\ Len(body \o MessageLine) \in Nat
        /\ Len(body \o MessageLine) > 0
    BY <1>0, <1>1, <1>2, <1>3, <1>4
  <2>2. lines[Len(lines) - 1] = (body \o MessageLine)[Len(body \o MessageLine)]
    BY <1>2, <2>1, FooterLine DEF Texts
  <2>. QED
    BY <1>1, <1>2, <1>4, <2>2
<1>5. Len(lines) = Len(body) + (IF message = NoMessage THEN 1 ELSE 2)
  BY <1>0, <1>1, <1>2, <1>3
<1>6. Show1("quit") \subseteq lines[Len(lines)]
  BY <1>3, FooterLine
<1>. QED
  BY <1>3, <1>4, <1>5, <1>6

LEMMA FramedShows ==
  ASSUME NEW body \in Texts, NEW width, NEW identity, NEW what,
         what \notin {"quit", "connection", "message"}
  PROVE  Shown((body \o MessageLine) \o Footer(width, identity), what) = Shown(body, what)
<1>1. MessageLine \in Texts /\ Shown(MessageLine, what) = {}
  BY MessageLines
<1>2. Footer(width, identity) \in Texts /\ Shown(Footer(width, identity), what) = {}
  BY FooterLine
<1>. DEFINE above == body \o MessageLine
            foot == Footer(width, identity)
<1>3. above \in Texts /\ Shown(above, what) = Shown(body, what)
  BY <1>1, Joined
<1>. HIDE DEF above, foot
<1>4. Shown(above \o foot, what) = Shown(above, what) \cup Shown(foot, what)
  BY <1>2, <1>3, ShownConcat DEF foot
<1>. QED
  BY <1>2, <1>3, <1>4 DEF above, foot

-----------------------------------------------------------------------------
(* The list, in states that Screen reaches. *)

UnreachableIsDim == conn = "unreachable" => \A i \in Rows : HasPhase(rows[i]) => Dim(rows[i])

Sound ==
  /\ TypeOK /\ LiveMeansCurrent /\ MessageTrueWhenLive /\ UnreachableIsDim
  /\ session = "open" => maxBoxes = maxPods
  /\ ~persistent => Rows = {}

\* The row that may be bright although nothing was read, and what a line of the list
\* tells of the last round.
Bright(height, width) == IF InPanes(height, width) THEN {selected} ELSE {}
Tells(item, bright) ==
  /\ ~BoxExists(rows[item.row]) => item.dim
  /\ conn = "live" /\ BoxExists(rows[item.row]) => ~item.dim
  /\ conn = "unreachable" /\ HasPhase(rows[item.row]) =>
       item.dim \/ item.row \in bright

IsList(lines, bright) ==
  /\ lines \in Texts /\ Rows = 1..Len(lines)
  /\ \A i \in Rows : \E d \in BOOLEAN :
       lines[i] = {Item("row", i, d)} /\ Tells(Item("row", i, d), bright)

LEMMA ListOf ==
  ASSUME Sound, NEW bright, NEW dims \in [Rows -> BOOLEAN],
         \A i \in Rows : /\ ~BoxExists(rows[i]) => dims[i]
                         /\ conn = "live" /\ BoxExists(rows[i]) => ~dims[i]
                         /\ conn = "unreachable" /\ HasPhase(rows[i]) =>
                              dims[i] \/ i \in bright
  PROVE  IsList([i \in Rows |-> {Item("row", i, dims[i])}], bright)
<1>. DEFINE list == [i \in Rows |-> {Item("row", i, dims[i])}]
<1>1. PICK n \in Nat : rows \in [1..n -> RowStates] /\ Rows = 1..n
  BY ConsoleAssumption DEF Sound, TypeOK, UiTypeOK, Rows
<1>2. \A i \in Rows : {Item("row", i, dims[i])} \in SUBSET Things
  BY <1>1 DEF Item, Things
<1>3. list \in Texts /\ Len(list) = n
  BY <1>1, <1>2 DEF Texts
<1>4. \A i \in Rows : list[i] = {Item("row", i, dims[i])} /\ Tells(Item("row", i, dims[i]), bright)
  BY DEF Tells, Item
<1>. QED
  BY <1>1, <1>3, <1>4 DEF IsList

LEMMA MasterRowsList == ASSUME Sound PROVE IsList(MasterRows, {selected})
<1>. DEFINE dims == [i \in Rows |-> ~BoxExists(rows[i]) \/ (Dim(rows[i]) /\ i # selected)]
<1>1. \A i \in Rows : rows[i] \in RowStates
  BY DEF Sound, TypeOK, UiTypeOK, Rows
<1>2. dims \in [Rows -> BOOLEAN]
  BY <1>1 DEF Dim, RowStates, BoxExists
<1>3. \A i \in Rows : /\ ~BoxExists(rows[i]) => dims[i]
                      /\ conn = "live" /\ BoxExists(rows[i]) => ~dims[i]
                      /\ conn = "unreachable" /\ HasPhase(rows[i]) => dims[i] \/ i = selected
  BY DEF Sound, UnreachableIsDim, LiveMeansCurrent, Dim
<1>4. IsList([i \in Rows |-> {Item("row", i, dims[i])}], {selected})
  <2>. HIDE DEF dims
  <2>. QED
    BY <1>2, <1>3, ListOf
<1>5. [i \in Rows |-> {Item("row", i, dims[i])}] = MasterRows
  BY DEF MasterRows
<1>. QED
  BY <1>4, <1>5

LEMMA RowLinesList == ASSUME Sound PROVE IsList(RowLines, {})
<1>. DEFINE dims == [i \in Rows |-> ~BoxExists(rows[i]) \/ Dim(rows[i])]
<1>1. \A i \in Rows : rows[i] \in RowStates
  BY DEF Sound, TypeOK, UiTypeOK, Rows
<1>2. dims \in [Rows -> BOOLEAN]
  BY <1>1 DEF Dim, RowStates, BoxExists
<1>3. \A i \in Rows : /\ ~BoxExists(rows[i]) => dims[i]
                      /\ conn = "live" /\ BoxExists(rows[i]) => ~dims[i]
                      /\ conn = "unreachable" /\ HasPhase(rows[i]) => dims[i]
  BY DEF Sound, UnreachableIsDim, LiveMeansCurrent, Dim
<1>4. IsList([i \in Rows |-> {Item("row", i, dims[i])}], {})
  <2>. HIDE DEF dims
  <2>. QED
    BY <1>2, <1>3, ListOf
<1>5. [i \in Rows |-> {Item("row", i, dims[i])}] = RowLines
  BY DEF RowLines
<1>. QED
  BY <1>4, <1>5

\* What the window of a list shows.
ShowsList(lines, bright) ==
  /\ lines \in Texts
  /\ \E item \in Shown(lines, "row") : item.row = selected
  /\ \A item \in Shown(lines, "row") : Tells(item, bright)
  /\ \A what : what # "row" => Shown(lines, what) = {}

LEMMA ListWindow ==
  ASSUME Sound, Rows # {}, NEW bright, NEW list, IsList(list, bright), NEW visible \in Nat \ {0}
  PROVE  ShowsList(Scroll(list, visible), bright) /\ Len(Scroll(list, visible)) <= visible
<1>1. list \in Texts /\ selected \in 1..Len(list) /\ Len(list) \in Nat
      /\ DOMAIN list = 1..Len(list) /\ Rows = 1..Len(list)
  BY DEF Sound, TypeOK, UiTypeOK, IsList, Texts
<1>. DEFINE window == Scroll(list, visible)
<1>2. /\ window \in Texts /\ Items(window) \subseteq Items(list)
      /\ list[selected] \subseteq Items(window)
      /\ Len(window) <= visible
  BY <1>1, ItemsScroll
<1>3. \A item \in Items(list) : item.what = "row" /\ Tells(item, bright)
  <2>. SUFFICES ASSUME NEW i \in Rows
                PROVE  \A item \in list[i] : item.what = "row" /\ Tells(item, bright)
    BY <1>1 DEF Items
  <2>1. PICK d \in BOOLEAN : list[i] = {Item("row", i, d)} /\ Tells(Item("row", i, d), bright)
    BY DEF IsList
  <2>2. Item("row", i, d).what = "row"
    BY DEF Item
  <2>. QED
    BY <2>1, <2>2
<1>4. \E item \in list[selected] : item.what = "row" /\ item.row = selected
  <2>1. PICK d \in BOOLEAN : list[selected] = {Item("row", selected, d)}
    BY <1>1 DEF IsList
  <2>2. Item("row", selected, d).what = "row" /\ Item("row", selected, d).row = selected
    BY DEF Item
  <2>. QED
    BY <2>1, <2>2
<1>. HIDE DEF window
<1>5. ShowsList(window, bright)
  BY <1>2, <1>3, <1>4, ShownIsItems DEF ShowsList
<1>. QED
  BY <1>2, <1>5 DEF window

-----------------------------------------------------------------------------
(* The panes. *)

LEMMA CapLines ==
  ASSUME maxBoxes \in Int
  PROVE  /\ CapBlock \in Texts /\ Len(CapBlock) \in Nat /\ Len(CapBlock) <= 3
         /\ Shown(CapBlock, "row") = {} /\ Shown(CapBlock, "detail") = {}
         /\ Shown(CapBlock, "lastKnown") = {} /\ Shown(CapBlock, "reconnect") = {}
         /\ Shown(CapBlock, "cap") # {} <=> maxBoxes > 0
<1>1. CASE maxBoxes <= 0
  <2>1. CapBlock = <<>>
    BY <1>1 DEF CapBlock
  <2>. QED
    BY <1>1, <2>1, ItemsNone, ShownNothing
<1>2. CASE maxBoxes > 0
  <2>. DEFINE two == Border \o <<Show1("cap")>>
  <2>0. /\ <<Show1("cap")>> \in Texts /\ Len(<<Show1("cap")>>) = 1
        /\ \A what : Shown(<<Show1("cap")>>, what) = IF what = "cap" THEN Show1("cap") ELSE {}
    BY LineOf
  <2>1. /\ two \in Texts /\ Len(two) = Len(Border) + Len(<<Show1("cap")>>)
        /\ \A what : Shown(two, what) = Shown(Border, what) \cup Shown(<<Show1("cap")>>, what)
    BY <2>0, BorderLine, Joined
  <2>2. \A what : Shown(two, what) = IF what = "cap" THEN Show1("cap") ELSE {}
    <3>. HIDE DEF two
    <3>. QED
      BY <2>0, <2>1, BorderLine
  <2>. DEFINE way == IF Created >= maxBoxes THEN <<Show1("atCap")>> ELSE <<>>
  <2>3. CapBlock = two \o way
    BY <1>2 DEF CapBlock
  <2>4. way \in Texts /\ Len(way) \in {0, 1} /\ \A what : what # "atCap" => Shown(way, what) = {}
    <3>1. /\ <<Show1("atCap")>> \in Texts /\ Len(<<Show1("atCap")>>) = 1
          /\ \A what : what # "atCap" => Shown(<<Show1("atCap")>>, what) = {}
      BY LineOf
    <3>2. <<>> \in Texts /\ Len(<<>>) = 0 /\ \A what : Shown(<<>>, what) = {}
      BY ItemsNone, ShownNothing
    <3>3. way = <<>> \/ way = <<Show1("atCap")>>
      OBVIOUS
    <3>. HIDE DEF way
    <3>. QED
      BY <3>1, <3>2, <3>3
  <2>. HIDE DEF way
  <2>. HIDE DEF two
  <2>5. /\ CapBlock \in Texts /\ Len(CapBlock) = Len(two) + Len(way)
        /\ \A what : Shown(CapBlock, what) = Shown(two, what) \cup Shown(way, what)
    BY <2>1, <2>3, <2>4, Joined
  <2>6. Len(two) = 2
    BY <2>0, <2>1, BorderLine
  <2>7. Show1("cap") # {}
    BY SaysOne
  <2>. QED
    <3>1. Len(CapBlock) \in Nat /\ Len(CapBlock) <= 3
      <4>1. PICK k \in {0, 1} : Len(way) = k
        BY <2>4
      <4>2. Len(CapBlock) = 2 + k
        BY <2>5, <2>6, <4>1
      <4>. QED
        BY <4>1, <4>2
    <3>2. /\ Shown(CapBlock, "row") = {} /\ Shown(CapBlock, "detail") = {}
          /\ Shown(CapBlock, "lastKnown") = {} /\ Shown(CapBlock, "reconnect") = {}
          /\ Shown(CapBlock, "cap") = Show1("cap")
      BY <2>2, <2>4, <2>5
    <3>. QED
      BY <1>2, <2>5, <2>7, <3>1, <3>2
<1>. QED
  BY <1>1, <1>2

\* No line calls what it shows last known, nor unauthorized.
Calm(lines) == Shown(lines, "lastKnown") = {} /\ Shown(lines, "reconnect") = {}

\* What a body with the panes above the footer shows.
ListBody(lines) ==
  /\ lines \in Texts
  /\ \E item \in Shown(lines, "row") : item.row = selected
  /\ \A item \in Shown(lines, "row") : Tells(item, {selected})
  /\ conn = "live" => Calm(lines)
  /\ \A item \in Shown(lines, "detail") : item.row = selected
  /\ Shown(lines, "cap") # {} => maxBoxes > 0

LEMMA MasterPaneSound ==
  ASSUME Sound, Rows # {}, NEW budget \in Nat, budget >= 6
  PROVE  /\ ListBody(MasterPane(budget)) /\ Len(MasterPane(budget)) = budget
         /\ maxBoxes > 0 => Shown(MasterPane(budget), "cap") # {}
<1>0. maxBoxes \in Int
  BY ScreenAssumption DEF Sound, TypeOK
<1>. DEFINE room == budget - 2 - Len(CapBlock)
            shown == Scroll(MasterRows, Max2(1, room))
            a == Border \o shown
            b == a \o Blanks(room - Len(shown))
            c == b \o CapBlock
            d == c \o Border
<1>1. CapBlock \in Texts /\ Len(CapBlock) \in Nat /\ Len(CapBlock) <= 3
  BY <1>0, CapLines
<1>2. room \in Nat \ {0} /\ Max2(1, room) = room /\ room + 2 + Len(CapBlock) = budget
  <2>1. room \in Int /\ room >= 1 /\ room + 2 + Len(CapBlock) = budget
    BY <1>1
  <2>. HIDE DEF room
  <2>2. Max2(1, room) = room
    BY <2>1 DEF Max2
  <2>. QED
    BY <2>1, <2>2
<1>4. MasterPane(budget) = d
  BY DEF MasterPane
<1>. HIDE DEF room
<1>3. ShowsList(shown, {selected}) /\ Len(shown) <= room
  <2>1. IsList(MasterRows, {selected}) /\ shown = Scroll(MasterRows, room)
    BY <1>2, MasterRowsList
  <2>. HIDE DEF shown
  <2>2. ShowsList(Scroll(MasterRows, room), {selected}) /\ Len(Scroll(MasterRows, room)) <= room
    BY <1>2, <2>1, ListWindow
  <2>. QED
    BY <2>1, <2>2
<1>. HIDE DEF shown
<1>5. shown \in Texts /\ Len(shown) \in Nat /\ room - Len(shown) \in Nat
  BY <1>2, <1>3 DEF ShowsList, Texts
<1>6. /\ a \in Texts /\ Len(a) = Len(Border) + Len(shown)
      /\ \A what : Shown(a, what) = Shown(Border, what) \cup Shown(shown, what)
  BY <1>5, BorderLine, Joined
<1>. HIDE DEF a
<1>7. /\ Blanks(room - Len(shown)) \in Texts /\ Len(Blanks(room - Len(shown))) = room - Len(shown)
      /\ \A what : Shown(Blanks(room - Len(shown)), what) = {}
  BY <1>5, BlankLines
<1>8. /\ b \in Texts /\ Len(b) = Len(a) + Len(Blanks(room - Len(shown)))
      /\ \A what : Shown(b, what) = Shown(a, what) \cup Shown(Blanks(room - Len(shown)), what)
  BY <1>6, <1>7, Joined
<1>. HIDE DEF b
<1>9. /\ c \in Texts /\ Len(c) = Len(b) + Len(CapBlock)
      /\ \A what : Shown(c, what) = Shown(b, what) \cup Shown(CapBlock, what)
  BY <1>1, <1>8, Joined
<1>. HIDE DEF c
<1>10. /\ d \in Texts /\ Len(d) = Len(c) + Len(Border)
       /\ \A what : Shown(d, what) = Shown(c, what) \cup Shown(Border, what)
  BY <1>9, BorderLine, Joined
<1>. HIDE DEF d
<1>11. \A what : Shown(d, what) = Shown(shown, what) \cup Shown(CapBlock, what)
  BY <1>6, <1>7, <1>8, <1>9, <1>10, BorderLine
<1>12. ListBody(d) /\ (maxBoxes > 0 => Shown(d, "cap") # {})
  BY <1>0, <1>3, <1>10, <1>11, CapLines DEF ListBody, ShowsList, Calm
<1>13. Len(d) = budget
  BY <1>1, <1>2, <1>5, <1>6, <1>7, <1>8, <1>9, <1>10, BorderLine
<1>. QED
  BY <1>4, <1>12, <1>13

\* A part of the detail pane, and one that holds the honesty line.
DetailText(lines) ==
  /\ lines \in Texts /\ Shown(lines, "row") = {} /\ Shown(lines, "cap") = {}
  /\ conn = "live" => Calm(lines)
  /\ \A item \in Shown(lines, "detail") : item.row = selected

LEMMA DetailJoined ==
  ASSUME NEW s, NEW t, DetailText(s), DetailText(t)
  PROVE  /\ DetailText(s \o t) /\ Len(s \o t) = Len(s) + Len(t)
         /\ ~Calm(s) \/ ~Calm(t) => ~Calm(s \o t)
<1>1. /\ s \o t \in Texts /\ Len(s \o t) = Len(s) + Len(t)
      /\ \A what : Shown(s \o t, what) = Shown(s, what) \cup Shown(t, what)
  BY Joined DEF DetailText
<1>. QED
  BY <1>1 DEF DetailText, Calm

LEMMA DetailParts ==
  ASSUME Sound
  PROVE  /\ DetailText(<<>>) /\ Len(<<>>) = 0
         /\ DetailText(Border) /\ Len(Border) = 1
         /\ \A n \in Int : DetailText(Blanks(n)) /\ Len(Blanks(n)) = IF n > 0 THEN n ELSE 0
         /\ DetailText(<<Show1("how")>>) /\ Len(<<Show1("how")>>) = 1
         /\ \A say \in {"lastKnown", "reconnect"} :
              /\ conn # "live" => DetailText(<<Show1(say)>>)
              /\ Len(<<Show1(say)>>) = 1 /\ ~Calm(<<Show1(say)>>)
         /\ DetailText(<<{Item("detail", selected, FALSE)}>>)
         /\ Len(<<{Item("detail", selected, FALSE)}>>) = 1
<1>1. DetailText(<<>>) /\ Len(<<>>) = 0
  BY ItemsNone, ShownNothing DEF DetailText, Calm
<1>2. DetailText(Border) /\ Len(Border) = 1
  BY BorderLine DEF DetailText, Calm
<1>3. \A n \in Int : DetailText(Blanks(n)) /\ Len(Blanks(n)) = IF n > 0 THEN n ELSE 0
  BY BlankLines DEF DetailText, Calm
<1>4. ASSUME NEW say \in {"lastKnown", "reconnect"}
      PROVE  /\ conn # "live" => DetailText(<<Show1(say)>>)
             /\ Len(<<Show1(say)>>) = 1 /\ ~Calm(<<Show1(say)>>)
  <2>1. /\ <<Show1(say)>> \in Texts /\ Len(<<Show1(say)>>) = 1
        /\ \A what : Shown(<<Show1(say)>>, what) = IF what = say THEN Show1(say) ELSE {}
    BY LineOf
  <2>2. Show1(say) # {}
    BY SaysOne
  <2>. QED
    BY <2>1, <2>2 DEF DetailText, Calm
<1>5. DetailText(<<Show1("how")>>) /\ Len(<<Show1("how")>>) = 1
  <2>1. /\ <<Show1("how")>> \in Texts /\ Len(<<Show1("how")>>) = 1
        /\ \A what : Shown(<<Show1("how")>>, what) = IF what = "how" THEN Show1("how") ELSE {}
    BY LineOf
  <2>. QED
    BY <2>1 DEF DetailText, Calm
<1>6. /\ DetailText(<<{Item("detail", selected, FALSE)}>>)
      /\ Len(<<{Item("detail", selected, FALSE)}>>) = 1
  <2>. DEFINE x == {Item("detail", selected, FALSE)}
  <2>1. selected \in Nat
    BY ConsoleAssumption DEF Sound, TypeOK, UiTypeOK, Rows
  <2>2. /\ x \in SUBSET Things
        /\ \A item \in x : item.what = "detail" /\ item.row = selected
    BY <2>1 DEF Item, Things
  <2>. HIDE DEF x
  <2>3. <<x>> \in Texts /\ Len(<<x>>) = 1 /\ \A what : Shown(<<x>>, what) = {item \in x : item.what = what}
    BY <2>2, ItemsOne, ShownOne
  <2>4. DetailText(<<x>>)
    BY <2>2, <2>3 DEF DetailText, Calm
  <2>. QED
    BY <2>3, <2>4 DEF x
<1>. QED
  BY <1>1, <1>2, <1>3, <1>4, <1>5, <1>6

LEMMA DetailPaneSound ==
  ASSUME Sound, Rows # {}, NEW budget \in Nat, budget >= 9
  PROVE  /\ DetailText(DetailPane(budget)) /\ Len(DetailPane(budget)) = budget
         /\ conn = "unreachable" /\ budget >= 10 /\ HasPhase(rows[selected]) =>
              ~Calm(DetailPane(budget))
<1>. DEFINE row == rows[selected]
            name == <<{Item("detail", selected, FALSE)}>>
            status == <<{}, {Item("detail", selected, FALSE)}>>
            first == Border \o status
            second == first \o Honesty(budget)
            strip == second \o Border
            gap == Blanks(budget - 5 - Len(strip))
            third == strip \o gap
            ledger == Blanks(4)
            full == third \o ledger
            head == Border \o name
            hint == IF row.state = "checking" THEN <<>>
                    ELSE <<Show1(IF row.state = "forbidden" THEN "reconnect" ELSE "how")>>
            absent == head \o hint
            lines == IF BoxExists(row) THEN full ELSE absent
            rest == Blanks(budget - 1 - Len(lines))
            fourth == lines \o rest
            pane == fourth \o Border
            honest == conn = "unreachable" /\ budget >= 10 /\ HasPhase(rows[selected])
<1>0. DetailPane(budget) = pane
  BY DEF DetailPane
<1>a. selected \in Rows
  BY DEF Sound, TypeOK, UiTypeOK
<1>1. DetailText(status) /\ Len(status) = 2
  <2>. DEFINE x == {Item("detail", selected, FALSE)}
  <2>1. selected \in Nat
    BY ConsoleAssumption DEF Sound, TypeOK, UiTypeOK, Rows
  <2>2. /\ x \in SUBSET Things
        /\ \A item \in x : item.what = "detail" /\ item.row = selected
    BY <2>1 DEF Item, Things
  <2>. HIDE DEF x
  <2>3. <<{}, x>> \in Texts /\ Len(<<{}, x>>) = 2 /\ Items(<<{}, x>>) = x
    BY <2>2 DEF Texts, Items
  <2>4. DetailText(<<{}, x>>)
    BY <2>2, <2>3, ShownIsItems DEF DetailText, Calm
  <2>. QED
    BY <2>3, <2>4 DEF x
<1>2. DetailText(Honesty(budget)) /\ Len(Honesty(budget)) \in {0, 1}
      /\ (Len(Honesty(budget)) = 1 => budget >= 10)
  <2>1. CASE Honesty(budget) = <<>>
    BY <2>1, DetailParts
  <2>2. CASE Honesty(budget) # <<>>
    <3>1. budget >= 10
      BY <2>2 DEF Honesty
    <3>2. Honesty(budget) = <<Show1("reconnect")>> \/ Honesty(budget) = <<Show1("lastKnown")>>
      BY <2>2 DEF Honesty
    <3>3. conn # "live"
      BY <1>a, <2>2 DEF Honesty, Dim, Sound, LiveMeansCurrent
    <3>4. \A say \in {"reconnect", "lastKnown"} :
            DetailText(<<Show1(say)>>) /\ Len(<<Show1(say)>>) = 1
      BY <3>3, DetailParts
    <3>. QED
      BY <3>1, <3>2, <3>4
  <2>. QED
    BY <2>1, <2>2
<1>e. honest => ~Calm(Honesty(budget))
  <2>. SUFFICES ASSUME honest PROVE ~Calm(Honesty(budget))
    OBVIOUS
  <2>1. Dim(rows[selected]) /\ ~(2 + 4 + 4 > budget)
    BY <1>a DEF Sound, UnreachableIsDim
  <2>2. \E say \in {"reconnect", "lastKnown"} : Honesty(budget) = <<Show1(say)>>
    BY <2>1 DEF Honesty
  <2>. QED
    BY <2>2, DetailParts
<1>b. honest => BoxExists(row)
  BY DEF HasPhase, BoxExists
<1>c. conn = "live" => row.state # "forbidden"
  BY <1>a, ConsoleAssumption DEF Sound, LiveMeansCurrent, Known, Ending, ConsoleAssumption
<1>. HIDE DEF honest
<1>3. PICK h \in {0, 1} : Len(Honesty(budget)) = h /\ (h = 1 => budget >= 10)
  BY <1>2
<1>4. DetailText(name) /\ Len(name) = 1 /\ DetailText(Border) /\ Len(Border) = 1
  BY DetailParts
<1>. HIDE DEF status, name
<1>5. DetailText(first) /\ Len(first) = 3
  <2>1. DetailText(first) /\ Len(first) = Len(Border) + Len(status)
    BY <1>1, <1>4, DetailJoined
  <2>. HIDE DEF first
  <2>. QED
    BY <1>1, <1>4, <2>1
<1>. HIDE DEF first
<1>6. DetailText(second) /\ Len(second) = 3 + h /\ (honest => ~Calm(second))
  <2>1. /\ DetailText(second) /\ Len(second) = Len(first) + Len(Honesty(budget))
        /\ ~Calm(first) \/ ~Calm(Honesty(budget)) => ~Calm(second)
    BY <1>2, <1>3, <1>5, DetailJoined
  <2>. HIDE DEF second
  <2>. QED
    BY <1>3, <1>5, <1>e, <2>1
<1>. HIDE DEF second
<1>7. DetailText(strip) /\ Len(strip) = 4 + h /\ (honest => ~Calm(strip))
  <2>1. /\ DetailText(strip) /\ Len(strip) = Len(second) + Len(Border)
        /\ ~Calm(second) \/ ~Calm(Border) => ~Calm(strip)
    BY <1>4, <1>6, DetailJoined
  <2>. HIDE DEF strip
  <2>. QED
    BY <1>4, <1>6, <2>1
<1>. HIDE DEF strip
<1>8. DetailText(gap) /\ Len(gap) = budget - 9 - h
  <2>1. budget - 5 - Len(strip) \in Nat /\ budget - 5 - Len(strip) = budget - 9 - h
    BY <1>3, <1>7
  <2>. QED
    BY <2>1, DetailParts
<1>. HIDE DEF gap
<1>9. DetailText(third) /\ Len(third) = budget - 5 /\ (honest => ~Calm(third))
  <2>1. /\ DetailText(third) /\ Len(third) = Len(strip) + Len(gap)
        /\ ~Calm(strip) \/ ~Calm(gap) => ~Calm(third)
    BY <1>3, <1>7, <1>8, DetailJoined
  <2>. HIDE DEF third
  <2>. QED
    BY <1>3, <1>7, <1>8, <2>1
<1>. HIDE DEF third
<1>10. DetailText(full) /\ Len(full) = budget - 1 /\ (honest => ~Calm(full))
  <2>1. DetailText(ledger) /\ Len(ledger) = 4
    <3>1. 4 \in Int /\ 4 > 0
      OBVIOUS
    <3>. QED
      BY <3>1, DetailParts
  <2>. QED
    <3>. HIDE DEF ledger
    <3>1. /\ DetailText(full) /\ Len(full) = Len(third) + Len(ledger)
          /\ ~Calm(third) \/ ~Calm(ledger) => ~Calm(full)
      BY <1>9, <2>1, DetailJoined
    <3>. HIDE DEF full
    <3>. QED
      BY <1>9, <2>1, <3>1
<1>. HIDE DEF full
<1>11. DetailText(head) /\ Len(head) = 2
  <2>1. DetailText(head) /\ Len(head) = Len(Border) + Len(name)
    BY <1>4, DetailJoined
  <2>. HIDE DEF head
  <2>. QED
    BY <1>4, <2>1
<1>. HIDE DEF head
<1>12. DetailText(hint) /\ (Len(hint) = 0 \/ Len(hint) = 1)
  <2>1. DetailText(<<>>) /\ Len(<<>>) = 0
    BY DetailParts
  <2>2. /\ conn # "live" => DetailText(<<Show1("reconnect")>>)
        /\ Len(<<Show1("reconnect")>>) = 1
        /\ DetailText(<<Show1("how")>>) /\ Len(<<Show1("how")>>) = 1
    BY DetailParts
  <2>3. \/ hint = <<>> \/ hint = <<Show1("how")>>
        \/ hint = <<Show1("reconnect")>> /\ conn # "live"
    BY <1>c
  <2>. HIDE DEF hint
  <2>. QED
    BY <2>1, <2>2, <2>3
<1>. HIDE DEF hint
<1>13. DetailText(absent) /\ Len(absent) \in {2, 3}
  <2>1. PICK k \in {0, 1} : Len(hint) = k
    BY <1>12
  <2>2. DetailText(absent) /\ Len(absent) = Len(head) + Len(hint)
    BY <1>11, <1>12, DetailJoined
  <2>. HIDE DEF absent
  <2>. QED
    BY <1>11, <2>1, <2>2
<1>. HIDE DEF absent
<1>14. /\ DetailText(lines) /\ Len(lines) \in Nat /\ Len(lines) <= budget - 1
       /\ honest => ~Calm(lines)
  <2>1. PICK k \in {2, 3} : Len(absent) = k
    BY <1>13
  <2>2. lines = full \/ (lines = absent /\ ~honest)
    BY <1>b
  <2>. HIDE DEF lines
  <2>. QED
    BY <1>10, <1>13, <2>1, <2>2
<1>. HIDE DEF lines
<1>15. DetailText(rest) /\ Len(rest) = budget - 1 - Len(lines)
  BY <1>14, DetailParts
<1>. HIDE DEF rest
<1>16. DetailText(fourth) /\ Len(fourth) = budget - 1 /\ (honest => ~Calm(fourth))
  <2>1. /\ DetailText(fourth) /\ Len(fourth) = Len(lines) + Len(rest)
        /\ ~Calm(lines) \/ ~Calm(rest) => ~Calm(fourth)
    BY <1>14, <1>15, DetailJoined
  <2>. HIDE DEF fourth
  <2>. QED
    BY <1>14, <1>15, <2>1
<1>. HIDE DEF fourth
<1>17. DetailText(pane) /\ Len(pane) = budget /\ (honest => ~Calm(pane))
  <2>1. /\ DetailText(pane) /\ Len(pane) = Len(fourth) + Len(Border)
        /\ ~Calm(fourth) \/ ~Calm(Border) => ~Calm(pane)
    BY <1>4, <1>16, DetailJoined
  <2>. HIDE DEF pane
  <2>. QED
    BY <1>4, <1>16, <2>1
<1>. HIDE DEF pane
<1>. QED
  BY <1>0, <1>17 DEF honest

LEMMA ItemsSideBySide ==
  ASSUME NEW n \in Nat, NEW left \in Texts, NEW right \in Texts, Len(left) = n, Len(right) = n
  PROVE  /\ SideBySide(left, right) \in Texts /\ Len(SideBySide(left, right)) = n
         /\ Items(SideBySide(left, right)) = Items(left) \cup Items(right)
<1>. DEFINE both == [i \in 1..n |-> left[i] \cup right[i]]
<1>1. DOMAIN left = 1..n /\ DOMAIN right = 1..n
  BY DEF Texts
<1>2. \A i \in 1..n : left[i] \in SUBSET Things /\ right[i] \in SUBSET Things
  BY DEF Texts
<1>3. SideBySide(left, right) = both
  <2>1. Max2(Len(left), Len(right)) = n
    BY DEF Max2
  <2>. QED
    BY <2>1 DEF SideBySide
<1>4. both \in Texts /\ Len(both) = n
  BY <1>2 DEF Texts
<1>5. Items(both) = Items(left) \cup Items(right)
  <2>1. Items(both) = UNION {left[i] \cup right[i] : i \in 1..n}
    BY DEF Items
  <2>2. Items(left) = UNION {left[i] : i \in 1..n} /\ Items(right) = UNION {right[i] : i \in 1..n}
    BY <1>1 DEF Items
  <2>. QED
    BY <2>1, <2>2
<1>. QED
  BY <1>3, <1>4, <1>5

-----------------------------------------------------------------------------
(* The confirmation. *)

DialogItems(full) ==
  (Prompt \cup Show1("warning") \cup Show1("keys"))
    \cup (IF full THEN Show1("sessions") \cup Show1("fresh") ELSE {})

\* What a body with the confirmation shows.
DialogBody(lines) ==
  /\ lines \in Texts
  /\ Shown(lines, "prompt") = Prompt
  /\ Shown(lines, "warning") # {} /\ Shown(lines, "keys") # {}
  /\ Shown(lines, "row") = {} /\ Shown(lines, "cap") = {} /\ Calm(lines)
FullDialogBody(lines) ==
  DialogBody(lines) /\ Shown(lines, "sessions") # {} /\ Shown(lines, "fresh") # {}

LEMMA PromptIsOne ==
  ASSUME Sound
  PROVE  /\ Prompt \in SUBSET Things /\ Prompt = {Item("prompt", selected, FALSE)}
         /\ \A item \in Prompt : item.what = "prompt"
<1>1. selected \in Nat
  BY ConsoleAssumption DEF Sound, TypeOK, UiTypeOK, Rows
<1>. QED
  BY <1>1 DEF Prompt, Item, Things

LEMMA DialogItemsMakeBody ==
  ASSUME Sound, NEW lines \in Texts, NEW full \in BOOLEAN, Items(lines) = DialogItems(full)
  PROVE  DialogBody(lines) /\ (full => FullDialogBody(lines))
<1>. DEFINE Say(say) == Item(say, 0, FALSE)
<1>1. /\ Say("warning").what = "warning" /\ Say("keys").what = "keys"
      /\ Say("sessions").what = "sessions" /\ Say("fresh").what = "fresh"
  BY DEF Item
<1>2. \A item \in Items(lines) :
        \/ item \in Prompt \/ item = Say("warning") \/ item = Say("keys")
        \/ item = Say("sessions") \/ item = Say("fresh")
  BY DEF DialogItems, Show1
<1>3. /\ Prompt \subseteq Items(lines) /\ Say("warning") \in Items(lines)
      /\ Say("keys") \in Items(lines)
      /\ full => Say("sessions") \in Items(lines) /\ Say("fresh") \in Items(lines)
  BY DEF DialogItems, Show1
<1>4. \A what : Shown(lines, what) = {item \in Items(lines) : item.what = what}
  BY ShownIsItems
<1>5. \A item \in Prompt : item.what = "prompt"
  BY PromptIsOne
<1>. HIDE DEF Say
<1>6. Shown(lines, "prompt") = Prompt
  BY <1>1, <1>2, <1>3, <1>4, <1>5
<1>7. Shown(lines, "row") = {} /\ Shown(lines, "cap") = {} /\ Calm(lines)
  BY <1>1, <1>2, <1>4, <1>5 DEF Calm
<1>8. Shown(lines, "warning") # {} /\ Shown(lines, "keys") # {}
  BY <1>1, <1>3, <1>4
<1>9. full => Shown(lines, "sessions") # {} /\ Shown(lines, "fresh") # {}
  BY <1>1, <1>3, <1>4
<1>. QED
  BY <1>6, <1>7, <1>8, <1>9 DEF DialogBody, FullDialogBody

LEMMA SayingsAreThings ==
  /\ Show1("warning") \in SUBSET Things /\ Show1("keys") \in SUBSET Things
  /\ Show1("sessions") \in SUBSET Things /\ Show1("fresh") \in SUBSET Things
BY SaysOne

LEMMA DialogCompactSound ==
  ASSUME Sound
  PROVE  <<DialogCompact>> \in Texts /\ Len(<<DialogCompact>>) = 1 /\ DialogBody(<<DialogCompact>>)
<1>1. DialogCompact \in SUBSET Things /\ DialogCompact = DialogItems(FALSE)
  BY PromptIsOne, SayingsAreThings DEF DialogCompact, DialogItems
<1>2. <<DialogCompact>> \in Texts /\ Len(<<DialogCompact>>) = 1
      /\ Items(<<DialogCompact>>) = DialogItems(FALSE)
  BY <1>1, ItemsOne
<1>. QED
  BY <1>2, DialogItemsMakeBody

LEMMA DialogLinesSound ==
  ASSUME Sound, NEW budget \in Nat \ {0}
  PROVE  /\ DialogBody(DialogLines(budget)) /\ Len(DialogLines(budget)) <= budget
         /\ Len(DialogLines(budget)) \in Nat
         /\ budget >= 3 => FullDialogBody(DialogLines(budget))
<1>. DEFINE p == Prompt
            w == Show1("warning")
            k == Show1("keys")
            s == Show1("sessions")
            f == Show1("fresh")
<1>0. /\ p \in SUBSET Things /\ w \in SUBSET Things /\ k \in SUBSET Things
      /\ s \in SUBSET Things /\ f \in SUBSET Things
  BY PromptIsOne, SayingsAreThings
<1>00. DialogItems(TRUE) = p \cup w \cup k \cup s \cup f /\ DialogItems(FALSE) = p \cup w \cup k
  BY DEF DialogItems
<1>1. CASE budget >= 5
  <2>. DEFINE lines == <<p, w, s, f, k>>
  <2>1. DialogLines(budget) = lines
    BY <1>1 DEF DialogLines
  <2>. HIDE DEF p, w, s, f, k
  <2>2. lines \in Texts /\ Len(lines) = 5 /\ Items(lines) = DialogItems(TRUE)
    <3>1. lines \in Texts /\ Len(lines) = 5
      BY <1>0 DEF Texts
    <3>2. Items(lines) = p \cup w \cup s \cup f \cup k
      BY DEF Items
    <3>3. Items(lines) = DialogItems(TRUE)
      <4>. HIDE DEF lines
      <4>. QED
        BY <1>00, <3>2
    <3>. QED
      BY <3>1, <3>3
  <2>. HIDE DEF lines
  <2>3. DialogBody(lines) /\ FullDialogBody(lines)
    BY <2>2, DialogItemsMakeBody
  <2>. QED
    BY <1>1, <2>1, <2>2, <2>3
<1>2. CASE budget \in 3..4
  <2>. DEFINE lines == <<p, (w \cup s) \cup f, k>>
  <2>1. DialogLines(budget) = lines
    BY <1>2 DEF DialogLines
  <2>. HIDE DEF p, w, s, f, k
  <2>2. lines \in Texts /\ Len(lines) = 3 /\ Items(lines) = DialogItems(TRUE)
    <3>1. lines \in Texts /\ Len(lines) = 3
      BY <1>0 DEF Texts
    <3>2. Items(lines) = p \cup ((w \cup s) \cup f) \cup k
      BY DEF Items
    <3>3. Items(lines) = DialogItems(TRUE)
      <4>. HIDE DEF lines
      <4>. QED
        BY <1>00, <3>2
    <3>. QED
      BY <3>1, <3>3
  <2>. HIDE DEF lines
  <2>3. DialogBody(lines) /\ FullDialogBody(lines)
    BY <2>2, DialogItemsMakeBody
  <2>. QED
    BY <1>2, <2>1, <2>2, <2>3
<1>3. CASE budget = 2
  <2>. DEFINE lines == <<w, p \cup k>>
  <2>1. DialogLines(budget) = lines
    BY <1>3 DEF DialogLines
  <2>. HIDE DEF p, w, s, f, k
  <2>2. lines \in Texts /\ Len(lines) = 2 /\ Items(lines) = DialogItems(FALSE)
    <3>1. lines \in Texts /\ Len(lines) = 2
      BY <1>0 DEF Texts
    <3>2. Items(lines) = w \cup (p \cup k)
      BY DEF Items
    <3>3. Items(lines) = DialogItems(FALSE)
      <4>. HIDE DEF lines
      <4>. QED
        BY <1>00, <3>2
    <3>. QED
      BY <3>1, <3>3
  <2>. HIDE DEF lines
  <2>3. DialogBody(lines)
    BY <2>2, DialogItemsMakeBody
  <2>. QED
    BY <1>3, <2>1, <2>2, <2>3
<1>4. CASE budget = 1
  <2>1. DialogLines(budget) = <<DialogCompact>>
    BY <1>4 DEF DialogLines
  <2>. QED
    <3>1. Len(DialogLines(budget)) = 1 /\ DialogBody(DialogLines(budget))
      BY <2>1, DialogCompactSound
    <3>2. Len(DialogLines(budget)) \in Nat /\ Len(DialogLines(budget)) <= budget
      <4>. DEFINE size == Len(DialogLines(budget))
      <4>1. size = 1
        BY <3>1
      <4>. HIDE DEF size
      <4>2. size \in Nat /\ size <= budget
        BY <1>4, <4>1
      <4>. QED
        BY <4>2 DEF size
    <3>3. ~(budget >= 3)
      BY <1>4
    <3>. QED
      BY <3>1, <3>2, <3>3
<1>. QED
  BY <1>1, <1>2, <1>3, <1>4

LEMMA DeletePopupSound ==
  ASSUME Sound, NEW budget \in Nat, budget >= 8
  PROVE  /\ FullDialogBody(DeletePopup(budget))
         /\ Len(DeletePopup(budget)) \in Nat /\ Len(DeletePopup(budget)) <= budget
<1>. DEFINE five == <<Prompt, Show1("warning"), Show1("sessions"), Show1("fresh"), {}>>
            extra == Blanks(IF budget >= 9 THEN 1 ELSE 0)
            keys == <<Show1("keys")>>
            a == Border \o five
            b == a \o extra
            c == b \o keys
            popup == c \o Border
            above == Blanks((budget - Len(popup)) \div 2)
            all == above \o popup
<1>0. DeletePopup(budget) = all
  BY DEF DeletePopup
<1>1. /\ five \in Texts /\ Len(five) = 5
      /\ Items(five) = Prompt \cup Show1("warning") \cup Show1("sessions") \cup Show1("fresh")
  <2>. DEFINE p == Prompt
              w == Show1("warning")
              s == Show1("sessions")
              f == Show1("fresh")
  <2>1. /\ p \in SUBSET Things /\ w \in SUBSET Things
        /\ s \in SUBSET Things /\ f \in SUBSET Things
    BY PromptIsOne, SayingsAreThings
  <2>. HIDE DEF p, w, s, f
  <2>2. /\ <<p, w, s, f, {}>> \in Texts /\ Len(<<p, w, s, f, {}>>) = 5
        /\ Items(<<p, w, s, f, {}>>) = p \cup w \cup s \cup f
    BY <2>1 DEF Texts, Items
  <2>. QED
    BY <2>2 DEF p, w, s, f
<1>2. PICK x \in {0, 1} : /\ extra \in Texts /\ Len(extra) = x /\ Items(extra) = {}
                          /\ x = 1 => budget >= 9
  <2>1. Blanks(1) \in Texts /\ Len(Blanks(1)) = 1 /\ Items(Blanks(1)) = {}
    <3>1. 1 \in Int /\ 1 > 0
      OBVIOUS
    <3>. QED
      BY <3>1, ItemsBlanks
  <2>2. Blanks(0) \in Texts /\ Len(Blanks(0)) = 0 /\ Items(Blanks(0)) = {}
    BY ItemsBlanks
  <2>. QED
    BY <2>1, <2>2
<1>3. keys \in Texts /\ Len(keys) = 1 /\ Items(keys) = Show1("keys")
  BY SayingsAreThings, ItemsOne
<1>4. Border \in Texts /\ Len(Border) = 1 /\ Items(Border) = {}
  BY ItemsBorder
<1>. HIDE DEF five, extra, keys
<1>5. a \in Texts /\ Len(a) = 6 /\ Items(a) = Items(five)
  <2>1. a \in Texts /\ Len(a) = Len(Border) + Len(five) /\ Items(a) = Items(Border) \cup Items(five)
    BY <1>1, <1>4, ItemsConcat
  <2>. HIDE DEF a
  <2>. QED
    BY <1>1, <1>4, <2>1
<1>. HIDE DEF a
<1>6. b \in Texts /\ Len(b) = 6 + x /\ Items(b) = Items(five)
  <2>1. b \in Texts /\ Len(b) = Len(a) + Len(extra) /\ Items(b) = Items(a) \cup Items(extra)
    BY <1>2, <1>5, ItemsConcat
  <2>. HIDE DEF b
  <2>. QED
    BY <1>2, <1>5, <2>1
<1>. HIDE DEF b
<1>7. c \in Texts /\ Len(c) = 7 + x /\ Items(c) = Items(five) \cup Show1("keys")
  <2>1. c \in Texts /\ Len(c) = Len(b) + Len(keys) /\ Items(c) = Items(b) \cup Items(keys)
    BY <1>3, <1>6, ItemsConcat
  <2>. HIDE DEF c
  <2>. QED
    BY <1>2, <1>3, <1>6, <2>1
<1>. HIDE DEF c
<1>8. popup \in Texts /\ Len(popup) = 8 + x /\ Items(popup) = Items(five) \cup Show1("keys")
  <2>1. popup \in Texts /\ Len(popup) = Len(c) + Len(Border) /\ Items(popup) = Items(c) \cup Items(Border)
    BY <1>4, <1>7, ItemsConcat
  <2>. HIDE DEF popup
  <2>. QED
    BY <1>2, <1>4, <1>7, <2>1
<1>. HIDE DEF popup
<1>9. PICK m \in Nat : above \in Texts /\ Len(above) = m /\ Items(above) = {} /\ m + 8 + x <= budget
  <2>. DEFINE left == budget - Len(popup)
              half == left \div 2
  <2>1. left \in Nat /\ left = budget - 8 - x
    BY <1>2, <1>8
  <2>2. half \in Nat /\ half <= left
    <3>. HIDE DEF left
    <3>. QED
      BY <2>1
  <2>3. above = Blanks(half)
    OBVIOUS
  <2>. HIDE DEF above, half
  <2>4. Blanks(half) \in Texts /\ Len(Blanks(half)) = half /\ Items(Blanks(half)) = {}
    BY <2>2, ItemsBlanks
  <2>. QED
    BY <1>2, <2>1, <2>2, <2>3, <2>4
<1>. HIDE DEF above
<1>10. all \in Texts /\ Len(all) = m + 8 + x /\ Items(all) = Items(five) \cup Show1("keys")
  <2>1. all \in Texts /\ Len(all) = Len(above) + Len(popup) /\ Items(all) = Items(above) \cup Items(popup)
    BY <1>8, <1>9, ItemsConcat
  <2>. HIDE DEF all
  <2>. QED
    BY <1>2, <1>8, <1>9, <2>1
<1>. HIDE DEF all
<1>11. Items(all) = DialogItems(TRUE)
  BY <1>1, <1>10 DEF DialogItems
<1>12. FullDialogBody(all)
  BY <1>10, <1>11, DialogItemsMakeBody
<1>. QED
  BY <1>0, <1>2, <1>9, <1>10, <1>12

-----------------------------------------------------------------------------
(* Every layout. *)

\* What stands above the message line and the footer.
GoodBody(lines, bright) ==
  /\ lines \in Texts
  /\ dialog = "none" => /\ Rows # {} => \E item \in Shown(lines, "row") : item.row = selected
                        /\ \A item \in Shown(lines, "detail") : item.row = selected
  /\ dialog # "none" => DialogBody(lines)
  /\ \A item \in Shown(lines, "row") : Tells(item, bright)
  /\ conn = "live" => Calm(lines)
  /\ Shown(lines, "cap") # {} => maxBoxes > 0 /\ Rows # {}

LEMMA DialogIsGood ==
  ASSUME NEW lines, dialog # "none", DialogBody(lines), NEW bright
  PROVE  GoodBody(lines, bright)
BY DEF GoodBody, DialogBody

LEMMA ListIsGood ==
  ASSUME NEW lines, dialog = "none", Rows # {}, ListBody(lines)
  PROVE  GoodBody(lines, {selected})
BY DEF GoodBody, ListBody

LEMMA BodyLinesSound ==
  ASSUME Sound, dialog = "none", NEW budget \in Nat \ {0}
  PROVE  GoodBody(BodyLines(budget), {}) /\ Len(BodyLines(budget)) <= budget
<1>1. CASE Rows # {}
  <2>. DEFINE window == Scroll(RowLines, budget)
  <2>1. IsList(RowLines, {}) /\ BodyLines(budget) = window
    BY <1>1, RowLinesList DEF BodyLines
  <2>2. ShowsList(window, {}) /\ Len(window) <= budget
    BY <1>1, <2>1, ListWindow
  <2>. HIDE DEF window
  <2>3. GoodBody(window, {})
    BY <2>2 DEF GoodBody, ShowsList, Calm
  <2>. QED
    BY <2>1, <2>2, <2>3
<1>2. CASE Rows = {}
  <2>. DEFINE one == <<Show1("empty")>>
              two == <<Show1("empty"), {}>>
  <2>1. one \in Texts /\ Len(one) = 1 /\ Items(one) = Show1("empty")
    BY SaysOne, ItemsOne
  <2>2. two \in Texts /\ Len(two) = 2 /\ Items(two) = Show1("empty")
    <3>. DEFINE e == Show1("empty")
    <3>1. e \in SUBSET Things
      BY SaysOne
    <3>. HIDE DEF e
    <3>2. <<e, {}>> \in Texts /\ Len(<<e, {}>>) = 2 /\ Items(<<e, {}>>) = e
      BY <3>1 DEF Texts, Items
    <3>. QED
      BY <3>2 DEF e
  <2>3. \A item \in Show1("empty") : item.what = "empty"
    BY DEF Show1, Item
  <2>4. (BodyLines(budget) = two /\ budget > 1) \/ BodyLines(budget) = one
    BY <1>2 DEF BodyLines
  <2>. HIDE DEF one, two
  <2>5. GoodBody(one, {}) /\ GoodBody(two, {})
    <3>. SUFFICES ASSUME NEW x \in Texts, Items(x) = Show1("empty")
                  PROVE  GoodBody(x, {})
      BY <2>1, <2>2
    <3>1. \A what : what # "empty" => Shown(x, what) = {}
      BY <2>3, ShownIsItems
    <3>2. Shown(x, "row") = {} /\ Shown(x, "detail") = {} /\ Shown(x, "cap") = {} /\ Calm(x)
      BY <3>1 DEF Calm
    <3>. QED
      BY <1>2, <3>2 DEF GoodBody
  <2>6. CASE BodyLines(budget) = two /\ budget > 1
    <3>1. 2 <= budget
      BY <2>6
    <3>2. Len(two) <= budget
      BY <2>2, <3>1
    <3>. QED
      BY <2>5, <2>6, <3>2
  <2>7. CASE BodyLines(budget) = one
    BY <2>1, <2>5, <2>7
  <2>. QED
    BY <2>4, <2>6, <2>7
<1>. QED
  BY <1>1, <1>2

LEMMA PanesSound ==
  ASSUME Sound, NEW budget \in Nat, NEW width, PanesFit(budget, width),
         NEW bright, dialog = "none" => bright = {selected}
  PROVE  /\ GoodBody(MasterDetail(budget, width), bright)
         /\ Len(MasterDetail(budget, width)) <= budget
         /\ dialog # "none" => FullDialogBody(MasterDetail(budget, width))
         /\ dialog = "none" /\ maxBoxes > 0 => Shown(MasterDetail(budget, width), "cap") # {}
         /\ conn = "unreachable" /\ dialog = "none" /\ Panes(budget, width) = 2 /\ budget >= 10
              /\ HasPhase(rows[selected]) => ~Calm(MasterDetail(budget, width))
<1>1. CASE dialog # "none"
  <2>1. MasterDetail(budget, width) = DeletePopup(budget) /\ budget >= 8
    BY <1>1 DEF MasterDetail, PanesFit
  <2>2. FullDialogBody(DeletePopup(budget)) /\ Len(DeletePopup(budget)) <= budget
    BY <2>1, DeletePopupSound
  <2>3. GoodBody(DeletePopup(budget), bright)
    BY <1>1, <2>2, DialogIsGood DEF FullDialogBody
  <2>. QED
    BY <1>1, <2>1, <2>2, <2>3
<1>2. CASE dialog = "none"
  <2>. DEFINE master == MasterPane(budget)
              detail == DetailPane(budget)
              both == SideBySide(master, detail)
  <2>0. Rows # {} /\ budget >= 6
    BY DEF PanesFit
  <2>1. ListBody(master) /\ Len(master) = budget /\ (maxBoxes > 0 => Shown(master, "cap") # {})
    BY <2>0, MasterPaneSound
  <2>2. CASE Panes(budget, width) = 2
    <3>1. MasterDetail(budget, width) = both
      BY <1>2, <2>2 DEF MasterDetail
    <3>2. budget >= 9
      BY <2>2 DEF Panes
    <3>3. /\ DetailText(detail) /\ Len(detail) = budget
          /\ conn = "unreachable" /\ budget >= 10 /\ HasPhase(rows[selected]) => ~Calm(detail)
      BY <2>0, <3>2, DetailPaneSound
    <3>. HIDE DEF master, detail
    <3>4. both \in Texts /\ Len(both) = budget /\ Items(both) = Items(master) \cup Items(detail)
      BY <2>1, <3>3, ItemsSideBySide DEF ListBody, DetailText
    <3>. HIDE DEF both
    <3>5. \A what : Shown(both, what) = Shown(master, what) \cup Shown(detail, what)
      BY <3>4, ShownIsItems
    <3>6. ListBody(both) /\ (maxBoxes > 0 => Shown(both, "cap") # {})
      BY <2>1, <3>3, <3>4, <3>5 DEF ListBody, DetailText, Calm
    <3>7. GoodBody(both, {selected})
      BY <1>2, <2>0, <3>6, ListIsGood
    <3>8. conn = "unreachable" /\ budget >= 10 /\ HasPhase(rows[selected]) => ~Calm(both)
      BY <3>3, <3>5 DEF Calm
    <3>9. GoodBody(both, bright)
      <4>1. bright = {selected}
        BY <1>2
      <4>. QED
        BY <3>7, <4>1
    <3>10. Len(both) <= budget
      <4>. DEFINE size == Len(both)
      <4>1. size = budget
        BY <3>4
      <4>. HIDE DEF size
      <4>2. size <= budget
        BY <4>1
      <4>. QED
        BY <4>2 DEF size
    <3>. QED
      BY <1>2, <3>1, <3>6, <3>8, <3>9, <3>10, Zenon
  <2>3. CASE Panes(budget, width) # 2
    <3>1. MasterDetail(budget, width) = master
      BY <1>2, <2>3 DEF MasterDetail
    <3>. HIDE DEF master
    <3>2. GoodBody(master, {selected})
      BY <1>2, <2>0, <2>1, ListIsGood
    <3>. QED
      BY <1>2, <2>1, <2>3, <3>1, <3>2
  <2>. QED
    BY <2>2, <2>3
<1>. QED
  BY <1>1, <1>2

LEMMA OlderSound ==
  ASSUME Sound, NEW height \in Nat, height >= 3, NEW width
  PROVE  \E body :
           /\ GoodBody(body, {}) /\ Len(body) \in Nat
           /\ Older(height, width) = (body \o MessageLine) \o Footer(width, FALSE)
           /\ \/ Len(body) + (IF message = NoMessage THEN 1 ELSE 2) <= height
              \/ height = 3 /\ message # NoMessage /\ Len(body) = 2
           /\ dialog # "none" /\ height >= 6 => FullDialogBody(body)
<1>. DEFINE line == <<Show1("connection")>>
            header == IF height < 7 THEN line ELSE <<{}, {}, Show1("connection")>>
            budget == Room(height, Len(header) + 1)
            list == IF dialog # "none" THEN DialogLines(budget) ELSE BodyLines(budget)
            body == header \o list
<1>0. Older(height, width) = (body \o MessageLine) \o Footer(width, FALSE)
  BY DEF Older
<1>1. PICK h \in {1, 3} :
        /\ header \in Texts /\ Len(header) = h /\ (h = 3 <=> height >= 7)
        /\ Items(header) = Show1("connection")
  <2>. DEFINE c == Show1("connection")
  <2>1. c \in SUBSET Things
    BY SaysOne
  <2>2. line \in Texts /\ Len(line) = 1 /\ Items(line) = c
    BY SaysOne, ItemsOne
  <2>. HIDE DEF c, line
  <2>3. <<{}, {}, c>> \in Texts /\ Len(<<{}, {}, c>>) = 3 /\ Items(<<{}, {}, c>>) = c
    BY <2>1 DEF Texts, Items
  <2>4. <<{}, {}, Show1("connection")>> = <<{}, {}, c>>
    BY DEF c
  <2>5. CASE height < 7
    <3>1. header = line
      BY <2>5
    <3>. HIDE DEF header
    <3>. QED
      BY <2>2, <2>5, <3>1 DEF c
  <2>6. CASE ~(height < 7)
    <3>1. header = <<{}, {}, c>>
      BY <2>4, <2>6
    <3>. HIDE DEF header
    <3>. QED
      BY <2>3, <2>6, <3>1 DEF c
  <2>. QED
    BY <2>5, <2>6
<1>2. PICK m \in {0, 1} : Len(MessageLine) = m /\ (m = 0 <=> message = NoMessage)
  BY MessageLines
<1>. HIDE DEF header, line
<1>3. budget = Max2(1, height - h - 1 - m)
  <2>1. height - (h + 1) - m = height - h - 1 - m
    OBVIOUS
  <2>. QED
    BY <1>1, <1>2, <2>1 DEF Room
<1>. HIDE DEF budget
<1>4. /\ budget \in Nat \ {0}
      /\ budget = height - h - 1 - m \/ (budget = 1 /\ height = 3 /\ h = 1 /\ m = 1)
  BY <1>1, <1>2, <1>3 DEF Max2
<1>5. /\ GoodBody(list, {}) /\ Len(list) <= budget
      /\ dialog # "none" /\ budget >= 3 => FullDialogBody(list)
  <2>1. CASE dialog # "none"
    <3>1. list = DialogLines(budget)
      BY <2>1
    <3>. HIDE DEF list
    <3>. QED
      BY <1>4, <2>1, <3>1, DialogLinesSound, DialogIsGood
  <2>2. CASE dialog = "none"
    <3>1. list = BodyLines(budget)
      BY <2>2
    <3>. HIDE DEF list
    <3>. QED
      BY <1>4, <2>2, <3>1, BodyLinesSound
  <2>. QED
    BY <2>1, <2>2
<1>. HIDE DEF list
<1>6. list \in Texts /\ Len(list) \in Nat
  BY <1>5 DEF GoodBody, Texts
<1>7. body \in Texts /\ Len(body) = h + Len(list)
  <2>1. body \in Texts /\ Len(body) = Len(header) + Len(list)
    BY <1>1, <1>6, Joined
  <2>. QED
    BY <1>1, <2>1
<1>8. \A what : what # "connection" => Shown(body, what) = Shown(list, what)
  <2>1. \A what : Shown(body, what) = Shown(header, what) \cup Shown(list, what)
    BY <1>1, <1>6, Joined
  <2>2. \A item \in Show1("connection") : item.what = "connection"
    BY DEF Show1, Item
  <2>3. \A what : what # "connection" => Shown(header, what) = {}
    BY <1>1, <2>2, ShownIsItems
  <2>. QED
    BY <2>1, <2>3
<1>. HIDE DEF body
<1>9. GoodBody(body, {}) /\ (FullDialogBody(list) => FullDialogBody(body))
  BY <1>5, <1>7, <1>8 DEF GoodBody, DialogBody, FullDialogBody, Calm
<1>10. \/ Len(body) + (IF message = NoMessage THEN 1 ELSE 2) <= height
       \/ height = 3 /\ message # NoMessage /\ Len(body) = 2
  <2>. DEFINE size == Len(list)
  <2>1. size \in Nat /\ size <= budget /\ Len(body) = h + size
    BY <1>5, <1>6, <1>7
  <2>. HIDE DEF size
  <2>2. CASE m = 0
    <3>1. message = NoMessage /\ size <= height - h - 1
      BY <1>1, <1>2, <1>4, <2>1, <2>2
    <3>2. h + size + 1 <= height
      BY <1>1, <2>1, <3>1
    <3>. QED
      BY <2>1, <3>1, <3>2
  <2>3. CASE m = 1
    <3>1. message # NoMessage
      BY <1>2, <2>3
    <3>2. CASE budget = height - h - 1 - m
      <4>1. h + size + 2 <= height
        BY <1>1, <1>4, <2>1, <2>3, <3>2
      <4>. QED
        BY <2>1, <3>1, <4>1
    <3>3. CASE budget = 1 /\ height = 3 /\ h = 1
      <4>1. size = 0 \/ size = 1
        BY <2>1, <3>3
      <4>2. h + size = 2 \/ h + size + 2 <= height
        BY <3>3, <4>1
      <4>. QED
        BY <2>1, <3>1, <3>3, <4>2
    <3>. QED
      BY <1>4, <3>2, <3>3
  <2>. QED
    BY <2>2, <2>3
<1>11. dialog # "none" /\ height >= 6 => FullDialogBody(body)
  <2>. SUFFICES ASSUME dialog # "none", height >= 6 PROVE budget >= 3
    BY <1>5, <1>9
  <2>1. m = 0
    BY <1>2 DEF Sound, MessageTrueWhenLive
  <2>. QED
    BY <1>1, <1>4, <2>1
<1>12. Len(body) \in Nat
  BY <1>1, <1>6, <1>7
<1>. QED
  BY <1>0, <1>9, <1>10, <1>11, <1>12

\* Which layout a height brings.
LEMMA Layouts ==
  ASSUME NEW height \in Nat, NEW width
  PROVE  /\ height <= 1 => Lines(height, width) = Footer(width, FALSE)
         /\ height = 2 =>
              Lines(height, width) =
                <<IF dialog # "none" THEN DialogCompact
                  ELSE IF Rows = {} THEN Show1("empty") ELSE RowLines[selected]>>
                  \o Footer(width, FALSE)
         /\ height > 2 /\ PanesFit(Room(height, 1), width) =>
              Lines(height, width) =
                (MasterDetail(Room(height, 1), width) \o MessageLine) \o Footer(width, TRUE)
         /\ height > 2 /\ ~PanesFit(Room(height, 1), width) =>
              Lines(height, width) = Older(height, width)
<1>. DEFINE top == <<IF dialog # "none" THEN DialogCompact
                     ELSE IF Rows = {} THEN Show1("empty") ELSE RowLines[selected]>>
            two == top \o Footer(width, FALSE)
            panes == (MasterDetail(Room(height, 1), width) \o MessageLine) \o Footer(width, TRUE)
            fits == PanesFit(Room(height, 1), width)
<1>1. Lines(height, width) =
        CASE height <= 1 -> Footer(width, FALSE)
          [] height = 2 -> two
          [] height > 2 /\ fits -> panes
          [] OTHER -> Older(height, width)
  BY Zenon DEF Lines
<1>. HIDE DEF two, panes, fits
<1>. DEFINE small == height <= 1
            pair == height = 2
            tall == height > 2
<1>2. (small => ~pair /\ ~tall) /\ (pair => ~small /\ ~tall) /\ (tall => ~small /\ ~pair)
  OBVIOUS
<1>3. Lines(height, width) =
        CASE small -> Footer(width, FALSE)
          [] pair -> two
          [] tall /\ fits -> panes
          [] OTHER -> Older(height, width)
  BY <1>1
<1>. HIDE DEF small, pair, tall
<1>4. small => Lines(height, width) = Footer(width, FALSE)
  BY <1>2, <1>3
<1>5. pair => Lines(height, width) = two
  BY <1>2, <1>3
<1>6. tall /\ fits => Lines(height, width) = panes
  BY <1>2, <1>3
<1>7. tall /\ ~fits => Lines(height, width) = Older(height, width)
  BY <1>2, <1>3
<1>. QED
  BY <1>4, <1>5, <1>6, <1>7, Zenon DEF small, pair, tall, two, panes, fits

LEMMA TallSound ==
  ASSUME Sound, NEW height \in Nat, height >= 3, NEW width
  PROVE  \E body, identity :
           /\ GoodBody(body, Bright(height, width)) /\ Len(body) \in Nat
           /\ Lines(height, width) = (body \o MessageLine) \o Footer(width, identity)
           /\ \/ Len(body) + (IF message = NoMessage THEN 1 ELSE 2) <= height
              \/ height = 3 /\ message # NoMessage /\ Len(body) = 2
           /\ dialog # "none" /\ height >= 6 => FullDialogBody(body)
           /\ PanesFit(Room(height, 1), width) /\ dialog = "none" /\ maxBoxes > 0 =>
                Shown(body, "cap") # {}
           /\ conn = "unreachable" /\ InPanes(height, width) /\ HasHonestyLine(height, width) =>
                ~Calm(body)
<1>1. CASE PanesFit(Room(height, 1), width)
  <2>. DEFINE budget == Room(height, 1)
              body == MasterDetail(budget, width)
  <2>0. Lines(height, width) = (body \o MessageLine) \o Footer(width, TRUE)
    <3>1. height > 2
      OBVIOUS
    <3>. QED
      BY <1>1, <3>1, Layouts
  <2>1. budget + (IF message = NoMessage THEN 1 ELSE 2) = height /\ budget \in Nat
    <3>1. budget >= 6
      BY <1>1 DEF PanesFit
    <3>2. PICK m \in {0, 1} : Len(MessageLine) = m /\ (m = 0 <=> message = NoMessage)
      BY MessageLines
    <3>3. budget = Max2(1, height - 1 - m)
      BY <3>2 DEF Room
    <3>. HIDE DEF budget
    <3>4. budget = height - 1 - m
      BY <3>1, <3>2, <3>3 DEF Max2
    <3>. QED
      BY <3>1, <3>2, <3>4
  <2>2. /\ GoodBody(body, Bright(height, width)) /\ Len(body) <= budget
        /\ dialog # "none" => FullDialogBody(body)
        /\ dialog = "none" /\ maxBoxes > 0 => Shown(body, "cap") # {}
        /\ conn = "unreachable" /\ dialog = "none" /\ Panes(budget, width) = 2 /\ budget >= 10
             /\ HasPhase(rows[selected]) => ~Calm(body)
    <3>1. PanesFit(budget, width)
      BY <1>1
    <3>2. dialog = "none" => Bright(height, width) = {selected}
      BY <1>1 DEF Bright, InPanes
    <3>. HIDE DEF budget
    <3>. QED
      BY <2>1, <3>1, <3>2, PanesSound
  <2>5. /\ InPanes(height, width) => dialog = "none"
        /\ HasHonestyLine(height, width) =>
             Panes(budget, width) = 2 /\ budget >= 10 /\ HasPhase(rows[selected])
    BY <1>1 DEF InPanes, HasHonestyLine
  <2>. HIDE DEF body, budget
  <2>3. Len(body) \in Nat
    BY <2>2 DEF GoodBody, Texts
  <2>4. Len(body) + (IF message = NoMessage THEN 1 ELSE 2) <= height
    <3>. DEFINE k == IF message = NoMessage THEN 1 ELSE 2
                size == Len(body)
    <3>1. k \in Nat /\ size \in Nat /\ size <= budget /\ budget + k = height
      BY <2>1, <2>2, <2>3
    <3>. HIDE DEF k, size
    <3>2. size + k <= height
      BY <2>1, <3>1
    <3>. QED
      BY <3>2 DEF k, size
  <2>. QED
    BY <2>0, <2>2, <2>3, <2>4, <2>5
<1>2. CASE ~PanesFit(Room(height, 1), width)
  <2>1. Lines(height, width) = Older(height, width)
    <3>1. height > 2
      OBVIOUS
    <3>. QED
      BY <1>2, <3>1, Layouts
  <2>2. ~InPanes(height, width) /\ Bright(height, width) = {}
    BY <1>2 DEF InPanes, Bright
  <2>. QED
    <3>1. PICK body :
            /\ GoodBody(body, {}) /\ Len(body) \in Nat
            /\ Older(height, width) = (body \o MessageLine) \o Footer(width, FALSE)
            /\ \/ Len(body) + (IF message = NoMessage THEN 1 ELSE 2) <= height
               \/ height = 3 /\ message # NoMessage /\ Len(body) = 2
            /\ dialog # "none" /\ height >= 6 => FullDialogBody(body)
      BY OlderSound
    <3>2. GoodBody(body, Bright(height, width))
      BY <2>2, <3>1
    <3>. QED
      BY <1>2, <2>1, <2>2, <3>1, <3>2
<1>. QED
  BY <1>1, <1>2

LEMMA ShortLines ==
  ASSUME Sound, NEW height \in Nat, height <= 2, NEW width
  PROVE  /\ Len(Lines(height, width)) = Max2(1, height)
         /\ Show1("quit") \subseteq Lines(height, width)[Len(Lines(height, width))]
         /\ Shown(Lines(height, width), "detail") = {} /\ Shown(Lines(height, width), "cap") = {}
         /\ \A item \in Shown(Lines(height, width), "row") : Tells(item, {})
         /\ Calm(Lines(height, width))
         /\ height = 2 /\ dialog = "none" /\ Rows # {} =>
              \E item \in Shown(Lines(height, width), "row") : item.row = selected
         /\ height = 2 /\ dialog # "none" => DialogBody(Lines(height, width))
<1>. DEFINE foot == Footer(width, FALSE)
            lines == Lines(height, width)
<1>1. /\ foot \in Texts /\ Len(foot) = 1 /\ Show1("quit") \subseteq foot[1]
      /\ \A what : what \notin {"quit", "connection"} => Shown(foot, what) = {}
  BY FooterLine
<1>. HIDE DEF foot
<1>2. CASE height <= 1
  <2>1. lines = foot
    BY <1>2, Layouts DEF foot
  <2>2. Max2(1, height) = 1
    BY <1>2 DEF Max2
  <2>3. height # 2
    BY <1>2
  <2>. HIDE DEF lines
  <2>4. Shown(lines, "detail") = {} /\ Shown(lines, "cap") = {} /\ Shown(lines, "row") = {}
        /\ Calm(lines)
    BY <1>1, <2>1 DEF Calm
  <2>5. Len(lines) = 1 /\ lines[Len(lines)] = foot[1]
    BY <1>1, <2>1
  <2>6. /\ Len(lines) = Max2(1, height) /\ Show1("quit") \subseteq lines[Len(lines)]
    BY <1>1, <2>2, <2>5
  <2>. QED
    BY <2>3, <2>4, <2>6 DEF lines
<1>3. CASE height = 2
  <2>. DEFINE top == IF dialog # "none" THEN DialogCompact
                     ELSE IF Rows = {} THEN Show1("empty") ELSE RowLines[selected]
              head == <<top>>
  <2>1. lines = head \o foot
    BY <1>3, Layouts DEF foot
  <2>2. /\ head \in Texts /\ Len(head) = 1
        /\ Shown(head, "detail") = {} /\ Shown(head, "cap") = {} /\ Calm(head)
        /\ \A item \in Shown(head, "row") : Tells(item, {})
        /\ dialog = "none" /\ Rows # {} => \E item \in Shown(head, "row") : item.row = selected
        /\ dialog # "none" => DialogBody(head)
    <3>1. CASE dialog # "none"
      <4>1. top = DialogCompact
        BY <3>1
      <4>2. <<DialogCompact>> \in Texts /\ Len(<<DialogCompact>>) = 1 /\ DialogBody(<<DialogCompact>>)
        BY DialogCompactSound
      <4>3. Shown(<<DialogCompact>>, "detail") = {}
        <5>1. DialogCompact \in SUBSET Things
              /\ \A item \in DialogCompact : item.what \in {"prompt", "warning", "keys"}
          <6>1. DialogCompact \in SUBSET Things
            BY PromptIsOne, SayingsAreThings DEF DialogCompact
          <6>2. \A item \in Show1("warning") \cup Show1("keys") : item.what \in {"warning", "keys"}
            BY DEF Show1, Item
          <6>3. \A item \in Prompt : item.what = "prompt"
            BY PromptIsOne
          <6>. QED
            BY <6>1, <6>2, <6>3 DEF DialogCompact
        <5>. QED
          BY <5>1, ShownOne
      <4>. HIDE DEF top
      <4>. QED
        BY <3>1, <4>1, <4>2, <4>3 DEF DialogBody
    <3>2. CASE dialog = "none" /\ Rows = {}
      <4>1. top = Show1("empty")
        BY <3>2
      <4>2. /\ <<Show1("empty")>> \in Texts /\ Len(<<Show1("empty")>>) = 1
            /\ \A what : what # "empty" => Shown(<<Show1("empty")>>, what) = {}
        BY LineOf
      <4>3. head = <<Show1("empty")>>
        BY <4>1
      <4>. HIDE DEF top, head
      <4>4. Shown(head, "row") = {} /\ Shown(head, "detail") = {} /\ Shown(head, "cap") = {}
            /\ Calm(head)
        BY <4>2, <4>3 DEF Calm
      <4>. QED
        BY <3>2, <4>2, <4>3, <4>4
    <3>3. CASE dialog = "none" /\ Rows # {}
      <4>1. top = RowLines[selected]
        BY <3>3
      <4>2. IsList(RowLines, {}) /\ selected \in Rows
        BY <3>3, RowLinesList DEF Sound, TypeOK, UiTypeOK
      <4>3. PICK d \in BOOLEAN : /\ RowLines[selected] = {Item("row", selected, d)}
                                 /\ Tells(Item("row", selected, d), {})
        BY <4>2 DEF IsList
      <4>. DEFINE x == {Item("row", selected, d)}
      <4>4. selected \in Nat
        BY ConsoleAssumption DEF Sound, TypeOK, UiTypeOK, Rows
      <4>5. /\ x \in SUBSET Things
            /\ \A item \in x : item.what = "row" /\ item.row = selected /\ Tells(item, {})
        BY <4>3, <4>4 DEF Item, Things
      <4>6. \E item \in x : item.what = "row" /\ item.row = selected
        BY DEF Item
      <4>. HIDE DEF x, top
      <4>7. <<x>> \in Texts /\ Len(<<x>>) = 1 /\ \A what : Shown(<<x>>, what) = {item \in x : item.what = what}
        BY <4>5, ItemsOne, ShownOne
      <4>8. head = <<x>>
        BY <4>1, <4>3 DEF x
      <4>. HIDE DEF head
      <4>9. /\ Shown(head, "detail") = {} /\ Shown(head, "cap") = {}
            /\ Shown(head, "lastKnown") = {} /\ Shown(head, "reconnect") = {}
        BY <4>5, <4>7, <4>8
      <4>11. Calm(head)
        BY <4>9 DEF Calm
      <4>12. \A item \in Shown(head, "row") : Tells(item, {})
        BY <4>5, <4>7, <4>8
      <4>10. \E item \in Shown(head, "row") : item.row = selected
        BY <4>6, <4>7, <4>8
      <4>. QED
        BY <3>3, <4>7, <4>8, <4>9, <4>10, <4>11, <4>12
    <3>. QED
      BY <3>1, <3>2, <3>3
  <2>. HIDE DEF head, top, lines
  <2>3. /\ lines \in Texts /\ Len(lines) = 2 /\ lines[Len(lines)] = foot[1]
    <3>1. /\ head \o foot \in Texts /\ Len(head \o foot) = Len(head) + Len(foot)
          /\ Len(foot) > 0 => (head \o foot)[Len(head \o foot)] = foot[Len(foot)]
      BY <1>1, <2>2, ItemsConcat
    <3>2. Len(head) = 1 /\ Len(foot) = 1
      BY <1>1, <2>2
    <3>. QED
      BY <2>1, <3>1, <3>2
  <2>4. \A what : what \notin {"quit", "connection"} => Shown(lines, what) = Shown(head, what)
    <3>1. \A what : Shown(head \o foot, what) = Shown(head, what) \cup Shown(foot, what)
      BY <1>1, <2>2, Joined
    <3>. QED
      BY <1>1, <2>1, <3>1
  <2>5. Len(lines) = Max2(1, height)
    <3>1. Max2(1, height) = 2
      BY <1>3 DEF Max2
    <3>. QED
      BY <2>3, <3>1
  <2>6. /\ Shown(lines, "detail") = {} /\ Shown(lines, "cap") = {}
        /\ Shown(lines, "row") = Shown(head, "row") /\ Calm(lines)
    BY <2>2, <2>4 DEF Calm
  <2>7. dialog # "none" => DialogBody(lines)
    BY <2>2, <2>3, <2>4 DEF DialogBody, Calm
  <2>8. Show1("quit") \subseteq lines[Len(lines)]
    BY <1>1, <2>3
  <2>. QED
    BY <2>2, <2>5, <2>6, <2>7, <2>8 DEF lines
<1>. QED
  BY <1>2, <1>3

-----------------------------------------------------------------------------
(* The session. *)

SessionTyped ==
  /\ persistent \in BOOLEAN /\ maxPods \in Caps
  /\ maxBoxes \in {0} \cup {c \in Caps : c > 0}
  /\ session \in {"starting", "open", "refused"}
ScreenInv ==
  /\ UiInv /\ SessionTyped /\ UnreachableIsDim
  /\ session = "open" => maxBoxes = maxPods
  /\ ~persistent => Rows = {}

LEMMA ScreenInvIsSound == ScreenInv => Sound
BY DEF ScreenInv, UiInv, SessionTyped, Sound, TypeOK

LEMMA ScreenInitial == Init => ScreenInv
<1>. SUFFICES ASSUME Init PROVE ScreenInv
  OBVIOUS
<1>1. UiInv
  BY UiInitial DEF Init
<1>2. UnreachableIsDim
  BY DEF Init, UiInit, UnreachableIsDim
<1>. QED
  BY <1>1, <1>2 DEF Init, ScreenInv, SessionTyped

\* Once a round has read nothing, everything that was known is dim.
LEMMA UnreachableDims ==
  ASSUME UiInv, UnreachableIsDim, [UiNext]_ui
  PROVE  UnreachableIsDim'
<1>1. CASE \E results \in [Rows -> Known \cup Faults] : Refreshed(results)
  <2>. PICK results \in [Rows -> Known \cup Faults] : Refreshed(results)
    BY <1>1
  <2>. SUFFICES ASSUME conn' = "unreachable", NEW i \in Rows', HasPhase(rows'[i])
                PROVE  Dim(rows'[i])
    BY DEF UnreachableIsDim, HasPhase, Dim
  <2>1. Failed(results) = Rows
    BY DEF Refreshed, Connection
  <2>2. i \in Rows /\ rows'[i] = ApplyResult(rows[i], results[i])
    BY DEF Refreshed, Rows
  <2>3. results[i] \in Faults
    BY <2>1, <2>2 DEF Failed
  <2>4. rows[i] \in RowStates
    BY <2>2 DEF UiInv, UiTypeOK, Rows
  <2>5. HasPhase(rows[i])
    <3>1. rows'[i].state \in {"forbidden", "unavailable", rows[i].state}
      BY <2>2, <2>3, ConsoleAssumption DEF ApplyResult, ConsoleAssumption
    <3>2. rows'[i].state \notin {"forbidden", "unavailable"}
      BY ConsoleAssumption DEF HasPhase, Known, Ending, ConsoleAssumption
    <3>. QED
      BY <3>1, <3>2 DEF HasPhase
  <2>6. rows'[i].stale = Faded(rows[i])
    <3>1. CASE results[i] = "forbidden"
      BY <2>2, <3>1 DEF ApplyResult
    <3>2. CASE results[i] = "failed"
      BY <2>2, <3>2 DEF ApplyResult
    <3>. QED
      BY <2>3, <3>1, <3>2, ConsoleAssumption
  <2>7. Faded(rows[i])
    BY <2>5 DEF Faded
  <2>. QED
    BY <2>6, <2>7 DEF Dim
<1>2. CASE UNCHANGED <<rows, conn>>
  BY <1>2 DEF UnreachableIsDim, HasPhase, Dim, Rows
<1>3. (\E results \in [Rows -> Known \cup Faults] : Refreshed(results)) \/ UNCHANGED <<rows, conn>>
  BY DEF UiNext, ui, Move, MoveUp, MoveDown, Focus, PressD, PressY, PressN, PressQ, Stop,
         Show, DeleteSettled
<1>. QED
  BY <1>1, <1>2, <1>3

LEMMA ListKeepsItsLength == ASSUME [UiNext]_ui PROVE Rows' = Rows
BY DEF UiNext, ui, Rows, Refreshed, Move, MoveUp, MoveDown, Focus, PressD, PressY, PressN, PressQ,
       Stop, Show, DeleteSettled

LEMMA ScreenStep == ScreenInv /\ [Next]_vars => ScreenInv'
<1>. SUFFICES ASSUME ScreenInv, [Next]_vars PROVE ScreenInv'
  OBVIOUS
<1>1. [UiNext]_ui
  BY DEF Next, vars, Start, NoTerminal, ui
<1>2. UiInv' /\ UnreachableIsDim' /\ Rows' = Rows
  BY <1>1, UiStep, UnreachableDims, ListKeepsItsLength DEF ScreenInv
<1>3. persistent' = persistent /\ maxPods' = maxPods
  BY DEF Next, vars, Start, NoTerminal
<1>4. CASE Start
  <2>1. CASE ParseMaxBoxes(Handed(maxPods))
    <3>1. session' = "open" /\ maxBoxes' = maxPods /\ maxPods \in Int /\ maxPods >= 0
      BY <1>4, <2>1, ScreenAssumption DEF Start, ParseMaxBoxes, Handed, ScreenInv, SessionTyped
    <3>. QED
      BY <1>2, <1>3, <3>1 DEF ScreenInv, SessionTyped
  <2>2. CASE ~ParseMaxBoxes(Handed(maxPods))
    <3>1. session' = "refused" /\ maxBoxes' = maxBoxes
      BY <1>4, <2>2 DEF Start
    <3>. QED
      BY <1>2, <1>3, <3>1 DEF ScreenInv, SessionTyped
  <2>. QED
    BY <2>1, <2>2
<1>5. CASE NoTerminal
  BY <1>2, <1>3, <1>5 DEF NoTerminal, ScreenInv, SessionTyped
<1>6. CASE UNCHANGED <<maxBoxes, session>>
  BY <1>2, <1>3, <1>6 DEF ScreenInv, SessionTyped
<1>. QED
  BY <1>4, <1>5, <1>6 DEF Next, vars

LEMMA AlwaysSound == Spec => []Sound
BY ScreenInitial, ScreenStep, ScreenInvIsSound, PTL DEF Spec

\* The types of session and UI.
THEOREM ScreenTyped == Spec => []TypeOK
<1>1. Sound => TypeOK
  BY DEF Sound
<1>. QED
  BY AlwaysSound, <1>1, PTL

\* The master detail screen of Console: LiveMeansCurrent and MessageTrueWhenLive hold
\* of every session, because a session steps as UiSpec allows.
THEOREM SessionsAreConsoles == Spec => UiSpec
<1>1. Init => UiInit
  BY DEF Init
<1>2. [Next]_vars => [UiNext]_ui
  BY DEF Next, vars, Start, NoTerminal, ui
<1>. QED
  BY <1>1, <1>2, PTL DEF Spec, UiSpec

\* Live is only drawn over rows that were all read in the latest round (model.go
\* applyRefresh).
THEOREM LiveIsCurrent == Spec => []LiveMeansCurrent
BY SessionsAreConsoles, LiveIsHonest, PTL

\* On a Live screen of a session the message line is true: it blames no connection,
\* and calls no existing box not created; and it never stands beside a dialog.
THEOREM MessageIsTrueWhenLive == Spec => []MessageTrueWhenLive
BY SessionsAreConsoles, MessagesAreTrueWhenLive, PTL

\* No screen is taller than the terminal, but for three rows with a message; it
\* ends with the footer, and a message stands above it (view.go renderLines).
THEOREM EveryScreenFits == Spec => []FitsTerminal
<1>1. ASSUME Sound PROVE FitsTerminal
  <2>. SUFFICES ASSUME NEW height \in Heights, NEW width \in Widths
                PROVE  LET lines == Lines(height, width) IN
                       /\ \/ Len(lines) <= Max2(1, height)
                          \/ height = 3 /\ message # NoMessage /\ Len(lines) = 4
                       /\ Show1("quit") \subseteq lines[Len(lines)]
                       /\ height >= 3 /\ message # NoMessage =>
                            lines[Len(lines) - 1] = Show1("message")
    BY DEF FitsTerminal, OnEveryScreen, Sizes
  <2>0. height \in Nat
    BY ScreenAssumption
  <2>1. CASE height <= 2
    <3>1. /\ Len(Lines(height, width)) = Max2(1, height)
          /\ Show1("quit") \subseteq Lines(height, width)[Len(Lines(height, width))]
      BY <1>1, <2>0, <2>1, ShortLines
    <3>2. Max2(1, height) \in Nat /\ ~(height >= 3)
      BY <2>0, <2>1 DEF Max2
    <3>. DEFINE size == Len(Lines(height, width))
    <3>3. size <= Max2(1, height)
      <4>1. size = Max2(1, height)
        BY <3>1
      <4>. HIDE DEF size
      <4>. QED
        BY <3>2, <4>1
    <3>. QED
      BY <3>1, <3>2, <3>3
  <2>2. CASE height >= 3
    <3>1. PICK body, identity :
            /\ GoodBody(body, Bright(height, width)) /\ Len(body) \in Nat
            /\ Lines(height, width) = (body \o MessageLine) \o Footer(width, identity)
            /\ \/ Len(body) + (IF message = NoMessage THEN 1 ELSE 2) <= height
               \/ height = 3 /\ message # NoMessage /\ Len(body) = 2
      BY <1>1, <2>0, <2>2, TallSound
    <3>. DEFINE lines == Lines(height, width)
    <3>2. body \in Texts /\ lines = (body \o MessageLine) \o Footer(width, identity)
      BY <3>1 DEF GoodBody
    <3>. HIDE DEF lines
    <3>3. /\ Len(lines) = Len(body) + (IF message = NoMessage THEN 1 ELSE 2)
          /\ Show1("quit") \subseteq lines[Len(lines)]
          /\ message # NoMessage => lines[Len(lines) - 1] = Show1("message")
      BY <3>2, Framed
    <3>4. Max2(1, height) = height
      BY <2>0, <2>2 DEF Max2
    <3>5. \/ Len(lines) <= height
          \/ height = 3 /\ message # NoMessage /\ Len(lines) = 4
      <4>. DEFINE k == IF message = NoMessage THEN 1 ELSE 2
                  size == Len(body)
                  whole == Len(lines)
      <4>1. /\ whole = size + k /\ size \in Nat /\ k \in Nat /\ (message # NoMessage => k = 2)
            /\ size + k <= height \/ (height = 3 /\ message # NoMessage /\ size = 2)
        BY <3>1, <3>3
      <4>. HIDE DEF k, size, whole
      <4>2. whole <= height \/ (height = 3 /\ message # NoMessage /\ whole = 4)
        BY <2>0, <4>1
      <4>. QED
        BY <4>2 DEF whole
    <3>. QED
      BY <3>3, <3>4, <3>5 DEF lines
  <2>. QED
    BY <2>0, <2>1, <2>2
<1>. QED
  BY AlwaysSound, <1>1, PTL

\* What every terminal shows, in one place for the theorems below.
LEMMA ScreenShows ==
  ASSUME Sound, NEW height \in Nat, NEW width
  PROVE  /\ \A item \in Shown(Lines(height, width), "row") : Tells(item, Bright(height, width))
         /\ conn = "live" => Calm(Lines(height, width))
         /\ conn = "unreachable" /\ InPanes(height, width) /\ HasHonestyLine(height, width) =>
              ~Calm(Lines(height, width))
         /\ dialog = "none" =>
              \A item \in Shown(Lines(height, width), "detail") : item.row = selected
         /\ height >= 2 /\ dialog = "none" /\ Rows # {} =>
              \E item \in Shown(Lines(height, width), "row") : item.row = selected
         /\ height >= 2 /\ dialog # "none" =>
              /\ Shown(Lines(height, width), "prompt") = Prompt
              /\ Shown(Lines(height, width), "warning") # {}
              /\ Shown(Lines(height, width), "keys") # {}
              /\ Shown(Lines(height, width), "row") = {}
         /\ height >= 6 /\ dialog # "none" =>
              /\ Shown(Lines(height, width), "sessions") # {}
              /\ Shown(Lines(height, width), "fresh") # {}
         /\ Shown(Lines(height, width), "cap") # {} => maxBoxes > 0 /\ Rows # {}
         /\ height > 2 /\ PanesFit(Room(height, 1), width) /\ dialog = "none" /\ maxBoxes > 0 =>
              Shown(Lines(height, width), "cap") # {}
<1>. DEFINE lines == Lines(height, width)
<1>1. CASE height <= 2
  <2>1. /\ Shown(lines, "detail") = {} /\ Shown(lines, "cap") = {}
        /\ (\A item \in Shown(lines, "row") : Tells(item, {})) /\ Calm(lines)
        /\ height = 2 /\ dialog = "none" /\ Rows # {} =>
             \E item \in Shown(lines, "row") : item.row = selected
        /\ height = 2 /\ dialog # "none" => DialogBody(lines)
    BY <1>1, ShortLines
  <2>2. (height >= 2 => height = 2) /\ ~(height >= 6) /\ ~(height > 2)
    BY <1>1
  <2>4. ~InPanes(height, width) /\ Bright(height, width) = {}
    BY <2>2 DEF InPanes, Bright
  <2>. HIDE DEF lines
  <2>3. dialog # "none" /\ height = 2 =>
          /\ Shown(lines, "prompt") = Prompt
          /\ Shown(lines, "warning") # {} /\ Shown(lines, "keys") # {}
          /\ Shown(lines, "row") = {}
    BY <2>1 DEF DialogBody
  <2>. QED
    BY <2>1, <2>2, <2>3, <2>4 DEF lines
<1>2. CASE height >= 3
  <2>1. PICK body, identity :
          /\ GoodBody(body, Bright(height, width)) /\ Len(body) \in Nat
          /\ lines = (body \o MessageLine) \o Footer(width, identity)
          /\ dialog # "none" /\ height >= 6 => FullDialogBody(body)
          /\ PanesFit(Room(height, 1), width) /\ dialog = "none" /\ maxBoxes > 0 =>
               Shown(body, "cap") # {}
          /\ conn = "unreachable" /\ InPanes(height, width) /\ HasHonestyLine(height, width) =>
               ~Calm(body)
    BY <1>2, TallSound
  <2>. HIDE DEF lines
  <2>2. body \in Texts
    BY <2>1 DEF GoodBody
  <2>3. \A what : what \notin {"quit", "connection", "message"} =>
                    Shown(lines, what) = Shown(body, what)
    <3>1. lines = (body \o MessageLine) \o Footer(width, identity)
      BY <2>1
    <3>2. ASSUME NEW what, what \notin {"quit", "connection", "message"}
          PROVE  Shown((body \o MessageLine) \o Footer(width, identity), what) = Shown(body, what)
      BY <2>2, <3>2, FramedShows
    <3>. QED
      BY <3>1, <3>2
  <2>4. /\ Shown(lines, "row") = Shown(body, "row") /\ Shown(lines, "detail") = Shown(body, "detail")
        /\ Shown(lines, "cap") = Shown(body, "cap") /\ Shown(lines, "prompt") = Shown(body, "prompt")
        /\ Shown(lines, "warning") = Shown(body, "warning")
        /\ Shown(lines, "keys") = Shown(body, "keys")
        /\ Shown(lines, "sessions") = Shown(body, "sessions")
        /\ Shown(lines, "fresh") = Shown(body, "fresh")
        /\ Shown(lines, "lastKnown") = Shown(body, "lastKnown")
        /\ Shown(lines, "reconnect") = Shown(body, "reconnect")
    BY <2>3
  <2>8. /\ conn = "live" => Calm(lines)
        /\ conn = "unreachable" /\ InPanes(height, width) /\ HasHonestyLine(height, width) =>
             ~Calm(lines)
    BY <2>1, <2>4 DEF GoodBody, Calm
  <2>5. /\ \A item \in Shown(lines, "row") : Tells(item, Bright(height, width))
        /\ dialog = "none" => \A item \in Shown(lines, "detail") : item.row = selected
        /\ dialog = "none" /\ Rows # {} => \E item \in Shown(lines, "row") : item.row = selected
        /\ Shown(lines, "cap") # {} => maxBoxes > 0 /\ Rows # {}
    BY <2>1, <2>4 DEF GoodBody
  <2>6. dialog # "none" =>
          /\ Shown(lines, "prompt") = Prompt
          /\ Shown(lines, "warning") # {} /\ Shown(lines, "keys") # {}
          /\ Shown(lines, "row") = {}
    BY <2>1, <2>4 DEF GoodBody, DialogBody
  <2>7. height >= 6 /\ dialog # "none" =>
          Shown(lines, "sessions") # {} /\ Shown(lines, "fresh") # {}
    BY <2>1, <2>4 DEF FullDialogBody
  <2>. QED
    BY <2>1, <2>4, <2>5, <2>6, <2>7, <2>8 DEF lines
<1>. QED
  BY <1>1, <1>2

\* The row on which d will act is on every screen with a list, whatever its size,
\* and the detail pane is that row's (view.go scrollRows).
THEOREM SelectionIsShown == Spec => []SelectionShown
<1>1. ASSUME Sound PROVE SelectionShown
  <2>. SUFFICES ASSUME dialog = "none", Rows # {}, NEW height \in Heights, NEW width \in Widths
                PROVE  LET lines == Lines(height, width) IN
                       /\ height >= 2 => \E item \in Shown(lines, "row") : item.row = selected
                       /\ \A item \in Shown(lines, "detail") : item.row = selected
    BY DEF SelectionShown, OnEveryScreen, Sizes
  <2>. QED
    BY <1>1, ScreenAssumption, ScreenShows
<1>. QED
  BY AlwaysSound, <1>1, PTL

\* Every layout of the confirmation names the selected box, the consequence for
\* the storage and the keys, and shows no list beside it (view.go dialogLines).
THEOREM ConfirmationIsComplete == Spec => []ConfirmationComplete
<1>1. ASSUME Sound PROVE ConfirmationComplete
  <2>. SUFFICES ASSUME dialog # "none", NEW height \in Heights, NEW width \in Widths, height >= 2
                PROVE  LET lines == Lines(height, width) IN
                       /\ Shown(lines, "prompt") = {Item("prompt", selected, FALSE)}
                       /\ Shown(lines, "warning") # {} /\ Shown(lines, "keys") # {}
                       /\ height >= 6 => Shown(lines, "sessions") # {} /\ Shown(lines, "fresh") # {}
                       /\ Shown(lines, "row") = {}
    BY DEF ConfirmationComplete, OnEveryScreen, Sizes
  <2>1. height \in Nat
    BY ScreenAssumption
  <2>. QED
    BY <1>1, <2>1, ScreenShows, PromptIsOne
<1>. QED
  BY AlwaysSound, <1>1, PTL

\* What is dim tells what the last round read: a row without a pod always is, a box
\* never on a Live screen.  When nothing was read, each box with a phase is, but for
\* the selected one in the panes, of which the detail pane says so where it has room
\* for its honesty line; on a Live screen it says that of none (view.go
\* masterRowLine, honestyLine, rowLine, model.go applyRefresh).
THEOREM DimTells == Spec => []DimTellsTheRound
<1>1. ASSUME Sound PROVE DimTellsTheRound
  <2>. SUFFICES ASSUME NEW height \in Heights, NEW width \in Widths
                PROVE  LET lines == Lines(height, width) IN
                       /\ \A item \in Shown(lines, "row") : Tells(item, Bright(height, width))
                       /\ conn = "live" => Calm(lines)
                       /\ conn = "unreachable" /\ InPanes(height, width)
                            /\ HasHonestyLine(height, width) => ~Calm(lines)
    BY Zenon DEF DimTellsTheRound, OnEveryScreen, Sizes, Tells, Calm, Bright
  <2>1. height \in Nat
    BY ScreenAssumption
  <2>. QED
    BY <1>1, <2>1, ScreenShows
<1>. QED
  BY AlwaysSound, <1>1, PTL

\* The cap on the screen is the one that the config server enforces, and there is
\* none where it enforces none (settings.go settingsConfig, boxes.go parseMaxBoxes).
THEOREM CapIsTheEnforcedOne == Spec => []CapAsEnforced
<1>1. ASSUME Sound PROVE CapAsEnforced
  <2>. SUFFICES ASSUME session = "open", NEW height \in Heights, NEW width \in Widths
                PROVE  LET lines == Lines(height, width) IN
                       /\ Shown(lines, "cap") # {} => CapEnforced /\ maxBoxes = maxPods
                       /\ CapEnforced /\ dialog = "none" /\ PanesFit(Room(height, 1), width)
                            /\ height > 2 => Shown(lines, "cap") # {}
    BY DEF CapAsEnforced, OnEveryScreen, Sizes
  <2>1. height \in Nat
    BY ScreenAssumption
  <2>2. maxBoxes = maxPods /\ (Rows # {} => persistent)
    BY <1>1 DEF Sound
  <2>3. /\ Shown(Lines(height, width), "cap") # {} => maxBoxes > 0 /\ Rows # {}
        /\ height > 2 /\ PanesFit(Room(height, 1), width) /\ dialog = "none" /\ maxBoxes > 0 =>
             Shown(Lines(height, width), "cap") # {}
    BY <1>1, <2>1, ScreenShows
  <2>. QED
    BY <2>2, <2>3 DEF CapEnforced
<1>. QED
  BY AlwaysSound, <1>1, PTL
=============================================================================
