----------------------------- MODULE PageLayout -----------------------------
(***************************************************************************)
(* The window of the page: columns maximised (plugins/columnMaximize.js),   *)
(* popped out into floating panels (columnPopout.js) and resized            *)
(* (resizableColumns.js), the two side bars that push them                  *)
(* (frameSidebar.js, faultSidebar.js), the column picker of the channel     *)
(* table (channelColumnPicker.js), and what localStorage keeps of all this. *)
(* The columns are the DOM subtrees the plugins move about without copying; *)
(* an action is one event, with every listener it reaches.  The stop of a   *)
(* run on Escape is in PublisherPanel.                                      *)
(*                                                                          *)
(* There are three columns and two tracks: frameSidebar.js switches to the  *)
(* layout of two while the page loads, whatever mode was saved, and the     *)
(* picker that would switch back is hidden for good (style.css).  The       *)
(* middle column is then a host in the right one (layoutMode.js).           *)
(***************************************************************************)
EXTENDS Integers, SequencesExt

CONSTANTS
  Keys,       \* columns of the channel table
  Default,    \* those shown on a fresh install
  OldKeys,    \* keys an earlier version may have saved
  Room,       \* width of the columns by what pushes them
  MinWidth,        \* MIN_COLUMN_WIDTH
  Moves,      \* distances of a resize
  MaxEvents   \* bound on the events

ASSUME KeysAssumption == Default \subseteq Keys /\ Default # {}
ASSUME RoomAssumption ==              \* a pixel for each track at least
  /\ Room \in [{"none", "frame", "fault"} -> Nat \ {0, 1}]
  /\ MinWidth \in Nat /\ Moves \subseteq Int
ASSUME EventsAssumption == MaxEvents \in Nat

VARIABLES
  page,       \* the document and the state of the plugins
  prefs,      \* localStorage
  grip,       \* the widths at mousedown while the handle is held, or <<>>
  events

vars == <<page, prefs, grip, events>>

Columns == {"left", "middle", "right"}
Part(kind, c) == [kind |-> kind, of |-> c, kids |-> <<>>]
Bar(c) == Part("bar", c)
ToolBars == {Bar(c) : c \in Columns}

\* The nodes of a subtree that are in T, in their order, and the others.
Kept(s, T) ==
  LET upto[n \in 0..Len(s)] ==
        IF n = 0 THEN <<>>
        ELSE IF s[n] \in T THEN Append(upto[n - 1], s[n]) ELSE upto[n - 1]
  IN  upto[Len(s)]
Dropped(s, T) == Kept(s, ToSet(s) \ T)

-----------------------------------------------------------------------------
(***************************************************************************)
(* Widths.                                                                  *)
(***************************************************************************)
Equal == <<1, 1>>
Total(w) == w[1] + w[2]
HasMaximized(p) == p.maxed # "none"
ColumnShown(p, c) == c # "middle" /\ (HasMaximized(p) => c = p.maxed)

\* restoreSavedWidths(): saved ratios that are all positive, or equal ones.
Restorable(w) == w # <<>> /\ w[1] > 0 /\ w[2] > 0
Ratios(f) == IF Restorable(f.widths) THEN f.widths ELSE Equal
Refreshed(p, f) == [p EXCEPT !.grid = [px |-> FALSE, w |-> Ratios(f)]]

Rendered(p) ==
  IF p.grid.px THEN p.grid.w
  ELSE <<(p.grid.w[1] * Room[p.push]) \div Total(p.grid.w),
         (p.grid.w[2] * Room[p.push]) \div Total(p.grid.w)>>

\* The two columns beside the handle moved by dx, neither under MinWidth.
\* Mutant of Split: the second column gives up more than it has.
Split_OneSided(a, b, dx) ==
  IF a + dx < MinWidth THEN <<MinWidth, a + b - MinWidth>> ELSE <<a + dx, b - dx>>
Split(a, b, dx) ==
  LET first == IF a + dx < MinWidth THEN MinWidth ELSE a + dx
      second == a + b - first
  IN  IF second < MinWidth THEN <<a + b - MinWidth, MinWidth>> ELSE <<first, second>>

-----------------------------------------------------------------------------
(***************************************************************************)
(* Columns.                                                                 *)
(***************************************************************************)
\* _moveFrameToRight(), on a page just drawn: what is in the middle goes into a
\* host at the top of the right column.
MoveFrameToRight(cols) ==
  [cols EXCEPT
     !["right"] = <<[Part("host", "middle") EXCEPT !.kids = cols["middle"]]>> \o @,
     !["middle"] = <<>>]

\* The button a query in the column finds first, which is the one marked.
HasBar(n, c) == n = Bar(c) \/ Bar(c) \in ToSet(n.kids)
FirstBar(p, c) ==
  {b \in Columns : \E i \in DOMAIN p.cols[c] :
     /\ HasBar(p.cols[c][i], b)
     /\ \A j \in 1..(i - 1), d \in Columns : ~HasBar(p.cols[c][j], d)}

ClearMaximized(p) ==
  [p EXCEPT !.active = @ \ UNION {FirstBar(p, c) : c \in Columns}]
Restored(p) == [ClearMaximized(p) EXCEPT !.maxed = "none"]

Maximize(p, c) ==
  LET q == ClearMaximized(p)
  IN  IF c = "middle" THEN p
      ELSE [q EXCEPT !.maxed = c, !.active = @ \cup FirstBar(q, c)]

\* Mutant of PopOut: a maximised column stays maximised.
PopOut_Maximized(p, c) ==
  IF c \in p.popped \/ c = "middle" THEN p
  ELSE [p EXCEPT !.panel[c] = Dropped(p.cols[c], ToolBars),
                 !.cols[c] = Append(Kept(p.cols[c], ToolBars), Part("place", c)),
                 !.popped = @ \cup {c}]
\* A column's own children but the tool bar go into a panel.
PopOut(p, c) ==
  LET q == IF HasMaximized(p) THEN Restored(p) ELSE p
  IN  IF c \in p.popped \/ c = "middle" THEN p
      ELSE [q EXCEPT !.panel[c] = Dropped(q.cols[c], ToolBars),
                     !.cols[c] = Append(Kept(q.cols[c], ToolBars), Part("place", c)),
                     !.popped = @ \cup {c}]

\* The placeholder goes, the children come back below the tool bar.
SnapBack(p, c) ==
  [p EXCEPT !.cols[c] = Dropped(@, {Part("place", c)}) \o p.panel[c],
            !.panel[c] = <<>>, !.popped = @ \ {c}]

-----------------------------------------------------------------------------
(***************************************************************************)
(* Side bars: a pair <<page, prefs>> through _setVisible().                 *)
(***************************************************************************)
FrameSynced(pf) ==
  <<Refreshed([pf[1] EXCEPT !.push = IF pf[1].frame THEN "frame" ELSE "none"], pf[2]), pf[2]>>
FaultSynced(pf) ==
  <<Refreshed([pf[1] EXCEPT !.push = CASE pf[1].fault -> "fault"
                                       [] ~pf[1].fault /\ ~pf[1].frame -> "none"
                                       [] OTHER -> @], pf[2]), pf[2]>>

CloseFrame(pf) ==
  FrameSynced(<<[pf[1] EXCEPT !.frame = FALSE], [pf[2] EXCEPT !.frame = "hidden"]>>)
CloseFault(pf) ==
  FaultSynced(<<[pf[1] EXCEPT !.fault = FALSE], [pf[2] EXCEPT !.fault = "hidden"]>>)

\* What showing one does before it is remembered.
FrameShown(pf) ==
  LET q == IF pf[1].fault THEN CloseFault(pf) ELSE pf
  IN  FrameSynced(<<[q[1] EXCEPT !.frame = TRUE], q[2]>>)
FaultShown(pf) ==
  LET q == IF pf[1].frame THEN CloseFrame(pf) ELSE pf
  IN  FaultSynced(<<[q[1] EXCEPT !.fault = TRUE], q[2]>>)

OpenFrame(pf) == LET q == FrameShown(pf) IN <<q[1], [q[2] EXCEPT !.frame = "shown"]>>
OpenFault(pf) == LET q == FaultShown(pf) IN <<q[1], [q[2] EXCEPT !.fault = "shown"]>>

-----------------------------------------------------------------------------
(***************************************************************************)
(* The column picker of the channel table.                                  *)
(***************************************************************************)
VisibleKeys(f) == IF f.shown \cap Keys = {} THEN Default ELSE f.shown \cap Keys
NoMenu == [open |-> FALSE, checked |-> {}]

\* Mutant of SetVisibleKeys: the table is not rendered again.
SetVisibleKeys_Quiet(pf, keys) == <<pf[1], [pf[2] EXCEPT !.shown = keys]>>
SetVisibleKeys(pf, keys) ==
  <<[pf[1] EXCEPT !.table = keys], [pf[2] EXCEPT !.shown = keys]>>

-----------------------------------------------------------------------------
(***************************************************************************)
(* Loading the page, in the order of initApp().  initLayoutMode() applies   *)
(* the saved mode, of three columns at first; initFrameSidebar() sets two.  *)
(***************************************************************************)
Fresh(f) ==
  [cols |-> [c \in Columns |-> IF c = "middle" THEN <<Bar(c)>> ELSE <<Bar(c), Part("body", c)>>],
   panel |-> [c \in Columns |-> <<>>], popped |-> {}, maxed |-> "none", active |-> {},
   frame |-> FALSE, fault |-> FALSE, push |-> "none",
   grid |-> [px |-> FALSE, w |-> Equal], menu |-> NoMenu, table |-> VisibleKeys(f)]

Loaded(f) ==
  LET two == <<Refreshed([Fresh(f) EXCEPT !.cols = MoveFrameToRight(@)], f), f>>
      framed == IF f.frame # "hidden" THEN FrameShown(two) ELSE FrameSynced(two)
  IN  IF f.fault = "shown" THEN FaultShown(framed) ELSE FaultSynced(framed)

Installed == [frame |-> "unset", fault |-> "unset", widths |-> <<>>, shown |-> {}]

Init ==
  /\ \E keys \in SUBSET OldKeys :
       LET pf == Loaded([Installed EXCEPT !.shown = keys])
       IN  page = pf[1] /\ prefs = pf[2]
  /\ grip = <<>>
  /\ events = 0

-----------------------------------------------------------------------------
Event == events < MaxEvents /\ events' = events + 1
Become(pf) == page' = pf[1] /\ prefs' = pf[2]

\* A click anywhere but in the menu closes it first.
Outside(p) == [p EXCEPT !.menu = NoMenu]
Click(p) ==
  /\ Event /\ grip = <<>>
  /\ page' = Outside(p)
  /\ UNCHANGED <<prefs, grip>>
ClickBoth(pf) ==
  /\ Event /\ grip = <<>>
  /\ Become(<<Outside(pf[1]), pf[2]>>)
  /\ UNCHANGED grip

\* The tool bar of a column, wherever it is now, can be clicked.
BarShown(c) ==
  LET In(s) == \E n \in ToSet(s) : HasBar(n, c)
  IN  \/ \E d \in Columns : In(page.panel[d])
      \/ \E d \in Columns :
           /\ In(page.cols[d])
           /\ ColumnShown(page, d)
           /\ HasMaximized(page) => c \in page.active
           /\ Bar(c) \in ToSet(page.cols[d]) => d \notin page.popped

ClickMaximize(c) ==
  BarShown(c) /\ Click(IF page.maxed = c THEN Restored(page) ELSE Maximize(page, c))
ClickPopOut(c) == BarShown(c) /\ Click(PopOut(page, c))
ClickSnapBack(c) == c \in page.popped /\ Click(SnapBack(page, c))
ToggleFrame ==
  ClickBoth(IF page.frame THEN CloseFrame(<<page, prefs>>) ELSE OpenFrame(<<page, prefs>>))
ToggleFault ==
  ClickBoth(IF page.fault THEN CloseFault(<<page, prefs>>) ELSE OpenFault(<<page, prefs>>))

\* Each listener of the key in turn; none of the layout's while typing.
Escape(typing) ==
  LET p == Outside(page)
      q == <<IF HasMaximized(p) THEN Restored(p) ELSE p, prefs>>
      r == IF q[1].frame THEN CloseFrame(q) ELSE q
  IN  /\ Event
      /\ Become(IF typing THEN <<p, prefs>> ELSE IF r[1].fault THEN CloseFault(r) ELSE r)
      /\ UNCHANGED grip

\* The handle between the two tracks; the right one is hidden.
HandleShown == ~HasMaximized(page)

GripDown ==
  /\ Event /\ grip = <<>> /\ HandleShown
  /\ grip' = Rendered(page)
  /\ UNCHANGED <<page, prefs>>

\* The browser ignores a style with a negative width.
GripMove(dx) ==
  /\ grip # <<>>
  /\ LET w == Split(grip[1], grip[2], dx)
     IN  page' = IF w[1] < 0 \/ w[2] < 0 THEN page
                 ELSE [page EXCEPT !.grid = [px |-> TRUE, w |-> w]]
  /\ UNCHANGED <<prefs, grip, events>>

\* The ratio of the widths is saved; here the widths stand for it.
GripUp ==
  /\ grip # <<>>
  /\ grip' = <<>>
  /\ page' = Outside(page)
  /\ prefs' = [prefs EXCEPT !.widths = page.grid.w]
  /\ UNCHANGED events

ResetWidths ==
  /\ HandleShown
  /\ ClickBoth(<<[page EXCEPT !.grid = [px |-> FALSE, w |-> Equal]],
                 [prefs EXCEPT !.widths = <<>>]>>)

ShowMenu ==
  /\ Event /\ grip = <<>>
  /\ page' = [page EXCEPT !.menu = [open |-> TRUE, checked |-> VisibleKeys(prefs)]]
  /\ UNCHANGED <<prefs, grip>>

\* The last column cannot be unchecked.
Check(key) ==
  LET was == page.menu.checked
      now == IF key \in was THEN was \ {key} ELSE was \cup {key}
  IN  /\ Event /\ grip = <<>> /\ page.menu.open
      /\ now # {}
      /\ Become(SetVisibleKeys(<<[page EXCEPT !.menu.checked = now], prefs>>, now))
      /\ UNCHANGED grip

MenuAction(keys) ==
  /\ page.menu.open
  /\ ClickBoth(SetVisibleKeys(<<page, prefs>>, keys))

\* The window opened again, after the application's own reset or not.
Reload(reset) ==
  /\ Event
  /\ Become(Loaded(IF reset THEN [prefs EXCEPT !.shown = {}] ELSE prefs))
  /\ grip' = <<>>

Done == events = MaxEvents /\ grip = <<>> /\ UNCHANGED vars

Next ==
  \/ \E c \in Columns : ClickMaximize(c)
  \/ \E c \in Columns : ClickPopOut(c)
  \/ \E c \in Columns : ClickSnapBack(c)
  \/ ToggleFrame
  \/ ToggleFault
  \/ \E typing \in BOOLEAN : Escape(typing)
  \/ GripDown
  \/ \E dx \in Moves : GripMove(dx)
  \/ GripUp
  \/ ResetWidths
  \/ ShowMenu
  \/ \E key \in Keys : Check(key)
  \/ \E keys \in {Keys, Default} : MenuAction(keys)
  \/ \E reset \in BOOLEAN : Reload(reset)
  \/ Done

Spec == Init /\ [][Next]_vars

-----------------------------------------------------------------------------
\* How often a part is in the document: on top of a subtree, or in the host there.
Sum(w) ==
  LET upto[n \in 0..Len(w)] == IF n = 0 THEN 0 ELSE upto[n - 1] + w[n]
  IN  upto[Len(w)]
Own(n, part) == IF Part(n.kind, n.of) = part THEN 1 ELSE 0
Tops(s, part) == Sum([i \in DOMAIN s |-> Own(s[i], part)])
Weight(n, part) == Own(n, part) + Tops(n.kids, part)
Within(s, part) == Sum([i \in DOMAIN s |-> Weight(s[i], part)])
Placed(at, part) ==
  Within(at["left"], part) + Within(at["middle"], part) + Within(at["right"], part)
Times(part) == Placed(page.cols, part) + Placed(page.panel, part)

Width == Nat \X Nat
\* The type of every variable.
TypeOK ==
  /\ page.popped \subseteq Columns /\ page.active \subseteq Columns
  /\ page.maxed \in Columns \cup {"none"} /\ page.push \in DOMAIN Room
  /\ page.grid.w \in Width /\ prefs.widths \in Width \cup {<<>>}
  /\ grip \in Width \cup {<<>>}
  /\ page.table \subseteq Keys /\ page.menu.checked \subseteq Keys
  /\ {prefs.frame, prefs.fault} \subseteq {"unset", "shown", "hidden"}
  /\ events \in 0..MaxEvents

\* The panels survive whatever order pop-outs, snaps and maximising come in.
\* Nodes are moved, never copied or lost: every tool bar and every column body
\* is in the document once.  A placeholder stands for each popped-out column and
\* for no other.  What is maximised is a column that shows and holds its
\* children: the window is never blank, nor filled by a placeholder
\* ("avoid mixed state", columnPopout.js).
NothingLost ==
  /\ \A c \in Columns : Times(Bar(c)) = 1
  /\ \A c \in Columns \ {"middle"} : Times(Part("body", c)) = 1
PlaceholderIsPopped ==
  \A c \in Columns : Times(Part("place", c)) = IF c \in page.popped THEN 1 ELSE 0
MaximizedShows ==
  HasMaximized(page) => page.maxed \in {"left", "right"} \ page.popped
PanelsSurvive == TypeOK /\ NothingLost /\ PlaceholderIsPopped /\ MaximizedShows

\* What the user chose is what a reload shows.  Only one side bar is open, the
\* columns make room for that one, and the window opened again at any moment has
\* the same side bar and, unless the handle is held or a column has no width,
\* columns of the same ratio.  The table has at least one column, those that are
\* remembered, and the open menu checks the same.
OneSidebar ==
  /\ ~(page.frame /\ page.fault)
  /\ page.push = IF page.frame THEN "frame" ELSE IF page.fault THEN "fault" ELSE "none"
ReloadShowsSame ==
  LET again == Loaded(prefs)[1]
  IN  /\ again.frame = page.frame /\ again.fault = page.fault
      /\ (grip = <<>> /\ Restorable(page.grid.w)) => again.grid.w = page.grid.w
TableIsRemembered ==
  /\ page.table # {}
  /\ page.table = VisibleKeys(prefs)
  /\ page.menu.open => page.menu.checked = page.table
ChoicesRemembered == OneSidebar /\ ReloadShowsSame /\ TableIsRemembered

\* A move of the handle leaves neither column under the minimum if the two had
\* room for it, takes from one what it gives to the other, and never leaves a
\* column with a negative width.
GripFits ==
  [][(\E dx \in Moves : GripMove(dx)) =>
       LET w == page'.grid.w
       IN  /\ w[1] >= 0 /\ w[2] >= 0
           /\ Total(grip) >= 2 * MinWidth =>
                /\ Total(w) = Total(grip)
                /\ w[1] >= MinWidth /\ w[2] >= MinWidth]_vars
=============================================================================
