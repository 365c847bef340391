----------------------------- MODULE FieldSelect ----------------------------
(***************************************************************************)
(* The select field of the forms and filters: a list in a popup over the   *)
(* page, moved through by keys, letters and the pointer, placed above or   *)
(* below its control.  The options and the value belong to the parent,     *)
(* which may replace them while the list is open.                          *)
(***************************************************************************)
EXTENDS Integers, Sequences, FiniteSets, FiniteSetsExt

CONSTANTS
  OptionLists,    \* the lists of options a parent may hand over
  Heights,        \* heights of the window
  Tops,           \* where the control may be, from the top of the window
  ControlHeight

ASSUME SelectAssumption ==
  /\ \A list \in OptionLists : Len(list) \in Nat /\ DOMAIN list = 1..Len(list)
  /\ \E list \in OptionLists : list # <<>>
  /\ Heights \subseteq Nat /\ Tops \subseteq Nat /\ ControlHeight \in Nat
  /\ \E h \in Heights, t \in Tops : t + ControlHeight <= h

VARIABLES
  options, value,   \* of the parent
  select,           \* open, the index that is highlighted, where the popup is
  window,           \* the window and the place of the control in it
  replaced          \* history: the options were replaced while the list was open
selectVars == <<options, value, select, window, replaced>>

GAP == 7
MAX_HEIGHT == 240
VIEWPORT_GAP == 12

Option == UNION {{list[i] : i \in DOMAIN list} : list \in OptionLists}
None == 0
Least(a, b) == IF a < b THEN a ELSE b
Most(a, b) == IF a > b THEN a ELSE b

EnabledIn(list) == {i \in DOMAIN list : ~list[i].disabled}
Enabled == EnabledIn(options)
FirstOf(S) == IF S = {} THEN None ELSE Min(S)
LastOf(S) == IF S = {} THEN None ELSE Max(S)
Selected == FirstOf({i \in DOMAIN options : options[i].value = value})

\* What the popup needs at most: the height of its options, but it scrolls beyond 240.
EstimatedHeight(n) == Least(MAX_HEIGHT, n * 44 + 12)

\* A mistake in the place of the next: the popup is always below its control.
PopupBelow(win, n) ==
  [above |-> FALSE, maxHeight |-> Least(MAX_HEIGHT, Most(80, win.height - win.top - ControlHeight)),
   top |-> win.top + ControlHeight + GAP]

PopupPosition(win, n) ==
  LET below == win.height - (win.top + ControlHeight) - VIEWPORT_GAP
      above == win.top - VIEWPORT_GAP
      placeAbove == below < Least(EstimatedHeight(n), 150) /\ above > below
      maxHeight == Most(80, Least(MAX_HEIGHT, IF placeAbove THEN above ELSE below))
  IN [above |-> placeAbove,
      maxHeight |-> maxHeight,
      top |-> IF placeAbove
                THEN Most(VIEWPORT_GAP, win.top - GAP - Least(EstimatedHeight(n), maxHeight))
                ELSE win.top + ControlHeight + GAP]
NoPosition == [above |-> FALSE, maxHeight |-> 0, top |-> 0]

Unopened == [open |-> FALSE, active |-> None, at |-> NoPosition]
SelectInit ==
  /\ options = CHOOSE list \in OptionLists : TRUE
  /\ value = CHOOSE v \in {o.value : o \in Option} : TRUE
  /\ window = CHOOSE win \in [height: Heights, top: Tops] : win.top + ControlHeight <= win.height
  /\ select = Unopened
  /\ replaced = FALSE

Stays == UNCHANGED <<options, value, window, replaced>>
Highlights(i) == select' = [select EXCEPT !.active = i]

\* A mistake in the place of the next: the selected option is highlighted though disabled.
ShowSelected == IF Selected # None THEN Selected ELSE FirstOf(Enabled)

ShowActive == IF Selected \in Enabled THEN Selected ELSE FirstOf(Enabled)
\* A click, Enter, an arrow.  active: what is highlighted at first.
Show(active) ==
  /\ ~select.open /\ Enabled # {}
  /\ select' = [open |-> TRUE, active |-> active, at |-> PopupPosition(window, Len(options))]
  /\ replaced' = FALSE
  /\ UNCHANGED <<options, value, window>>

\* Up and down wrap around and skip what is disabled.
NextEnabled(i, down) ==
  LET after == {j \in Enabled : IF down THEN j > i ELSE j < i}
      pool == IF i \notin Enabled \/ after = {} THEN Enabled ELSE after IN
  IF down THEN FirstOf(pool) ELSE LastOf(pool)
MoveKey(down) ==
  /\ select.open /\ Enabled # {} /\ Highlights(NextEnabled(select.active, down)) /\ Stays
HomeKey == select.open /\ Highlights(FirstOf(Enabled)) /\ Stays
EndKey == select.open /\ Highlights(LastOf(Enabled)) /\ Stays

\* A letter finds the next option that begins with it, after the highlighted one and then
\* from the start; it opens the list as well.
Matching(letter) == {i \in Enabled : options[i].letter = letter}
Found(letter) ==
  LET start == IF select.active \in Enabled THEN select.active ELSE None
      after == {i \in Matching(letter) : i > start} IN
  IF after = {} THEN FirstOf(Matching(letter)) ELSE FirstOf(after)
LetterKey(letter) ==
  /\ Matching(letter) # {}
  /\ \/ select.open /\ Highlights(Found(letter)) /\ Stays
     \/ Show(Found(letter))

Hover(i) == select.open /\ i \in Enabled /\ Highlights(i) /\ Stays

\* A click on an option, Enter on the highlighted one.
Choose(i) ==
  /\ select.open /\ i \in Enabled
  /\ value' = options[i].value
  /\ select' = [select EXCEPT !.open = FALSE]
  /\ UNCHANGED <<options, window, replaced>>
\* Escape, the control, a pointer elsewhere, the focus going on.
CloseList == select.open /\ select' = [select EXCEPT !.open = FALSE] /\ Stays

\* The parent renders other options (the list they come from was fetched anew), or another
\* value (the filters were reset): neither the highlight nor the place follows.
Replace(list) ==
  /\ list # options /\ options' = list
  /\ replaced' = (replaced \/ select.open)
  /\ UNCHANGED <<value, select, window>>
ResetValue(v) == value' = v /\ UNCHANGED <<options, select, window, replaced>>

\* resize, scroll of anything: an open list is placed anew.
Scroll(win) ==
  /\ win.top + ControlHeight <= win.height
  /\ window' = win
  /\ select' = IF select.open THEN [select EXCEPT !.at = PopupPosition(win, Len(options))]
               ELSE select
  /\ UNCHANGED <<options, value, replaced>>

SelectNext ==
  \/ Show(ShowActive) \/ HomeKey \/ EndKey \/ CloseList
  \/ \E down \in BOOLEAN : MoveKey(down)
  \/ \E letter \in {o.letter : o \in Option} : LetterKey(letter)
  \/ \E i \in DOMAIN options : Hover(i)
  \/ \E i \in DOMAIN options : Choose(i)
  \/ \E list \in OptionLists : Replace(list)
  \/ \E v \in {o.value : o \in Option} : ResetValue(v)
  \/ \E win \in [height: Heights, top: Tops] : Scroll(win)

SelectSpec == SelectInit /\ [][SelectNext]_selectVars

-----------------------------------------------------------------------------
(* Properties. *)

SelectTypeOK ==
  /\ options \in OptionLists /\ value \in {o.value : o \in Option}
  /\ window \in [height: Heights, top: Tops]
  /\ select \in [open: BOOLEAN, active: Nat, at: [above: BOOLEAN, maxHeight: Int, top: Int]]
  /\ replaced \in BOOLEAN

\* Enter on an open list always chooses something: the highlight is on an option that is
\* there and not disabled, unless the options were replaced under it.
HighlightUsable == select.open /\ ~replaced => select.active \in Enabled

\* The open list neither leaves the window nor covers its control, wherever the control
\* is - if above or below it there is room for the list, or for the 80 pixels of it that are
\* shown at least.  Whether the side with room is the one it is put on is a part of this.
PopupInView ==
  LET at == select.at
      needed == EstimatedHeight(Len(options))
      used == Least(at.maxHeight, needed)
      above == window.top - VIEWPORT_GAP
      below == window.height - (window.top + ControlHeight) - VIEWPORT_GAP IN
  select.open /\ ~replaced /\ Most(above, below) >= Least(80, needed) =>
    /\ at.top >= 0 /\ at.top + used <= window.height
    /\ IF at.above THEN at.top + used <= window.top ELSE at.top >= window.top + ControlHeight
=============================================================================
