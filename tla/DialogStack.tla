----------------------------- MODULE DialogStack ----------------------------
(***************************************************************************)
(* The dialogs of the frontend (Modal): an open dialog keeps the page from *)
(* scrolling and the focus inside, and gives both back as it found them.   *)
(* Each dialog has an effect of its own; none knows of the others.         *)
(***************************************************************************)
EXTENDS Integers, Sequences

CONSTANT Dialog      \* the dialogs of a page, each with a button that opens it

VARIABLES
  opened,     \* the open dialogs in the order of their opening, with what each has saved
  overflow,   \* document.body.style.overflow
  focus,      \* document.activeElement
  lost,       \* history: since a dialog is open the focus was on nothing once
  orderly     \* history: the dialog opened first was never closed under another one
stackVars == <<opened, overflow, focus, lost, orderly>>

Body == [at |-> "body"]
Opener(d) == [at |-> "page", of |-> d]
Control == {"close", "last"}
In(d, c) == [at |-> c, of |-> d]
Outside == {Body} \cup {Opener(d) : d \in Dialog}
Focus == Outside \cup {In(d, c) : d \in Dialog, c \in Control}
Overflow == {"", "hidden"}
Entry == [dialog: Dialog, overflow: Overflow, focus: Focus]

StackInit ==
  /\ opened = <<>> /\ overflow = "" /\ focus = Body
  /\ lost = FALSE /\ orderly = TRUE

IsOpen(d) == \E i \in 1..Len(opened) : opened[i].dialog = d
Moves(f) == focus' = f /\ UNCHANGED <<opened, overflow, lost, orderly>>

\* A button of the page: the backdrop keeps the mouse from it, a focus inside the Tab key.
FocusPage(d) == (opened = <<>> \/ focus \in Outside) /\ Moves(Opener(d))

\* The effect of a dialog that opens: what there was is saved, the close button gets the focus.
OpenDialog(d) ==
  /\ focus = Opener(d) /\ ~IsOpen(d)
  /\ opened' = Append(opened, [dialog |-> d, overflow |-> overflow, focus |-> focus])
  /\ overflow' = "hidden"
  /\ focus' = In(d, "close")
  /\ UNCHANGED <<lost, orderly>>

\* The Tab key walks through the controls; from the last and the first one it would go on
\* to the page without the trap.
WalkTab == \E d \in Dialog, c, to \in Control : focus = In(d, c) /\ Moves(In(d, to))
TrapTab(back) ==
  \E d \in Dialog : \/ back /\ focus = In(d, "close") /\ Moves(In(d, "last"))
                    \/ ~back /\ focus = In(d, "last") /\ Moves(In(d, "close"))
\* Nothing is focused any more: a text of the dialog was clicked, or the button with the
\* focus is disabled while its request runs.
LoseFocus ==
  /\ opened # <<>> /\ focus \notin Outside
  /\ focus' = Body /\ lost' = TRUE
  /\ UNCHANGED <<opened, overflow, orderly>>

\* A mistake in the place of the next: the page is let scroll, whatever there was before.
GivesBackEmpty(i) == overflow' = "" /\ focus' = opened[i].focus

\* The cleanup of the effect: the dialog gives back what it has saved.
GivesBack(i) == overflow' = opened[i].overflow /\ focus' = opened[i].focus

\* The cross, the backdrop, or an answer that has arrived close one dialog.
CloseOne(i) ==
  /\ i \in 1..Len(opened)
  /\ opened' = SubSeq(opened, 1, i - 1) \o SubSeq(opened, i + 1, Len(opened))
  /\ GivesBack(i)
  /\ orderly' = (orderly /\ (i = 1 => Len(opened) = 1))
  /\ lost' = (lost /\ Len(opened) > 1)

\* Every open dialog listens for Escape; the cleanup that comes last decides.
PressEscape(i) ==
  /\ i \in 1..Len(opened)
  /\ opened' = <<>>
  /\ GivesBack(i)
  /\ orderly' = (orderly /\ i = 1)
  /\ lost' = FALSE

StackNext ==
  \/ \E d \in Dialog : FocusPage(d) \/ OpenDialog(d)
  \/ \E back \in BOOLEAN : TrapTab(back)
  \/ WalkTab \/ LoseFocus
  \/ \E i \in 1..Len(opened) : CloseOne(i) \/ PressEscape(i)

StackSpec == StackInit /\ [][StackNext]_stackVars

-----------------------------------------------------------------------------
(* Properties. *)

StackTypeOK ==
  /\ opened \in Seq(Entry) /\ overflow \in Overflow /\ focus \in Focus
  /\ lost \in BOOLEAN /\ orderly \in BOOLEAN

\* The Tab key never leaves an open dialog, so that no second one is opened over it: only
\* a focus that was lost to nothing can reach the page behind.
FocusTrapped ==
  opened # <<>> /\ ~lost =>
    Len(opened) = 1 /\ \E c \in Control : focus = In(opened[1].dialog, c)

\* The page scrolls exactly while no dialog is open, however many were open at once and in
\* whatever order they are closed - if the one opened first is closed last.
PageScrollsAgain == orderly => (overflow = "hidden") = (opened # <<>>)
=============================================================================
