---------------------------- MODULE CopyFeedback ----------------------------
(***************************************************************************)
(* The mark "copied" of the copy buttons: the clipboard is written         *)
(* asynchronously, the mark is taken back by a timer, and a button may be  *)
(* pressed again, or leave the screen, at any time, also while a copy of   *)
(* it is under way.  CopyButton and CopyUserIdButton clear the timer of    *)
(* the copy before, and the timer that runs when they leave; CopyValue of  *)
(* the payment details does neither.                                       *)
(***************************************************************************)
EXTENDS Integers, FiniteSets

CONSTANTS
  Widget,        \* the buttons: one put on the screen again is another one
  Restarts,      \* those that clear their timers
  Duration,      \* ticks of time the mark stays
  MaxCopies      \* bound on the copies

ASSUME CopyAssumption == Restarts \subseteq Widget /\ Duration \in Nat \ {0} /\ MaxCopies \in Nat

VARIABLES
  onScreen,   \* the buttons that have not left
  marked,     \* those that show the mark
  timers,     \* what is left of the timers each has started
  writing,    \* the writes of the clipboard that have not ended
  copies,     \* what the bound counts
  since       \* history: ticks since the last successful copy, Duration at most;
              \* a button that leaves has nothing to remember
copyVars == <<onScreen, marked, timers, writing, copies, since>>

CopyInit ==
  /\ onScreen = Widget /\ marked = {} /\ copies = 0
  /\ timers = [w \in Widget |-> {}] /\ writing = [w \in Widget |-> 0]
  /\ since = [w \in Widget |-> Duration]

PressCopy(w) ==
  /\ w \in onScreen /\ copies < MaxCopies
  /\ copies' = copies + 1 /\ writing' = [writing EXCEPT ![w] = @ + 1]
  /\ UNCHANGED <<onScreen, marked, timers, since>>

\* A mistake in the place of the next: no button clears the timer of the copy before.
StartsOneMore(w) == timers' = [timers EXCEPT ![w] = @ \cup {Duration}]

StartsTimer(w) ==
  timers' = [timers EXCEPT ![w] = (IF w \in Restarts THEN {} ELSE @) \cup {Duration}]
\* What a button that is gone sets is not shown; its timer starts all the same.
Copied(w) ==
  /\ writing[w] > 0 /\ writing' = [writing EXCEPT ![w] = @ - 1]
  /\ marked' = marked \cup ({w} \cap onScreen)
  /\ StartsTimer(w) /\ since' = [since EXCEPT ![w] = 0]
  /\ UNCHANGED <<onScreen, copies>>
\* The clipboard is not available, or refuses.
CopyFails(w) ==
  /\ writing[w] > 0 /\ writing' = [writing EXCEPT ![w] = @ - 1]
  /\ UNCHANGED <<onScreen, marked, timers, copies, since>>

\* Time passes; a timer that has run down takes the mark of its button back.
Tick ==
  /\ \E w \in Widget : timers[w] # {}
  /\ timers' = [w \in Widget |-> {t - 1 : t \in timers[w] \ {1}}]
  /\ marked' = {w \in marked : 1 \notin timers[w]}
  /\ since' = [w \in Widget |-> IF since[w] < Duration THEN since[w] + 1 ELSE since[w]]
  /\ UNCHANGED <<onScreen, writing, copies>>

\* The clean-up of a button that leaves does not know of the writes under way.
Unmount(w) ==
  /\ w \in onScreen /\ onScreen' = onScreen \ {w} /\ marked' = marked \ {w}
  /\ timers' = [timers EXCEPT ![w] = IF w \in Restarts THEN {} ELSE @]
  /\ since' = [since EXCEPT ![w] = Duration]
  /\ UNCHANGED <<writing, copies>>

CopyNext ==
  \/ Tick
  \/ \E w \in Widget : PressCopy(w) \/ Copied(w) \/ CopyFails(w) \/ Unmount(w)
CopySpec == CopyInit /\ [][CopyNext]_copyVars

-----------------------------------------------------------------------------
(* Properties. *)

CopyTypeOK ==
  /\ onScreen \subseteq Widget /\ marked \subseteq onScreen
  /\ timers \in [Widget -> SUBSET (1..Duration)] /\ writing \in [Widget -> Nat]
  /\ copies \in 0..MaxCopies /\ since \in [Widget -> 0..Duration]

\* Where the timers are cleared, the mark stays its full time after the last copy that has
\* succeeded, and not longer, although copies overlap; one timer runs at most, and after
\* the button has left only for a copy that ended later, with no mark to take back.
CopiedLasts ==
  \A w \in Restarts :
    /\ w \in marked <=> w \in onScreen /\ since[w] < Duration
    /\ timers[w] = IF since[w] < Duration THEN {Duration - since[w]} ELSE {}
=============================================================================
