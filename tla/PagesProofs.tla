---------------------------- MODULE PagesProofs -----------------------------
(***************************************************************************)
(* Theorems of the pages and widgets, each for any values of its           *)
(* constants: first of every part on its own, then of the parts side by    *)
(* side.                                                                   *)
(***************************************************************************)
EXTENDS Pages, TariffsProofs, SequenceTheorems, FiniteSetTheorems, FunctionTheorems

-----------------------------------------------------------------------------
(* The stack of dialogs *)

\* What the entry at place i must give back: the page scrolled under the first dialog,
\* and did not under any other.
Beneath(i) == IF i = 1 THEN "" ELSE "hidden"

\* While the dialog opened first was closed last, each entry holds what was beneath it.
Layered ==
  orderly =>
    /\ overflow = IF opened = <<>> THEN "" ELSE "hidden"
    /\ \A i \in 1..Len(opened) : opened[i].overflow = Beneath(i)

\* The dialog has the focus.
Keeps(d) == \E c \in Control : focus = In(d, c)

\* While the focus was not lost there is one dialog at most, and it has the focus.
Trapped ==
  ~lost => Len(opened) <= 1 /\ \A i \in 1..Len(opened) : Keeps(opened[i].dialog)

StackInv == StackTypeOK /\ Layered /\ Trapped

\* The places of the focus are told apart by their fields.
LEMMA FocusPlaces ==
  /\ Body \in Focus
  /\ \A d \in Dialog : /\ Opener(d) \in Focus \cap Outside
                       /\ \A c \in Control : In(d, c) \in Focus \ Outside
<1>1. \A f \in Outside : f.at \in {"body", "page"}
  BY DEF Outside, Body, Opener
<1>2. \A d \in Dialog, c \in Control : In(d, c).at = c /\ c \notin {"body", "page"}
  BY DEF In, Control
<1>3. \A d \in Dialog, c \in Control : In(d, c) \notin Outside
  BY <1>1, <1>2
<1>4. /\ Body \in Focus
      /\ \A d \in Dialog : Opener(d) \in Focus \cap Outside
  BY DEF Focus, Outside
<1>5. \A d \in Dialog, c \in Control : In(d, c) \in Focus
  BY DEF Focus
<1> QED
  BY <1>3, <1>4, <1>5

LEMMA StackInitInv == StackInit => StackInv
<1> SUFFICES ASSUME StackInit PROVE StackInv
  OBVIOUS
<1>1. opened \in Seq(Entry) /\ Len(opened) = 0 /\ opened = <<>>
  BY EmptySeq DEF StackInit
<1>2. StackTypeOK
  BY <1>1, FocusPlaces DEF StackInit, StackTypeOK, Overflow
<1>3. 1..Len(opened) = {}
  BY <1>1
<1>4. Layered
  BY <1>1, <1>3, Zenon DEF StackInit, Layered
<1>5. Trapped
  BY <1>1, <1>3 DEF Trapped
<1> QED
  BY <1>2, <1>4, <1>5 DEF StackInv

\* A dialog that is open has an entry of its own.
LEMMA EntryOfOpen ==
  ASSUME StackInv, NEW i \in 1..Len(opened)
  PROVE  opened[i] \in Entry /\ opened[i].dialog \in Dialog
<1>1. opened[i] \in Entry
  BY LenProperties DEF StackInv, StackTypeOK
<1> QED
  BY <1>1 DEF Entry

\* From outside only a focus that was lost can reach the page under an open dialog.
LEMMA OutsideMeansNoDialog ==
  ASSUME StackInv, focus \in Outside, ~lost
  PROVE  Len(opened) = 0 /\ opened = <<>>
<1>1. opened \in Seq(Entry) /\ Len(opened) \in Nat
  BY LenProperties DEF StackInv, StackTypeOK
<1>2. ASSUME Len(opened) # 0
      PROVE  FALSE
  <2>1. 1 \in 1..Len(opened)
    BY <1>1, <1>2
  <2>2. PICK c \in Control : focus = In(opened[1].dialog, c)
    BY <2>1 DEF StackInv, Trapped, Keeps
  <2> QED
    BY <2>1, <2>2, EntryOfOpen, FocusPlaces
<1> QED
  BY <1>1, <1>2, EmptySeq

\* A step that only moves the focus, to a place there is: within its dialog, or while the
\* trap does not hold it.
LEMMA MovesInv ==
  ASSUME StackInv, NEW f \in Focus, Moves(f),
         ~lost => \A i \in 1..Len(opened) : Keeps(opened[i].dialog)'
  PROVE  StackInv'
<1>1. StackTypeOK'
  BY DEF StackInv, StackTypeOK, Moves
<1>2. Layered'
  BY DEF StackInv, Layered, Moves, Beneath
<1>3. Trapped'
  BY DEF StackInv, Trapped, Moves, Keeps
<1> QED
  BY <1>1, <1>2, <1>3 DEF StackInv

LEMMA WithinInv ==
  ASSUME StackInv, NEW d \in Dialog, NEW c \in Control, NEW to \in Control,
         focus = In(d, c), Moves(In(d, to))
  PROVE  StackInv'
<1>1. ASSUME ~lost, NEW i \in 1..Len(opened)
      PROVE  Keeps(opened[i].dialog)'
  <2>1. PICK k \in Control : focus = In(opened[i].dialog, k)
    BY <1>1 DEF StackInv, Trapped, Keeps
  <2>2. opened[i].dialog = d
    BY <2>1 DEF In
  <2>3. focus' = In(d, to) /\ opened' = opened
    BY DEF Moves
  <2> QED
    BY <2>2, <2>3 DEF Keeps
<1> QED
  BY <1>1, MovesInv, FocusPlaces

LEMMA FocusPageInv ==
  ASSUME StackInv, NEW d \in Dialog, FocusPage(d)
  PROVE  StackInv'
<1>1. ~lost => Len(opened) = 0
  BY OutsideMeansNoDialog, EmptySeq DEF FocusPage
<1>2. ~lost => 1..Len(opened) = {}
  BY <1>1
<1> QED
  BY <1>2, MovesInv, FocusPlaces DEF FocusPage

LEMMA LoseFocusInv ==
  ASSUME StackInv, LoseFocus
  PROVE  StackInv'
<1>1. StackTypeOK'
  BY FocusPlaces DEF StackInv, StackTypeOK, LoseFocus
<1>2. Layered'
  BY DEF StackInv, Layered, LoseFocus, Beneath
<1>3. Trapped'
  BY DEF Trapped, LoseFocus
<1> QED
  BY <1>1, <1>2, <1>3 DEF StackInv

LEMMA OpenInv ==
  ASSUME StackInv, NEW d \in Dialog, OpenDialog(d)
  PROVE  StackInv'
<1> DEFINE e == [dialog |-> d, overflow |-> overflow, focus |-> focus]
<1>1. e \in Entry
  BY DEF StackInv, StackTypeOK, Entry
<1>2. opened \in Seq(Entry) /\ opened' = Append(opened, e)
  BY DEF StackInv, StackTypeOK, OpenDialog
<1>3. /\ opened' \in Seq(Entry) /\ Len(opened') = Len(opened) + 1 /\ Len(opened) \in Nat
      /\ \A i \in 1..Len(opened) : opened'[i] = opened[i]
      /\ opened'[Len(opened) + 1] = e
  BY <1>1, <1>2, AppendProperties, LenProperties
<1>4. StackTypeOK'
  BY <1>3, FocusPlaces DEF StackInv, StackTypeOK, OpenDialog, Overflow, Control
<1>5. Layered'
  <2> SUFFICES ASSUME orderly'
               PROVE  /\ overflow' = "hidden" /\ opened' # <<>>
                      /\ \A i \in 1..Len(opened') : opened'[i].overflow = Beneath(i)
    BY DEF Layered
  <2>1. orderly /\ overflow' = "hidden"
    BY DEF OpenDialog
  <2>2. opened' # <<>>
    BY <1>2, <1>1, AppendProperties
  <2>3. opened'[Len(opened) + 1].overflow = Beneath(Len(opened) + 1)
    <3>1. overflow = IF Len(opened) = 0 THEN "" ELSE "hidden"
      BY <1>2, <2>1, EmptySeq DEF StackInv, Layered
    <3>2. (Len(opened) + 1 = 1) = (Len(opened) = 0)
      BY <1>3
    <3>3. e.overflow = IF Len(opened) + 1 = 1 THEN "" ELSE "hidden"
      BY <3>1, <3>2, Zenon
    <3> QED
      BY <3>3, <1>3, Zenon DEF Beneath
  <2>4. ASSUME NEW i \in 1..Len(opened')
        PROVE  opened'[i].overflow = Beneath(i)
    <3>1. CASE i = Len(opened) + 1
      BY <3>1, <2>3
    <3>2. CASE i # Len(opened) + 1
      <4>1. i \in 1..Len(opened)
        BY <3>2, <1>3
      <4> QED
        BY <4>1, <2>1, <1>3 DEF StackInv, Layered
    <3> QED
      BY <3>1, <3>2
  <2> QED
    BY <2>1, <2>2, <2>4
\* The button has the focus: no dialog can be open while the focus was kept inside.
<1>6. Trapped'
  <2> SUFFICES ASSUME ~lost
               PROVE  /\ Len(opened') <= 1
                      /\ \A i \in 1..Len(opened') :
                           \E c \in Control : focus' = In(opened'[i].dialog, c)
    BY Zenon DEF Trapped, OpenDialog, Keeps
  <2>1. focus \in Outside
    BY FocusPlaces DEF OpenDialog
  <2>2. Len(opened) = 0
    BY <2>1, OutsideMeansNoDialog
  <2>3. Len(opened') = 1 /\ opened'[1] = e
    BY <2>2, <1>3
  <2>4. focus' = In(opened'[1].dialog, "close") /\ "close" \in Control
    BY <2>3 DEF OpenDialog, Control
  <2>5. Len(opened') <= 1 /\ \A i \in 1..Len(opened') : i = 1
    BY <2>3
  <2> QED
    BY <2>4, <2>5
<1> QED
  BY <1>4, <1>5, <1>6 DEF StackInv

\* The sequence without its element at place i.
LEMMA WithoutOne ==
  ASSUME NEW S, NEW s \in Seq(S), NEW i \in 1..Len(s)
  PROVE  LET rest == SubSeq(s, 1, i - 1) \o SubSeq(s, i + 1, Len(s)) IN
         /\ rest \in Seq(S) /\ Len(rest) = Len(s) - 1
         /\ \A j \in 1..(Len(s) - 1) : rest[j] = IF j < i THEN s[j] ELSE s[j + 1]
<1> DEFINE front == SubSeq(s, 1, i - 1)
           back == SubSeq(s, i + 1, Len(s))
<1>1. Len(s) \in Nat /\ \A j \in 1..Len(s) : s[j] \in S
  BY LenProperties
<1>2. /\ front \in Seq(S) /\ Len(front) = i - 1
      /\ \A j \in 1..(i - 1) : front[j] = s[j]
  <2>1. 1 \in Int /\ i - 1 \in Int /\ \A j \in 1..(i - 1) : s[j] \in S
    BY <1>1
  <2>2. /\ front \in Seq(S) /\ Len(front) = IF 1 <= i - 1 THEN (i - 1) - 1 + 1 ELSE 0
        /\ \A j \in 1..((i - 1) - 1 + 1) : front[j] = s[1 + j - 1]
    BY <2>1, SubSeqProperties
  <2> QED
    BY <2>2, <1>1
<1>3. /\ back \in Seq(S) /\ Len(back) = Len(s) - i
      /\ \A j \in 1..(Len(s) - i) : back[j] = s[i + j]
  <2>1. i + 1 \in Int /\ Len(s) \in Int /\ \A j \in (i + 1)..Len(s) : s[j] \in S
    BY <1>1
  <2>2. /\ back \in Seq(S) /\ Len(back) = IF i + 1 <= Len(s) THEN Len(s) - (i + 1) + 1 ELSE 0
        /\ \A j \in 1..(Len(s) - (i + 1) + 1) : back[j] = s[(i + 1) + j - 1]
    BY <2>1, SubSeqProperties
  <2>3. Len(s) - (i + 1) + 1 = Len(s) - i
    BY <1>1
  <2>4. back \in Seq(S) /\ Len(back) = Len(s) - i
    <3>1. back \in Seq(S) /\ Len(back) = IF i + 1 <= Len(s) THEN Len(s) - (i + 1) + 1 ELSE 0
      BY <2>2
    <3> QED
      BY <3>1, <1>1
  <2>5. ASSUME NEW j \in 1..(Len(s) - i)
        PROVE  back[j] = s[i + j]
    <3>1. back[j] = s[(i + 1) + j - 1]
      BY <2>2, <2>3
    <3>2. (i + 1) + j - 1 = i + j
      BY <1>1
    <3> QED
      BY <3>1, <3>2
  <2> QED
    BY <2>4, <2>5
<1> HIDE DEF front, back
<1>4. /\ front \o back \in Seq(S) /\ Len(front \o back) = Len(front) + Len(back)
      /\ \A j \in 1..(Len(front) + Len(back)) :
           (front \o back)[j] = IF j <= Len(front) THEN front[j] ELSE back[j - Len(front)]
  BY <1>2, <1>3, ConcatProperties
<1>5. Len(front \o back) = Len(s) - 1
  BY <1>1, <1>2, <1>3, <1>4
<1>6. ASSUME NEW j \in 1..(Len(s) - 1)
      PROVE  (front \o back)[j] = IF j < i THEN s[j] ELSE s[j + 1]
  <2>1. j \in 1..(Len(front) + Len(back)) /\ (j <= Len(front) <=> j < i)
    BY <1>1, <1>2, <1>3
  <2>2. CASE j < i
    <3>1. j \in 1..(i - 1)
      BY <2>2, <1>1
    <3> QED
      BY <3>1, <2>1, <2>2, <1>2, <1>4
  <2>3. CASE ~(j < i)
    <3>1. j - Len(front) \in 1..(Len(s) - i) /\ i + (j - Len(front)) = j + 1
      BY <2>3, <1>1, <1>2
    <3>2. back[j - Len(front)] = s[i + (j - Len(front))]
      BY <3>1, <1>3
    <3>3. (front \o back)[j] = back[j - Len(front)]
      BY <2>1, <2>3, <1>4
    <3> QED
      BY <2>3, <3>1, <3>2, <3>3
  <2> QED
    BY <2>2, <2>3
<1> QED
  BY <1>4, <1>5, <1>6 DEF front, back

LEMMA CloseInv ==
  ASSUME StackInv, NEW i \in 1..Len(opened), CloseOne(i)
  PROVE  StackInv'
<1>1. opened \in Seq(Entry) /\ Len(opened) \in Nat /\ opened[i] \in Entry
  BY LenProperties DEF StackInv, StackTypeOK
<1>2. /\ opened' \in Seq(Entry) /\ Len(opened') = Len(opened) - 1
      /\ \A j \in 1..(Len(opened) - 1) :
           opened'[j] = IF j < i THEN opened[j] ELSE opened[j + 1]
  BY <1>1, WithoutOne DEF CloseOne
<1>3. StackTypeOK'
  BY <1>1, <1>2 DEF StackInv, StackTypeOK, CloseOne, GivesBack, Entry
\* The dialog at the bottom stays until it is the only one: every other one gives "hidden"
\* back, and what lies above it keeps lying over a dialog.
<1>4. Layered'
  <2> SUFFICES ASSUME orderly'
               PROVE  /\ overflow' = IF opened' = <<>> THEN "" ELSE "hidden"
                      /\ \A j \in 1..Len(opened') : opened'[j].overflow = Beneath(j)
    BY DEF Layered
  <2>1. orderly /\ (i = 1 => Len(opened) = 1) /\ overflow' = opened[i].overflow
    BY Zenon DEF CloseOne, GivesBack
  <2>2. \A j \in 1..Len(opened) : opened[j].overflow = Beneath(j)
    BY <2>1 DEF StackInv, Layered
  <2>3. overflow' = Beneath(i)
    BY <2>1, <2>2
  <2>4. (opened' = <<>>) <=> (i = 1)
    <3>1. (opened' = <<>>) <=> (Len(opened') = 0)
      BY <1>2, EmptySeq
    <3>2. (Len(opened') = 0) <=> (i = 1)
      BY <1>1, <1>2, <2>1
    <3> QED
      BY <3>1, <3>2
  <2>5. overflow' = IF opened' = <<>> THEN "" ELSE "hidden"
    BY <2>3, <2>4, Zenon DEF Beneath
  <2>6. ASSUME NEW j \in 1..Len(opened')
        PROVE  opened'[j].overflow = Beneath(j)
    <3>1. j \in 1..(Len(opened) - 1) /\ j \in 1..Len(opened) /\ j + 1 \in 1..Len(opened)
      BY <1>1, <1>2
    <3>2. CASE j < i
      BY <3>1, <3>2, <2>2, <1>2
    <3>3. CASE ~(j < i)
      <4>1. j # 1 /\ j + 1 # 1
        <5>1. i = 1 => Len(opened) = 1
          BY <2>1
        <5> QED
          BY ONLY <3>3, <3>1, <5>1, <1>1, i \in 1..Len(opened)
      <4>2. opened'[j] = opened[j + 1]
        BY <3>1, <3>3, <1>2
      <4>3. opened[j + 1].overflow = Beneath(j + 1)
        BY <3>1, <2>2
      <4> QED
        BY <4>1, <4>2, <4>3 DEF Beneath
    <3> QED
      BY <3>2, <3>3
  <2> QED
    BY <2>5, <2>6
\* A second dialog is there only if the focus was lost already.
<1>5. Trapped'
  <2> SUFFICES ASSUME ~lost'
               PROVE  /\ Len(opened') <= 1
                      /\ \A j \in 1..Len(opened') :
                           \E c \in Control : focus' = In(opened'[j].dialog, c)
    BY Zenon DEF Trapped, Keeps
  <2>1. ~lost \/ ~(Len(opened) > 1)
    BY Zenon DEF CloseOne
  <2>2. ~lost => Len(opened) <= 1
    BY DEF StackInv, Trapped
  <2>3. Len(opened') = 0
    BY <1>1, <1>2, <2>1, <2>2
  <2>4. 1..Len(opened') = {}
    BY <2>3
  <2> QED
    BY <2>3, <2>4
<1> QED
  BY <1>3, <1>4, <1>5 DEF StackInv

LEMMA EscapeInv ==
  ASSUME StackInv, NEW i \in 1..Len(opened), PressEscape(i)
  PROVE  StackInv'
<1>1. opened[i] \in Entry
  BY EntryOfOpen
<1>2. opened' \in Seq(Entry) /\ Len(opened') = 0 /\ opened' = <<>>
  BY EmptySeq DEF PressEscape
<1>3. StackTypeOK'
  BY <1>1, <1>2 DEF StackInv, StackTypeOK, PressEscape, GivesBack, Entry
<1>4. orderly' => overflow' = ""
  BY DEF StackInv, Layered, PressEscape, GivesBack, Beneath
<1>5. 1..Len(opened') = {}
  BY <1>2
<1>6. Layered'
  BY <1>2, <1>4, <1>5, Zenon DEF Layered
<1>7. Trapped'
  BY <1>2, <1>5 DEF Trapped
<1> QED
  BY <1>3, <1>6, <1>7 DEF StackInv

LEMMA StackStepInv ==
  ASSUME StackInv, [StackNext]_stackVars
  PROVE  StackInv'
<1>1. ASSUME NEW d \in Dialog, FocusPage(d) \/ OpenDialog(d)
      PROVE  StackInv'
  BY <1>1, FocusPageInv, OpenInv
<1>2. ASSUME NEW back \in BOOLEAN, TrapTab(back)
      PROVE  StackInv'
  <2>1. PICK d \in Dialog, c \in Control, to \in Control :
               focus = In(d, c) /\ Moves(In(d, to))
    BY <1>2 DEF TrapTab, Control
  <2> QED
    BY <2>1, WithinInv
<1>3. CASE WalkTab
  <2>1. PICK d \in Dialog, c \in Control, to \in Control :
               focus = In(d, c) /\ Moves(In(d, to))
    BY <1>3 DEF WalkTab
  <2> QED
    BY <2>1, WithinInv
<1>4. CASE LoseFocus
  BY <1>4, LoseFocusInv
<1>5. ASSUME NEW i \in 1..Len(opened), CloseOne(i) \/ PressEscape(i)
      PROVE  StackInv'
  BY <1>5, CloseInv, EscapeInv
<1>6. CASE UNCHANGED stackVars
  BY <1>6 DEF stackVars, StackInv, StackTypeOK, Layered, Trapped, Keeps
<1> QED
  BY <1>1, <1>2, <1>3, <1>4, <1>5, <1>6 DEF StackNext

\* The inductive invariant.  As long as the dialog opened first was never closed under
\* another, the page is locked exactly while a dialog is open and each open dialog has saved
\* what lay beneath it; as long as the focus was not lost to nothing, one dialog at most is
\* open, and the focus is on a control of it (Modal).
THEOREM StackInvariance == StackSpec => []StackInv
BY StackInitInv, StackStepInv, PTL DEF StackSpec

\* Whatever dialogs are opened over each other and in whatever order they are closed, by
\* whatever key or click - if the one opened first is closed last: the page scrolls exactly
\* while none is open (Modal).
THEOREM PageIsGivenBack == StackSpec => []PageScrollsAgain
<1>1. StackInv => PageScrollsAgain
  BY DEF StackInv, Layered, PageScrollsAgain
<1> QED
  BY <1>1, StackInvariance, PTL

\* The Tab key never leaves an open dialog: until the focus was lost to nothing no second
\* dialog is opened over the first (Modal).
THEOREM TrapKeepsOneDialog == StackSpec => []FocusTrapped
<1>1. ASSUME StackInv
      PROVE  FocusTrapped
  <2> SUFFICES ASSUME opened # <<>>, ~lost
               PROVE  Len(opened) = 1 /\ Keeps(opened[1].dialog)
    BY DEF FocusTrapped, Keeps
  <2>1. opened \in Seq(Entry) /\ Len(opened) \in Nat
    BY <1>1, LenProperties DEF StackInv, StackTypeOK
  <2>2. Len(opened) # 0
    BY <2>1, EmptySeq
  <2>3. Len(opened) <= 1
    BY <1>1 DEF StackInv, Trapped
  <2>4. Len(opened) = 1 /\ 1 \in 1..Len(opened)
    <3>1. Len(opened) \in Nat
      BY <2>1
    <3>2. \A n \in Nat : n # 0 /\ n <= 1 => n = 1 /\ 1 \in 1..n
      OBVIOUS
    <3> QED
      BY ONLY <3>1, <3>2, <2>2, <2>3
  <2> QED
    BY <1>1, <2>4 DEF StackInv, Trapped
<1> QED
  BY <1>1, StackInvariance, PTL

-----------------------------------------------------------------------------
(* The top-up dialog *)

PaymentRequest == [sum: Allowed, running: BOOLEAN, left: BOOLEAN]

\* A request that was not left by closing the dialog is the last one, and the form waits
\* for it.
OnlyLastRuns ==
  ~lateAnswer =>
    \A n \in DOMAIN requests :
      requests[n].running /\ ~requests[n].left => n = Len(requests) /\ topUp.busy

\* A summary, and what is paid, is that of the last request, and none is awaited.
SummaryIsLast ==
  ~lateAnswer =>
    \A sum \in {topUp.payment, checkout} : sum # NoSum =>
      requests # <<>> /\ sum = requests[Len(requests)].sum /\ ~topUp.busy

TopUpInv == TopUpTypeOK /\ OnlyLastRuns /\ SummaryIsLast

LEMMA TopUpInitInv == TopUpInit => TopUpInv
<1> SUFFICES ASSUME TopUpInit PROVE TopUpInv
  OBVIOUS
<1>1. /\ requests \in Seq([sum: Allowed, running: BOOLEAN, left: BOOLEAN])
      /\ Len(requests) = 0 /\ DOMAIN requests = {}
  BY EmptySeq, LenProperties DEF TopUpInit
<1>2. TopUpTypeOK
  BY <1>1 DEF TopUpInit, TopUpTypeOK, FreshForm
<1>3. OnlyLastRuns /\ SummaryIsLast
  BY <1>1 DEF TopUpInit, FreshForm, OnlyLastRuns, SummaryIsLast
<1> QED
  BY <1>2, <1>3 DEF TopUpInv

LEMMA RequestsAreSeq ==
  ASSUME TopUpTypeOK
  PROVE  /\ requests \in Seq(PaymentRequest)
         /\ Len(requests) \in Nat /\ DOMAIN requests = 1..Len(requests)
         /\ \A n \in DOMAIN requests : requests[n] \in PaymentRequest
         /\ (requests = <<>>) = (Len(requests) = 0)
<1>1. requests \in Seq(PaymentRequest)
  BY DEF TopUpTypeOK, PaymentRequest
<1>2. /\ Len(requests) \in Nat /\ DOMAIN requests = 1..Len(requests)
      /\ requests \in [1..Len(requests) -> PaymentRequest]
  BY <1>1, LenProperties
<1>3. (requests = <<>>) = (Len(requests) = 0)
  BY <1>1, <1>2, EmptySeq
<1> QED
  BY <1>1, <1>2, <1>3

\* A new request is the last one, and the form waits for it.
LEMMA SubmitInv ==
  ASSUME TopUpInv, SubmitTopUp
  PROVE  TopUpInv'
<1> DEFINE r == Request(topUp.typed)
<1>1. requests \in Seq(PaymentRequest) /\ r \in PaymentRequest /\ requests' = Append(requests, r)
  BY RequestsAreSeq DEF TopUpInv, SubmitTopUp, Request, PaymentRequest
<1>2. /\ requests' \in Seq(PaymentRequest) /\ requests' # <<>>
      /\ Len(requests') = Len(requests) + 1
      /\ \A n \in 1..Len(requests) : requests'[n] = requests[n]
      /\ requests'[Len(requests) + 1] = r
  BY <1>1, AppendProperties
<1>3. Len(requests) \in Nat /\ DOMAIN requests = 1..Len(requests)
      /\ DOMAIN requests' = 1..Len(requests')
  BY <1>1, <1>2, LenProperties
<1>4. TopUpTypeOK'
  BY <1>2 DEF TopUpInv, TopUpTypeOK, SubmitTopUp, PaymentRequest
<1>5. topUp'.busy /\ topUp'.payment = NoSum /\ checkout' = NoSum /\ lateAnswer' = lateAnswer
  BY DEF TopUpInv, TopUpTypeOK, SubmitTopUp, OnPage
<1>6. OnlyLastRuns'
  <2>1. ~topUp.busy
    BY DEF SubmitTopUp
  <2>2. ASSUME ~lateAnswer', NEW n \in DOMAIN requests', n # Len(requests'),
               requests'[n].running, ~requests'[n].left
        PROVE  FALSE
    <3>1. n \in DOMAIN requests /\ requests'[n] = requests[n]
      BY <2>2, <1>2, <1>3
    <3>2. requests[n].running /\ ~requests[n].left /\ ~lateAnswer
      BY <2>2, <3>1, <1>5
    <3> QED
      BY <3>1, <3>2, <2>1 DEF TopUpInv, OnlyLastRuns
  <2> QED
    BY <2>2, <1>5 DEF OnlyLastRuns
<1>7. SummaryIsLast'
  BY <1>5 DEF SummaryIsLast
<1> QED
  BY <1>4, <1>6, <1>7 DEF TopUpInv

\* An answer ends its request; without a late one it is the last that was not left, and no
\* other is awaited then.
LEMMA AnswerInv ==
  ASSUME TopUpInv, NEW n \in DOMAIN requests, PaymentCreated(n) \/ PaymentRefused(n)
  PROVE  TopUpInv'
<1>1. /\ requests \in Seq(PaymentRequest) /\ Len(requests) \in Nat
      /\ DOMAIN requests = 1..Len(requests)
      /\ \A m \in DOMAIN requests : requests[m] \in PaymentRequest
      /\ requests[n].running /\ requests # <<>>
  BY RequestsAreSeq DEF TopUpInv, PaymentCreated, PaymentRefused, RunningRequests
<1>2. /\ requests' = [requests EXCEPT ![n] = [requests[n] EXCEPT !.running = FALSE]]
      /\ lateAnswer' = (lateAnswer \/ requests[n].left)
  BY DEF PaymentCreated, PaymentRefused, Ends
<1>3. [requests[n] EXCEPT !.running = FALSE] \in PaymentRequest
  BY <1>1 DEF PaymentRequest
<1>4. /\ requests' \in Seq(PaymentRequest) /\ Len(requests') = Len(requests) /\ requests' # <<>>
      /\ DOMAIN requests' = DOMAIN requests
      /\ \A m \in DOMAIN requests : requests'[m].sum = requests[m].sum
      /\ \A m \in DOMAIN requests : m # n => requests'[m] = requests[m]
      /\ ~requests'[n].running
  <2>1. requests' \in Seq(PaymentRequest) /\ Len(requests') = Len(requests)
    BY <1>1, <1>2, <1>3, ExceptSeq
  <2>2. requests' # <<>> /\ DOMAIN requests' = DOMAIN requests
    BY <2>1, <1>1, LenProperties, EmptySeq
  <2> QED
    BY <2>1, <2>2, <1>1, <1>2 DEF PaymentRequest
<1>5. /\ ~topUp'.busy /\ checkout' = checkout
      /\ topUp'.payment \in {requests[n].sum, topUp.payment}
      /\ topUp' \in [open: BOOLEAN, typed: Sum \cup {NoSum}, payment: Allowed \cup {NoSum},
                     busy: BOOLEAN]
  BY <1>1 DEF TopUpInv, TopUpTypeOK, PaymentCreated, PaymentRefused, PaymentRequest
<1>6. lateAnswer' \in BOOLEAN
  BY <1>1, <1>2 DEF PaymentRequest, TopUpInv, TopUpTypeOK
<1>7. TopUpTypeOK'
  BY <1>4, <1>5, <1>6 DEF TopUpInv, TopUpTypeOK, PaymentRequest
<1>8. ASSUME ~lateAnswer'
      PROVE  /\ n = Len(requests) /\ ~lateAnswer
             /\ topUp.payment = NoSum /\ checkout = NoSum
  <2>1. ~lateAnswer /\ ~requests[n].left
    BY <1>8, <1>2
  <2>2. n = Len(requests) /\ topUp.busy
    BY <2>1, <1>1 DEF TopUpInv, OnlyLastRuns
  <2> QED
    BY <2>1, <2>2 DEF TopUpInv, SummaryIsLast
<1>9. OnlyLastRuns'
  <2> SUFFICES ASSUME ~lateAnswer', NEW m \in DOMAIN requests,
                      requests'[m].running, ~requests'[m].left
               PROVE  FALSE
    BY <1>4 DEF OnlyLastRuns
  <2>1. m # n /\ requests'[m] = requests[m]
    BY <1>4
  <2>2. m = Len(requests)
    BY <2>1, <1>8 DEF TopUpInv, OnlyLastRuns
  <2> QED
    BY <2>1, <2>2, <1>8
<1>10. SummaryIsLast'
  BY <1>4, <1>5, <1>8 DEF SummaryIsLast
<1> QED
  BY <1>7, <1>9, <1>10 DEF TopUpInv

\* Closing resets the form, and leaves the requests that are running.
LEMMA CloseTopUpInv ==
  ASSUME TopUpInv, CloseTopUp
  PROVE  TopUpInv'
<1>1. /\ topUp'.busy = FALSE /\ topUp'.payment = NoSum
      /\ checkout' = checkout /\ checkout = NoSum /\ lateAnswer' = lateAnswer
  BY DEF CloseTopUp, FreshForm, OnPage
<1>2. /\ Len(requests) \in Nat /\ DOMAIN requests = 1..Len(requests)
      /\ \A n \in DOMAIN requests : requests[n] \in PaymentRequest
  BY RequestsAreSeq DEF TopUpInv
<1>3. requests' = [n \in 1..Len(requests) |->
                     [requests[n] EXCEPT !.left = requests[n].left \/ requests[n].running]]
  BY <1>2 DEF CloseTopUp
<1>4. \A n \in 1..Len(requests) :
        [requests[n] EXCEPT !.left = requests[n].left \/ requests[n].running] \in PaymentRequest
  BY <1>2, Zenon DEF PaymentRequest
<1>5. requests' \in Seq(PaymentRequest)
  BY <1>2, <1>3, <1>4, IsASeq
<1>6. TopUpTypeOK'
  BY <1>1, <1>5 DEF TopUpInv, TopUpTypeOK, CloseTopUp, FreshForm, PaymentRequest
<1>7. OnlyLastRuns'
  <2>1. \A n \in DOMAIN requests' : requests'[n].running => requests'[n].left
    BY <1>2, <1>3 DEF PaymentRequest
  <2> QED
    BY <2>1 DEF OnlyLastRuns
<1>8. SummaryIsLast'
  BY <1>1 DEF SummaryIsLast
<1> QED
  BY <1>6, <1>7, <1>8 DEF TopUpInv

LEMMA TopUpStepInv ==
  ASSUME TopUpInv, [TopUpNext]_topUpVars
  PROVE  TopUpInv'
<1> USE DEF TopUpInv, TopUpTypeOK, OnlyLastRuns, SummaryIsLast
<1>1. CASE OpenTopUp
  BY <1>1 DEF OpenTopUp
<1>2. ASSUME NEW sum \in Sum, TypeSum(sum)
      PROVE  TopUpInv'
  BY <1>2 DEF TypeSum
<1>3. CASE BackToForm
  BY <1>3 DEF BackToForm
<1>4. CASE Pay
  BY <1>4 DEF Pay
<1>5. CASE UNCHANGED topUpVars
  BY <1>5 DEF topUpVars
<1> QED
  BY <1>1, <1>2, <1>3, <1>4, <1>5, SubmitInv, AnswerInv, CloseTopUpInv DEF TopUpNext

\* The inductive invariant.  Until the answer to a request arrives that was left by closing
\* the dialog: only the last request is awaited, and a summary that is shown, or paid, is its.
THEOREM TopUpInvariance == TopUpSpec => []TopUpInv
BY TopUpInitInv, TopUpStepInv, PTL DEF TopUpSpec

\* Whatever is typed, submitted, refused, taken back and submitted again, also after the
\* dialog was closed with a request running and opened anew: the user is sent to pay the sum
\* of the last request - until the answer to a request that was left so arrives.
THEOREM CheckoutIsLastRequest == TopUpSpec => []PaysWhatWasSubmitted
<1>1. TopUpInv => PaysWhatWasSubmitted
  BY DEF TopUpInv, SummaryIsLast, PaysWhatWasSubmitted
<1> QED
  BY <1>1, TopUpInvariance, PTL

-----------------------------------------------------------------------------
(* The select field *)

-----------------------------------------------------------------------------
(* The first and the last of some indexes. *)

LEMMA GreatestExists ==
  ASSUME NEW n \in Nat, NEW S \in SUBSET (1..n), S # {}
  PROVE  \E x \in S : \A y \in S : x >= y
<1> DEFINE T == {n - s : s \in S}
<1>1. T \in SUBSET Nat /\ T # {}
  <2>1. ASSUME NEW s \in S PROVE n - s \in Nat
    <3>1. s \in 1..n
      OBVIOUS
    <3> QED
      BY <3>1
  <2>2. T \subseteq Nat
    BY <2>1
  <2>3. PICK s \in S : TRUE
    OBVIOUS
  <2>4. n - s \in T
    BY <2>3
  <2> QED
    BY <2>2, <2>4
<1>2. PICK t \in T : \A u \in T : t <= u
  BY <1>1, LeastExists
<1>3. PICK x \in S : t = n - x
  BY <1>2
<1>4. ASSUME NEW y \in S PROVE x >= y
  <2>1. n - y \in T /\ n - x <= n - y
    BY <1>2, <1>3
  <2> QED
    BY <2>1
<1> QED
  BY <1>4

LEMMA FirstAndLastAreThere ==
  ASSUME NEW n \in Nat, NEW S \in SUBSET (1..n), S # {}
  PROVE  FirstOf(S) \in S /\ LastOf(S) \in S
<1>1. \E x \in S : \A y \in S : x <= y
  BY LeastExists
<1>2. \E x \in S : \A y \in S : x >= y
  BY GreatestExists
<1>3. Min(S) \in S
  BY <1>1 DEF Min
<1>4. Max(S) \in S
  BY <1>2 DEF Max
<1> QED
  BY <1>3, <1>4 DEF FirstOf, LastOf

-----------------------------------------------------------------------------
(* The invariant. *)

Fits(win) == win.top + ControlHeight <= win.height

\* Until the parent replaces the options the list is where it was put for this window, and
\* its highlight on an option that can be chosen.
Followed ==
  select.open /\ ~replaced =>
    select.active \in Enabled /\ select.at = PopupPosition(window, Len(options))

SelectInv == SelectTypeOK /\ Fits(window) /\ Followed

LEMMA EnabledIndexes ==
  ASSUME SelectTypeOK
  PROVE  Len(options) \in Nat /\ Enabled \in SUBSET (1..Len(options)) /\ Enabled \subseteq Nat
BY SelectAssumption DEF SelectTypeOK, Enabled, EnabledIn

LEMMA SelectInitInv == SelectInit => SelectInv
<1> SUFFICES ASSUME SelectInit PROVE SelectInv
  OBVIOUS
<1>1. options \in OptionLists
  BY SelectAssumption DEF SelectInit
<1>2. value \in {o.value : o \in Option}
  <2>1. PICK choices \in OptionLists : choices # <<>>
    BY SelectAssumption
  <2>2. DOMAIN choices # {}
    <3>1. Len(choices) \in Nat /\ DOMAIN choices = 1..Len(choices)
      BY SelectAssumption
    <3>2. CASE Len(choices) = 0
      BY <2>1, <3>1, <3>2
    <3>3. CASE Len(choices) # 0
      BY <3>1, <3>3
    <3> QED
      BY <3>2, <3>3
  <2>3. Option # {}
    BY <2>2 DEF Option
  <2> QED
    BY <2>3 DEF SelectInit
<1>3. window \in [height: Heights, top: Tops] /\ Fits(window)
  <2>1. \E win \in [height: Heights, top: Tops] : win.top + ControlHeight <= win.height
    <3>1. PICK h \in Heights, t \in Tops : t + ControlHeight <= h
      BY SelectAssumption
    <3>2. WITNESS [height |-> h, top |-> t] \in [height: Heights, top: Tops]
    <3> QED
      BY <3>1
  <2> QED
    BY <2>1 DEF SelectInit, Fits
<1>4. /\ select.open = FALSE
      /\ select \in [open: BOOLEAN, active: Nat,
                     at: [above: BOOLEAN, maxHeight: Int, top: Int]]
  BY DEF SelectInit, Unopened, NoPosition, None
<1> QED
  BY <1>1, <1>2, <1>3, <1>4 DEF SelectInit, SelectInv, SelectTypeOK, Followed

LEMMA PositionType ==
  ASSUME NEW win, win.height \in Nat, win.top \in Nat, NEW n \in Nat
  PROVE  PopupPosition(win, n) \in [above: BOOLEAN, maxHeight: Int, top: Int]
<1>1. ControlHeight \in Nat
  BY SelectAssumption
<1>2. \A a, b \in Int : Least(a, b) \in Int /\ Most(a, b) \in Int
  BY DEF Least, Most
<1> DEFINE estimated == EstimatedHeight(n)
           below == win.height - (win.top + ControlHeight) - VIEWPORT_GAP
           above == win.top - VIEWPORT_GAP
           placeAbove == below < Least(estimated, 150) /\ above > below
           maxHeight == Most(80, Least(MAX_HEIGHT, IF placeAbove THEN above ELSE below))
           top == IF placeAbove
                    THEN Most(VIEWPORT_GAP, win.top - GAP - Least(estimated, maxHeight))
                    ELSE win.top + ControlHeight + GAP
<1>3. estimated \in Int
  <2>1. n * 44 + 12 \in Int /\ 240 \in Int
    OBVIOUS
  <2> QED
    BY <1>2, <2>1 DEF EstimatedHeight, MAX_HEIGHT
<1>4. above \in Int /\ below \in Int
  BY <1>1 DEF VIEWPORT_GAP
<1>5. maxHeight \in Int
  <2> HIDE DEF placeAbove, above, below
  <2>1. (IF placeAbove THEN above ELSE below) \in Int /\ MAX_HEIGHT \in Int /\ 80 \in Int
    BY <1>4 DEF MAX_HEIGHT
  <2>2. Least(MAX_HEIGHT, IF placeAbove THEN above ELSE below) \in Int
    BY <1>2, <2>1
  <2> QED
    BY <1>2, <2>1, <2>2
<1>6. top \in Int
  <2> HIDE DEF placeAbove, maxHeight, estimated
  <2>1. Least(estimated, maxHeight) \in Int
    BY <1>2, <1>3, <1>5
  <2>2. win.top - GAP - Least(estimated, maxHeight) \in Int /\ VIEWPORT_GAP \in Int
    BY <2>1 DEF GAP, VIEWPORT_GAP
  <2>3. Most(VIEWPORT_GAP, win.top - GAP - Least(estimated, maxHeight)) \in Int
    BY <1>2, <2>2
  <2>4. win.top + ControlHeight + GAP \in Int
    BY <1>1 DEF GAP
  <2> QED
    BY <2>3, <2>4
<1>7. placeAbove \in BOOLEAN
  OBVIOUS
<1>8. PopupPosition(win, n) = [above |-> placeAbove, maxHeight |-> maxHeight, top |-> top]
  BY DEF PopupPosition
<1> HIDE DEF placeAbove, maxHeight, top
<1> QED
  BY <1>5, <1>6, <1>7, <1>8

\* What PopupInView says of a list placed at `at` in the window `win`.
InView(win, n, at) ==
  LET needed == EstimatedHeight(n)
      used == Least(at.maxHeight, needed)
      above == win.top - VIEWPORT_GAP
      below == win.height - (win.top + ControlHeight) - VIEWPORT_GAP IN
  Most(above, below) >= Least(80, needed) =>
    /\ at.top >= 0 /\ at.top + used <= win.height
    /\ IF at.above THEN at.top + used <= win.top ELSE at.top >= win.top + ControlHeight

\* Above, a list that needs e fits under the top of its control.
LEMMA FitsAbove ==
  ASSUME NEW e \in Nat, NEW above \in Int, NEW below \in Int, NEW maxHeight \in Int,
         above > below, Most(above, below) >= Least(80, e),
         maxHeight = Most(80, Least(240, above))
  PROVE  Least(maxHeight, e) <= above
BY DEF Most, Least

\* Below, it fits over the bottom of the window.
LEMMA FitsBelow ==
  ASSUME NEW e \in Nat, NEW above \in Int, NEW below \in Int, NEW maxHeight \in Int,
         ~(below < Least(e, 150) /\ above > below), Most(above, below) >= Least(80, e),
         maxHeight = Most(80, Least(240, below))
  PROVE  Least(maxHeight, e) <= below
<1>1. CASE below >= Least(e, 150)
  BY <1>1 DEF Most, Least
<1>2. CASE above <= below
  BY <1>2 DEF Most, Least
<1> QED
  <2>1. below >= Least(e, 150) \/ above <= below
    BY DEF Least
  <2> QED
    BY <2>1, <1>1, <1>2

LEMMA PlaceInView ==
  ASSUME NEW win, win.height \in Nat, win.top \in Nat, win.top + ControlHeight <= win.height,
         NEW n \in Nat
  PROVE  InView(win, n, PopupPosition(win, n))
<1> DEFINE at == PopupPosition(win, n)
           e == EstimatedHeight(n)
           used == Least(at.maxHeight, e)
           below == win.height - (win.top + ControlHeight) - VIEWPORT_GAP
           above == win.top - VIEWPORT_GAP
           placeAbove == below < Least(e, 150) /\ above > below
<1>1. ControlHeight \in Nat
  BY SelectAssumption
<1>2. e \in Nat
  <2>1. n * 44 + 12 \in Nat
    OBVIOUS
  <2> QED
    BY <2>1 DEF EstimatedHeight, Least, MAX_HEIGHT
<1>3. at.maxHeight \in Int /\ at.top \in Int
  BY PositionType
<1>4. above \in Int /\ below \in Int /\ above = win.top - 12
      /\ below = win.height - win.top - ControlHeight - 12
  BY <1>1 DEF VIEWPORT_GAP
<1>5. used \in Int /\ Least(e, at.maxHeight) = used
  <2> HIDE DEF at, e
  <2> QED
    BY <1>2, <1>3 DEF Least
<1> SUFFICES ASSUME Most(above, below) >= Least(80, e)
             PROVE  /\ at.top >= 0 /\ at.top + used <= win.height
                    /\ IF at.above THEN at.top + used <= win.top
                       ELSE at.top >= win.top + ControlHeight
  BY DEF InView
<1>6. CASE placeAbove
  <2>1. /\ at.above = TRUE
        /\ at.maxHeight = Most(80, Least(240, above))
        /\ at.top = Most(12, win.top - 7 - Least(e, at.maxHeight))
    BY <1>6 DEF PopupPosition, GAP, MAX_HEIGHT, VIEWPORT_GAP
  <2>2. used <= above
    <3>1. above > below
      BY <1>6
    <3> HIDE DEF at, e, above, below
    <3> QED
      BY <3>1, <2>1, <1>2, <1>3, <1>4, FitsAbove
  <2> HIDE DEF at, e, above, below, used
  <2>3. at.top >= 0 /\ at.top + used <= win.top /\ at.top + used <= win.height
    BY <1>1, <1>3, <1>4, <1>5, <2>1, <2>2 DEF Most
  <2> QED
    BY <2>1, <2>3
<1>7. CASE ~placeAbove
  <2>1. /\ at.above = FALSE
        /\ at.maxHeight = Most(80, Least(240, below))
        /\ at.top = win.top + ControlHeight + 7
    BY <1>7 DEF PopupPosition, GAP, MAX_HEIGHT, VIEWPORT_GAP
  <2>2. used <= below
    <3>1. ~(below < Least(e, 150) /\ above > below)
      BY <1>7
    <3> HIDE DEF at, e, above, below
    <3> QED
      BY <3>1, <2>1, <1>2, <1>3, <1>4, FitsBelow
  <2> HIDE DEF at, e, above, below, used
  <2>3. at.top >= 0 /\ at.top + used <= win.height /\ at.top >= win.top + ControlHeight
    BY <1>1, <1>3, <1>4, <1>5, <2>1, <2>2
  <2> QED
    BY <2>1, <2>3
<1> QED
  BY <1>6, <1>7

LEMMA PlaceType ==
  ASSUME window \in [height: Heights, top: Tops], options \in OptionLists
  PROVE  PopupPosition(window, Len(options)) \in [above: BOOLEAN, maxHeight: Int, top: Int]
<1>1. window.height \in Nat /\ window.top \in Nat /\ Len(options) \in Nat
  BY SelectAssumption
<1> QED
  BY <1>1, PositionType

\* The list is opened on an option that can be chosen.
LEMMA ShowInv ==
  ASSUME SelectInv, NEW i \in Enabled, Show(i)
  PROVE  SelectInv'
<1>1. i \in Nat
  BY EnabledIndexes DEF SelectInv
<1>2. PopupPosition(window, Len(options)) \in [above: BOOLEAN, maxHeight: Int, top: Int]
  BY PlaceType DEF SelectInv, SelectTypeOK
<1>3. select' = [open |-> TRUE, active |-> i, at |-> PopupPosition(window, Len(options))]
  BY DEF Show
<1>4. /\ select'.open = TRUE /\ select'.active = i
      /\ select'.at = PopupPosition(window, Len(options))
      /\ select' \in [open: BOOLEAN, active: Nat,
                      at: [above: BOOLEAN, maxHeight: Int, top: Int]]
  BY <1>1, <1>2, <1>3
<1>5. UNCHANGED <<options, value, window>> /\ replaced' = FALSE
  BY DEF Show
<1> QED
  BY <1>4, <1>5 DEF SelectInv, SelectTypeOK, Followed, Fits, Enabled

\* Keys and the pointer move the highlight of the open list.
LEMMA HighlightsInv ==
  ASSUME SelectInv, NEW i \in Enabled, Highlights(i), Stays
  PROVE  SelectInv'
<1>1. i \in Nat
  BY EnabledIndexes DEF SelectInv
<1>2. select' = [select EXCEPT !.active = i]
  BY DEF Highlights
<1>3. /\ select'.open = select.open /\ select'.active = i /\ select'.at = select.at
      /\ select' \in [open: BOOLEAN, active: Nat,
                      at: [above: BOOLEAN, maxHeight: Int, top: Int]]
  BY <1>1, <1>2 DEF SelectInv, SelectTypeOK
<1> QED
  BY <1>3 DEF SelectInv, SelectTypeOK, Followed, Fits, Stays, Enabled

\* A list without an option to choose is open only after the parent replaced the options.
LEMMA EmptyHighlightInv ==
  ASSUME SelectInv, select.open, Enabled = {}, Highlights(None), Stays
  PROVE  SelectInv'
<1>1. select' = [select EXCEPT !.active = 0]
  BY DEF Highlights, None
<1>2. /\ select'.open = select.open
      /\ select' \in [open: BOOLEAN, active: Nat,
                      at: [above: BOOLEAN, maxHeight: Int, top: Int]]
  BY <1>1 DEF SelectInv, SelectTypeOK
<1>3. replaced
  BY DEF SelectInv, SelectTypeOK, Followed
<1> QED
  BY <1>2, <1>3 DEF SelectInv, SelectTypeOK, Followed, Fits, Stays

\* The list is closed, with or without a choice.
LEMMA ClosesInv ==
  ASSUME SelectInv, select' = [select EXCEPT !.open = FALSE],
         UNCHANGED <<options, window, replaced>>, value' \in {o.value : o \in Option}
  PROVE  SelectInv'
<1>1. /\ select'.open = FALSE
      /\ select' \in [open: BOOLEAN, active: Nat,
                      at: [above: BOOLEAN, maxHeight: Int, top: Int]]
  BY DEF SelectInv, SelectTypeOK
<1> QED
  BY <1>1 DEF SelectInv, SelectTypeOK, Followed, Fits

-----------------------------------------------------------------------------
(* Whatever is highlighted can be chosen. *)

LEMMA EndsAreEnabled ==
  ASSUME SelectTypeOK, Enabled # {}
  PROVE  FirstOf(Enabled) \in Enabled /\ LastOf(Enabled) \in Enabled
BY EnabledIndexes, FirstAndLastAreThere

LEMMA ShowActiveIsEnabled ==
  ASSUME SelectTypeOK, Enabled # {}
  PROVE  ShowActive \in Enabled
BY EndsAreEnabled DEF ShowActive

LEMMA NextIsEnabled ==
  ASSUME SelectTypeOK, Enabled # {}, NEW i, NEW down \in BOOLEAN
  PROVE  NextEnabled(i, down) \in Enabled
<1> DEFINE after == {j \in Enabled : IF down THEN j > i ELSE j < i}
           pool == IF i \notin Enabled \/ after = {} THEN Enabled ELSE after
<1>1. pool # {} /\ pool \subseteq Enabled
  OBVIOUS
<1>2. pool \in SUBSET (1..Len(options)) /\ Len(options) \in Nat
  BY <1>1, EnabledIndexes
<1>3. FirstOf(pool) \in pool /\ LastOf(pool) \in pool
  BY <1>1, <1>2, FirstAndLastAreThere
<1> QED
  BY <1>1, <1>3 DEF NextEnabled

LEMMA FoundIsEnabled ==
  ASSUME SelectTypeOK, NEW letter, Matching(letter) # {}
  PROVE  Found(letter) \in Enabled
<1> DEFINE start == IF select.active \in Enabled THEN select.active ELSE None
           after == {i \in Matching(letter) : i > start}
<1>1. Matching(letter) \subseteq Enabled
  BY DEF Matching
<1>2. after \subseteq Matching(letter)
  OBVIOUS
<1>3. Matching(letter) \in SUBSET (1..Len(options)) /\ Len(options) \in Nat
  BY <1>1, EnabledIndexes
<1>4. FirstOf(Matching(letter)) \in Matching(letter)
  BY <1>3, FirstAndLastAreThere
<1>5. CASE after = {}
  BY <1>1, <1>4, <1>5 DEF Found
<1>6. CASE after # {}
  <2>1. FirstOf(after) \in after
    BY <1>2, <1>3, <1>6, FirstAndLastAreThere
  <2> QED
    BY <1>1, <1>2, <1>6, <2>1 DEF Found
<1> QED
  BY <1>5, <1>6

-----------------------------------------------------------------------------
(* The steps. *)

LEMMA SelectStepInv == SelectInv /\ [SelectNext]_selectVars => SelectInv'
<1> SUFFICES ASSUME SelectInv, [SelectNext]_selectVars PROVE SelectInv'
  OBVIOUS
<1>0. SelectTypeOK
  BY DEF SelectInv
<1>1. CASE Show(ShowActive)
  <2>1. Enabled # {}
    BY <1>1 DEF Show
  <2> QED
    BY <1>0, <1>1, <2>1, ShowActiveIsEnabled, ShowInv
<1>2. CASE HomeKey
  <2>1. CASE Enabled # {}
    BY <1>0, <1>2, <2>1, EndsAreEnabled, HighlightsInv DEF HomeKey
  <2>2. CASE Enabled = {}
    BY <1>2, <2>2, EmptyHighlightInv DEF HomeKey, FirstOf
  <2> QED
    BY <2>1, <2>2
<1>3. CASE EndKey
  <2>1. CASE Enabled # {}
    BY <1>0, <1>3, <2>1, EndsAreEnabled, HighlightsInv DEF EndKey
  <2>2. CASE Enabled = {}
    BY <1>3, <2>2, EmptyHighlightInv DEF EndKey, LastOf
  <2> QED
    BY <2>1, <2>2
<1>4. CASE CloseList
  BY <1>0, <1>4, ClosesInv DEF CloseList, Stays, SelectTypeOK
<1>5. ASSUME NEW down \in BOOLEAN, MoveKey(down) PROVE SelectInv'
  BY <1>0, <1>5, NextIsEnabled, HighlightsInv DEF MoveKey
<1>6. ASSUME NEW letter \in {o.letter : o \in Option}, LetterKey(letter) PROVE SelectInv'
  <2>1. Found(letter) \in Enabled
    BY <1>0, <1>6, FoundIsEnabled DEF LetterKey
  <2>2. CASE Highlights(Found(letter)) /\ Stays
    BY <2>1, <2>2, HighlightsInv
  <2>3. CASE Show(Found(letter))
    BY <2>1, <2>3, ShowInv
  <2> QED
    BY <1>6, <2>2, <2>3 DEF LetterKey
<1>7. ASSUME NEW i \in DOMAIN options, Hover(i) PROVE SelectInv'
  BY <1>7, HighlightsInv DEF Hover
<1>8. ASSUME NEW i \in DOMAIN options, Choose(i) PROVE SelectInv'
  <2>1. options[i] \in Option
    BY <1>0 DEF SelectTypeOK, Option
  <2> QED
    BY <1>8, <2>1, ClosesInv DEF Choose
<1>9. ASSUME NEW choices \in OptionLists, Replace(choices) PROVE SelectInv'
  <2>1. options' = choices /\ UNCHANGED <<value, select, window>>
        /\ replaced' = (replaced \/ select.open)
    BY <1>9 DEF Replace
  <2>2. SelectTypeOK' /\ Fits(window)'
    BY <2>1 DEF SelectInv, SelectTypeOK, Fits
  <2>3. ~(select'.open /\ ~replaced')
    BY <2>1
  <2> QED
    BY <2>2, <2>3 DEF SelectInv, Followed
<1>10. ASSUME NEW v \in {o.value : o \in Option}, ResetValue(v) PROVE SelectInv'
  BY <1>10 DEF SelectInv, SelectTypeOK, Followed, Fits, Enabled, ResetValue
<1>11. ASSUME NEW win \in [height: Heights, top: Tops], Scroll(win) PROVE SelectInv'
  <2>1. window' = win /\ Fits(window)' /\ UNCHANGED <<options, value, replaced>>
    BY <1>11 DEF Scroll, Fits
  <2>2. PopupPosition(win, Len(options)) \in [above: BOOLEAN, maxHeight: Int, top: Int]
    <3>1. win.height \in Nat /\ win.top \in Nat /\ Len(options) \in Nat
      BY SelectAssumption, <1>0 DEF SelectTypeOK
    <3> QED
      BY <3>1, PositionType
  <2>3. CASE select.open
    <3>1. select' = [select EXCEPT !.at = PopupPosition(win, Len(options))]
      BY <1>11, <2>3 DEF Scroll
    <3>2. /\ select'.open = select.open /\ select'.active = select.active
          /\ select'.at = PopupPosition(win, Len(options))
          /\ select' \in [open: BOOLEAN, active: Nat,
                          at: [above: BOOLEAN, maxHeight: Int, top: Int]]
      BY <1>0, <2>2, <3>1 DEF SelectTypeOK
    <3> QED
      BY <2>1, <3>2 DEF SelectInv, SelectTypeOK, Followed, Enabled
  <2>4. CASE ~select.open
    <3>1. select' = select
      BY <1>11, <2>4 DEF Scroll
    <3> QED
      BY <2>1, <2>4, <3>1 DEF SelectInv, SelectTypeOK, Followed
  <2> QED
    BY <2>3, <2>4
<1>12. CASE UNCHANGED selectVars
  BY <1>12 DEF SelectInv, SelectTypeOK, Followed, Fits, Enabled, selectVars
<1> QED
  BY <1>1, <1>2, <1>3, <1>4, <1>5, <1>6, <1>7, <1>8, <1>9, <1>10, <1>11, <1>12 DEF SelectNext

\* The list is opened on an option that can be chosen and stays there, however the keys, the
\* pointer, the window and the parent interleave, until the parent replaces the options.
THEOREM SelectInvariance == SelectSpec => []SelectInv
<1>1. SelectInit => SelectInv
  BY SelectInitInv
<1>2. SelectInv /\ [SelectNext]_selectVars => SelectInv'
  BY SelectStepInv
<1> QED
  BY <1>1, <1>2, PTL DEF SelectSpec

\* Enter on an open list always chooses something, for any options.
THEOREM EnterChooses == SelectSpec => []HighlightUsable
<1>1. SelectInv => HighlightUsable
  BY DEF SelectInv, Followed, HighlightUsable
<1> QED
  BY <1>1, SelectInvariance, PTL

\* The open list neither leaves the window nor covers its control, wherever one of its two
\* sides has room for it or for 80 pixels - until the options are replaced under it.
THEOREM PopupStaysInView == SelectSpec => []PopupInView
<1>1. SelectInv => PopupInView
  <2> SUFFICES ASSUME SelectInv PROVE PopupInView
    OBVIOUS
  <2>1. /\ window.height \in Nat /\ window.top \in Nat /\ Len(options) \in Nat
        /\ window.top + ControlHeight <= window.height
    BY SelectAssumption DEF SelectInv, SelectTypeOK, Fits
  <2>2. select.open /\ ~replaced => select.at = PopupPosition(window, Len(options))
    BY DEF SelectInv, Followed
  <2> QED
    BY <2>1, <2>2, PlaceInView DEF PopupInView, InView
<1> QED
  BY <1>1, SelectInvariance, PTL

-----------------------------------------------------------------------------
(* The mark "copied" *)

\* The mark, the timer and the time since the last copy keep together: CopiedLasts is
\* inductive as it stands.
CopyInv == CopyTypeOK /\ CopiedLasts

\* What CopiedLasts says of one button.
Lasts(w) ==
  /\ w \in marked <=> w \in onScreen /\ since[w] < Duration
  /\ timers[w] = IF since[w] < Duration THEN {Duration - since[w]} ELSE {}

LEMMA CopyStarts == CopyInit => CopyInv
<1> SUFFICES ASSUME CopyInit PROVE CopyInv
  OBVIOUS
<1>1. Duration \in Nat \ {0} /\ MaxCopies \in Nat /\ Restarts \subseteq Widget
  BY CopyAssumption
<1>2. CopyTypeOK
  BY <1>1 DEF CopyInit, CopyTypeOK
<1>3. CopiedLasts
  BY <1>1 DEF CopyInit, CopiedLasts
<1> QED
  BY <1>2, <1>3 DEF CopyInv

\* A step of one button: the others keep what they have.
LEMMA OneButton ==
  ASSUME CopiedLasts, NEW w \in Widget, w \in Restarts => Lasts(w)',
         \A v \in Widget \ {w} : timers'[v] = timers[v] /\ since'[v] = since[v],
         \A v \in Widget \ {w} : v \in marked' <=> v \in marked,
         \A v \in Widget \ {w} : v \in onScreen' <=> v \in onScreen
  PROVE  CopiedLasts'
<1>1. ASSUME NEW v \in Restarts
      PROVE  Lasts(v)'
  <2>1. CASE v = w
    BY <2>1
  <2>2. CASE v # w
    <3>1. Lasts(v) /\ v \in Widget \ {w}
      BY <2>2, CopyAssumption DEF CopiedLasts, Lasts
    <3> QED
      BY <3>1 DEF Lasts
  <2> QED
    BY <2>1, <2>2
<1> QED
  BY <1>1 DEF CopiedLasts, Lasts

\* Time that passes: the timer of the last copy runs down with the mark.
LEMMA TickLasts ==
  ASSUME CopyTypeOK, Tick, NEW w \in Widget, Lasts(w)
  PROVE  Lasts(w)'
<1>1. /\ timers'[w] = {t - 1 : t \in timers[w] \ {1}}
      /\ since'[w] = IF since[w] < Duration THEN since[w] + 1 ELSE since[w]
      /\ (w \in marked' <=> w \in marked /\ 1 \notin timers[w])
      /\ (w \in onScreen' <=> w \in onScreen)
  BY DEF Tick
<1>2. since[w] \in 0..Duration /\ Duration \in Nat \ {0}
  BY CopyAssumption DEF CopyTypeOK
<1>3. CASE since[w] < Duration
  <2>1. timers[w] = {Duration - since[w]} /\ since'[w] = since[w] + 1
        /\ (w \in marked <=> w \in onScreen)
    BY <1>1, <1>3 DEF Lasts
  <2>2. CASE since[w] + 1 < Duration
    <3>1. 1 \notin timers[w] /\ timers'[w] = {Duration - (since[w] + 1)}
      BY <1>1, <1>2, <2>1, <2>2
    <3> QED
      BY <1>1, <2>1, <2>2, <3>1 DEF Lasts
  <2>3. CASE ~(since[w] + 1 < Duration)
    <3>1. timers[w] = {1}
      BY <1>2, <1>3, <2>1, <2>3
    <3>2. timers'[w] = {}
      BY <1>1, <3>1
    <3> QED
      BY <1>1, <2>1, <2>3, <3>1, <3>2 DEF Lasts
  <2> QED
    BY <2>2, <2>3
<1>4. CASE ~(since[w] < Duration)
  <2>1. timers[w] = {} /\ since'[w] = since[w] /\ w \notin marked
    BY <1>1, <1>4 DEF Lasts
  <2> QED
    BY <1>1, <1>4, <2>1 DEF Lasts
<1> QED
  BY <1>3, <1>4

\* The types after every step.
LEMMA CopyTypes ==
  ASSUME CopyTypeOK, [CopyNext]_copyVars
  PROVE  CopyTypeOK'
<1>1. Duration \in Nat \ {0} /\ MaxCopies \in Nat /\ Duration \in 1..Duration
  BY CopyAssumption
<1>2. CASE Tick
  <2>1. timers' \in [Widget -> SUBSET (1..Duration)]
    <3>1. ASSUME NEW w \in Widget
          PROVE  {t - 1 : t \in timers[w] \ {1}} \subseteq 1..Duration
      <4>1. timers[w] \subseteq 1..Duration
        BY DEF CopyTypeOK
      <4> QED
        BY <1>1, <4>1
    <3> QED
      BY <1>2, <3>1 DEF Tick
  <2>2. since' \in [Widget -> 0..Duration]
    BY <1>1, <1>2 DEF Tick, CopyTypeOK
  <2> QED
    BY <1>2, <2>1, <2>2 DEF Tick, CopyTypeOK
<1>3. ASSUME NEW w \in Widget, PressCopy(w)
      PROVE  CopyTypeOK'
  BY <1>1, <1>3 DEF PressCopy, CopyTypeOK
<1>4. ASSUME NEW w \in Widget, Copied(w)
      PROVE  CopyTypeOK'
  <2>1. timers' \in [Widget -> SUBSET (1..Duration)]
    BY <1>1, <1>4 DEF Copied, StartsTimer, CopyTypeOK
  <2>2. writing' \in [Widget -> Nat] /\ since' \in [Widget -> 0..Duration]
    BY <1>1, <1>4 DEF Copied, CopyTypeOK
  <2> QED
    BY <1>4, <2>1, <2>2 DEF Copied, CopyTypeOK
<1>5. ASSUME NEW w \in Widget, CopyFails(w)
      PROVE  CopyTypeOK'
  BY <1>1, <1>5 DEF CopyFails, CopyTypeOK
<1>6. ASSUME NEW w \in Widget, Unmount(w)
      PROVE  CopyTypeOK'
  <2>1. since' \in [Widget -> 0..Duration]
    BY <1>1, <1>6 DEF Unmount, CopyTypeOK
  <2>2. timers' \in [Widget -> SUBSET (1..Duration)]
    BY <1>6 DEF Unmount, CopyTypeOK
  <2> QED
    BY <1>6, <2>1, <2>2 DEF Unmount, CopyTypeOK
<1>7. CASE UNCHANGED copyVars
  BY <1>7 DEF copyVars, CopyTypeOK
<1> QED
  BY <1>2, <1>3, <1>4, <1>5, <1>6, <1>7 DEF CopyNext

LEMMA CopySteps ==
  ASSUME CopyInv, [CopyNext]_copyVars
  PROVE  CopyInv'
<1>1. CopyTypeOK /\ CopiedLasts
  BY DEF CopyInv
<1>2. CopyTypeOK'
  BY <1>1, CopyTypes
<1>3. CASE Tick
  <2>1. ASSUME NEW w \in Restarts PROVE Lasts(w)'
    BY <1>1, <1>3, TickLasts, CopyAssumption DEF CopiedLasts, Lasts
  <2> QED
    BY <1>2, <2>1 DEF CopyInv, CopiedLasts, Lasts
<1>4. ASSUME NEW w \in Widget, PressCopy(w) \/ CopyFails(w)
      PROVE  CopiedLasts'
  BY <1>1, <1>4 DEF PressCopy, CopyFails, CopiedLasts
<1>5. ASSUME NEW w \in Widget, Copied(w)
      PROVE  CopiedLasts'
  <2>1. /\ timers \in [Widget -> SUBSET (1..Duration)] /\ since \in [Widget -> 0..Duration]
        /\ Duration \in Nat \ {0}
    BY <1>1, CopyAssumption DEF CopyTypeOK
  <2>2. /\ since'[w] = 0 /\ (w \in Restarts => timers'[w] = {Duration})
        /\ \A v \in Widget \ {w} : timers'[v] = timers[v] /\ since'[v] = since[v]
    BY <1>5, <2>1 DEF Copied, StartsTimer
  <2>3. /\ (w \in marked' <=> w \in marked \/ w \in onScreen)
        /\ \A v \in Widget \ {w} : v \in marked' <=> v \in marked
        /\ onScreen' = onScreen
    BY <1>5 DEF Copied
  <2>4. 0 < Duration /\ Duration - 0 = Duration
    BY <2>1
  <2>5. w \in Restarts => Lasts(w)'
    BY <1>1, <2>2, <2>3, <2>4 DEF Lasts, CopyTypeOK
  <2> QED
    BY <1>1, <2>2, <2>3, <2>5, OneButton
<1>6. ASSUME NEW w \in Widget, Unmount(w)
      PROVE  CopiedLasts'
  <2>1. /\ timers \in [Widget -> SUBSET (1..Duration)] /\ since \in [Widget -> 0..Duration]
        /\ Duration \in Nat \ {0}
    BY <1>1, CopyAssumption DEF CopyTypeOK
  <2>2. /\ since'[w] = Duration /\ (w \in Restarts => timers'[w] = {})
        /\ \A v \in Widget \ {w} : timers'[v] = timers[v] /\ since'[v] = since[v]
    BY <1>6, <2>1 DEF Unmount
  <2>3. /\ w \notin marked' /\ w \notin onScreen'
        /\ \A v \in Widget \ {w} : v \in marked' <=> v \in marked
        /\ \A v \in Widget \ {w} : v \in onScreen' <=> v \in onScreen
    BY <1>6 DEF Unmount
  <2>4. ~(Duration < Duration)
    BY <2>1
  <2>5. w \in Restarts => Lasts(w)'
    BY <2>2, <2>3, <2>4 DEF Lasts
  <2> QED
    BY <1>1, <2>2, <2>3, <2>5, OneButton
<1>7. CASE UNCHANGED copyVars
  BY <1>1, <1>2, <1>7 DEF copyVars, CopiedLasts, CopyInv
<1> QED
  BY <1>2, <1>3, <1>4, <1>5, <1>6, <1>7 DEF CopyNext, CopyInv

\* The mark, its timer and the time since the last copy keep together (CopyButton,
\* CopyUserIdButton), also when the button leaves while copies of it are under way.
THEOREM CopyInvariance == CopySpec => []CopyInv
BY CopyStarts, CopySteps, PTL DEF CopySpec

\* Where the timers are cleared, the mark stays its full time after the last copy, for any
\* duration and number of copies that overlap; after the button has left a timer runs only
\* for a copy that ended later.
THEOREM MarkLastsItsTime == CopySpec => []CopiedLasts
<1>1. CopyInv => CopiedLasts
  BY DEF CopyInv
<1> QED
  BY <1>1, CopyInvariance, PTL

-----------------------------------------------------------------------------
(* The page of users *)

RowState == Row \cup {NoRow}
ListState ==
  [data: [Person -> RowState] \cup {NoList}, failed: BOOLEAN, fetch: {"idle", "sent", "answered"},
   snapshot: [Person -> RowState] \cup {NoList}, behind: BOOLEAN]
DialogState == [kind: Kind \cup {"closed"}, user: Person, row: RowState, busy: {0} \cup Slot]
CallState ==
  {Free} \cup [phase: {"sent"}, kind: Kind, user: Person, row: RowState, typed: BOOLEAN]
         \cup [phase: {"succeeded", "failed", "refreshing", "leaving"}, kind: Kind, user: Person]

VisitState == [shown: BOOLEAN, session: BOOLEAN]

UsersTypes ==
  /\ rows \in [Person -> RowState] /\ visit \in VisitState
  /\ list \in ListState /\ dialog \in DialogState /\ calls \in [Slot -> CallState]

\* What is saved is a row, and a dialog waits only for a request of its own kind.
CallsSound ==
  /\ \A i \in Slot : calls[i].phase = "sent" /\ calls[i].kind \in {"create", "edit"} =>
       calls[i].row \in Row
  /\ dialog.busy # 0 => calls[dialog.busy] # Free /\ calls[dialog.busy].kind = dialog.kind

\* A save that has succeeded and has not refreshed the list yet.
Unseen(c) == c.phase = "succeeded" /\ c.kind # "reset"

\* What has been read of the server is what is there, unless somebody else has changed it,
\* or a save is still to refresh the list.
ListCurrent ==
  ~list.behind /\ (\A i \in Slot : ~Unseen(calls[i])) =>
    /\ list.fetch = "answered" => list.snapshot = rows
    /\ list.fetch = "idle" /\ ~list.failed => list.data = rows

UsersInv == UsersTypes /\ CallsSound /\ ListCurrent

LEMMA RowTypes ==
  /\ NewRow \in Row /\ NewRow \in RowState /\ NoRow \in RowState
  /\ Closed \in DialogState /\ Closed.busy = 0 /\ Closed.kind = "closed"
  /\ Free \in CallState /\ Free.phase = "free"
<1>1. NewRow \in Row
  BY UsersPageAssumption DEF NewRow, Row
<1>2. NoRow \in RowState
  BY DEF RowState
<1> QED
  BY <1>1, <1>2, UsersPageAssumption DEF RowState, Closed, DialogState, Free, CallState

LEMMA CallCases ==
  ASSUME NEW c \in CallState
  PROVE  /\ c.phase \in {"free", "sent", "succeeded", "failed", "refreshing", "leaving"}
         /\ c.phase = "free" <=> c = Free
         /\ c.phase # "free" => c.kind \in Kind /\ c.user \in Person
BY DEF CallState, Free

LEMMA UsersStart == UsersInit => UsersInv
<1> SUFFICES ASSUME UsersInit PROVE UsersInv
  OBVIOUS
<1>1. /\ list = [data |-> NoList, failed |-> FALSE, fetch |-> "sent", snapshot |-> NoList, behind |-> FALSE]
      /\ visit \in VisitState /\ dialog = Closed /\ calls = [i \in Slot |-> Free]
  BY DEF UsersInit, VisitState
<1>2. rows \in [Person -> RowState]
  BY RowTypes DEF UsersInit
<1>3. list \in ListState /\ list.fetch = "sent"
  BY <1>1 DEF ListState
<1>4. UsersTypes
  BY <1>1, <1>2, <1>3, RowTypes DEF UsersTypes
<1>5. CallsSound
  BY <1>1, RowTypes DEF CallsSound
<1>6. ListCurrent
  BY <1>3 DEF ListCurrent
<1> QED
  BY <1>4, <1>5, <1>6 DEF UsersInv

\* invalidateQueries: what is shown or delivered afterwards has seen the server of now.
LEMMA InvalidatedList ==
  ASSUME UsersInv
  PROVE  /\ Invalidated \in ListState
         /\ Invalidated.fetch = "sent" \/ Invalidated.behind = TRUE
BY DEF UsersInv, UsersTypes, ListState, Invalidated

\* The list moves, and nothing else: to a request, to a failure, to an answer that is the
\* server of now, or to the arrival of one.
ListMoved ==
  \/ list'.fetch = "sent"
  \/ list'.fetch = "idle" /\ list'.failed
  \/ list'.fetch = "answered" /\ list'.snapshot = rows
  \/ /\ list'.fetch = "idle" /\ list'.data = list.snapshot
     /\ list.fetch = "answered" /\ list'.behind = list.behind

LEMMA ListMoves ==
  ASSUME UsersInv, list' \in ListState, UNCHANGED <<rows, visit, dialog, calls>>, ListMoved
  PROVE  UsersInv'
<1>1. UsersTypes'
  BY DEF UsersInv, UsersTypes
<1>2. CallsSound'
  BY DEF UsersInv, CallsSound
<1>3. ListCurrent'
  BY DEF UsersInv, ListCurrent, Unseen, ListMoved
<1> QED
  BY <1>1, <1>2, <1>3 DEF UsersInv

\* The list and the server stay, and no save is forgotten.
LEMMA ListStays ==
  ASSUME ListCurrent, UNCHANGED <<rows, list>>,
         \A i \in Slot : Unseen(calls[i]) => Unseen(calls'[i])
  PROVE  ListCurrent'
BY DEF ListCurrent, Unseen

LEMMA ServeListKeeps == UsersInv /\ ServeList => UsersInv'
<1> SUFFICES ASSUME UsersInv, ServeList PROVE UsersInv'
  OBVIOUS
<1>1. /\ list' \in ListState
      /\ \/ list'.fetch = "answered" /\ list'.snapshot = rows
         \/ list'.fetch = "idle" /\ list'.failed = TRUE
  BY DEF UsersInv, UsersTypes, ListState, ServeList, ListFails
<1>2. UNCHANGED <<rows, visit, dialog, calls>>
  BY DEF ServeList
<1> QED
  BY <1>1, <1>2, ListMoves DEF ListMoved

LEMMA ListArrivesKeeps == UsersInv /\ ListArrives => UsersInv'
<1> SUFFICES ASSUME UsersInv, ListArrives PROVE UsersInv'
  OBVIOUS
<1>1. /\ list' \in ListState /\ list'.fetch = "idle" /\ list'.data = list.snapshot
      /\ list'.behind = list.behind /\ list.fetch = "answered"
  BY DEF UsersInv, UsersTypes, ListState, ListArrives
<1>2. UNCHANGED <<rows, visit, dialog, calls>>
  BY DEF ListArrives
<1> QED
  BY <1>1, <1>2, ListMoves DEF ListMoved

LEMMA ListLostKeeps == UsersInv /\ ListLost => UsersInv'
<1> SUFFICES ASSUME UsersInv, ListLost PROVE UsersInv'
  OBVIOUS
<1>1. list' \in ListState /\ list'.fetch = "idle" /\ list'.failed = TRUE
  BY DEF UsersInv, UsersTypes, ListState, ListLost, ListFails
<1>2. UNCHANGED <<rows, visit, dialog, calls>>
  BY DEF ListLost
<1> QED
  BY <1>1, <1>2, ListMoves DEF ListMoved

LEMMA RetryListKeeps == UsersInv /\ RetryList => UsersInv'
<1> SUFFICES ASSUME UsersInv, RetryList PROVE UsersInv'
  OBVIOUS
<1>1. list' \in ListState /\ list'.fetch = "sent"
  BY DEF UsersInv, UsersTypes, ListState, RetryList
<1>2. UNCHANGED <<rows, visit, dialog, calls>>
  BY DEF RetryList
<1> QED
  BY <1>1, <1>2, ListMoves DEF ListMoved

LEMMA OpensKeeps ==
  ASSUME UsersInv, NEW k \in Kind, NEW p \in Person, NEW r \in RowState, Opens(k, p, r)
  PROVE  UsersInv'
<1>1. dialog' = [kind |-> k, user |-> p, row |-> r, busy |-> 0]
  BY DEF Opens, Closed
<1>2. UNCHANGED <<rows, visit, list, calls>>
  BY DEF Opens
<1>3. UsersTypes'
  BY <1>1, <1>2 DEF UsersInv, UsersTypes, DialogState
<1>4. CallsSound'
  BY <1>1, <1>2 DEF UsersInv, CallsSound
<1>5. ListCurrent'
  BY <1>2, ListStays DEF UsersInv
<1> QED
  BY <1>3, <1>4, <1>5 DEF UsersInv

LEMMA OpenCreateKeeps == UsersInv /\ OpenCreate => UsersInv'
BY OpensKeeps, RowTypes, UsersPageAssumption DEF OpenCreate, Kind

\* What the buttons of the table hand over is a row.
LEMMA OpenShownKeeps ==
  ASSUME UsersInv, NEW p \in Person, OpenEdit(p) \/ OpenReset(p) \/ OpenDelete(p)
  PROVE  UsersInv'
<1>1. CASE OpenEdit(p)
  <2>1. list.data # NoList
    BY <1>1 DEF OpenEdit, Shown
  <2>2. list.data \in [Person -> RowState]
    BY <2>1 DEF UsersInv, UsersTypes, ListState
  <2>3. list.data[p] \in RowState /\ Opens("edit", p, list.data[p])
    BY <1>1, <2>2 DEF OpenEdit
  <2> QED
    BY <2>3, OpensKeeps DEF Kind
<1>2. CASE OpenReset(p)
  BY <1>2, OpensKeeps, RowTypes DEF OpenReset, Kind
<1>3. CASE OpenDelete(p)
  BY <1>3, OpensKeeps, RowTypes DEF OpenDelete, Kind
<1> QED
  BY <1>1, <1>2, <1>3

LEMMA CloseDialogKeeps == UsersInv /\ CloseDialog => UsersInv'
<1> SUFFICES ASSUME UsersInv, CloseDialog PROVE UsersInv'
  OBVIOUS
<1>1. dialog' = Closed /\ UNCHANGED <<rows, visit, list, calls>>
  BY DEF CloseDialog
<1>2. UsersTypes'
  BY <1>1, RowTypes DEF UsersInv, UsersTypes
<1>3. CallsSound'
  BY <1>1, RowTypes DEF UsersInv, CallsSound
<1>4. ListCurrent'
  BY <1>1, ListStays DEF UsersInv
<1> QED
  BY <1>2, <1>3, <1>4 DEF UsersInv

LEMMA SubmitsKeeps ==
  ASSUME UsersInv, NEW p \in Person, NEW r \in RowState, NEW t \in BOOLEAN,
         dialog.kind \in Kind, dialog.kind \in {"create", "edit"} => r \in Row, Submits(p, r, t)
  PROVE  UsersInv'
<1>1. PICK i \in Slot : /\ calls[i] = Free
                       /\ calls' = [calls EXCEPT ![i] = Running(dialog.kind, p, r, t)]
                       /\ dialog' = [dialog EXCEPT !.busy = i]
  BY DEF Submits
<1>2. UNCHANGED <<rows, visit, list>>
  BY DEF Submits
<1>3. dialog \in DialogState /\ calls \in [Slot -> CallState]
  BY DEF UsersInv, UsersTypes
<1> DEFINE c == Running(dialog.kind, p, r, t)
<1>4. /\ c \in CallState /\ c.phase = "sent" /\ c.kind = dialog.kind /\ c.row = r
  BY DEF Running, CallState
<1>5. c # Free /\ ~Unseen(c)
  BY <1>4, RowTypes DEF Unseen
<1>6. calls' = [calls EXCEPT ![i] = c]
  BY <1>1
<1> HIDE DEF c
<1>7. dialog' \in DialogState /\ dialog'.busy = i /\ dialog'.kind = dialog.kind
  BY <1>1, <1>3 DEF DialogState
<1>8. UsersTypes'
  BY <1>2, <1>3, <1>4, <1>6, <1>7 DEF UsersInv, UsersTypes
<1>9. \A j \in Slot : calls'[j] = IF j = i THEN c ELSE calls[j]
  BY <1>3, <1>6
<1>10. CallsSound'
  BY <1>4, <1>5, <1>7, <1>9 DEF UsersInv, CallsSound
<1>11. ListCurrent'
  BY <1>1, <1>2, <1>9, ListStays, RowTypes DEF UsersInv, Unseen
<1> QED
  BY <1>8, <1>10, <1>11 DEF UsersInv

LEMMA SavesKeep ==
  ASSUME UsersInv, SaveCreate \/ SaveEdit \/ SavePassword \/ ConfirmDelete
  PROVE  UsersInv'
<1>1. dialog \in DialogState
  BY DEF UsersInv, UsersTypes
<1>2. dialog.user \in Person
  BY <1>1 DEF DialogState
<1>3. CASE SaveCreate
  BY <1>3, SubmitsKeeps, RowTypes, UsersPageAssumption DEF SaveCreate, Kind
<1>4. CASE SaveEdit
  <2>1. PICK row \in Row : Submits(dialog.user, row, row.balance # dialog.row.balance)
    BY <1>4 DEF SaveEdit
  <2>2. dialog.kind = "edit" /\ row \in RowState
    BY <1>4 DEF SaveEdit, RowState
  <2> DEFINE t == row.balance # dialog.row.balance
  <2>3. t \in BOOLEAN /\ Submits(dialog.user, row, t)
    BY <2>1
  <2> HIDE DEF t
  <2> QED
    BY <1>2, <2>2, <2>3, SubmitsKeeps DEF Kind
<1>5. CASE SavePassword
  BY <1>2, <1>5, SubmitsKeeps, RowTypes DEF SavePassword, Kind
<1>6. CASE ConfirmDelete
  BY <1>2, <1>6, SubmitsKeeps, RowTypes DEF ConfirmDelete, Kind
<1> QED
  BY <1>3, <1>4, <1>5, <1>6

\* A request moves on from being sent, for the same user and the dialog that waits for it.
LEMMA CallMoves ==
  ASSUME UsersInv, NEW i \in Slot, NEW c \in CallState, calls[i] # Free,
         calls' = [calls EXCEPT ![i] = c], c # Free, c.phase # "sent", c.kind = calls[i].kind,
         dialog' \in DialogState, dialog'.busy # 0 => dialog' = dialog,
         visit' \in VisitState, rows' \in [Person -> RowState], list' \in ListState
  PROVE  /\ UsersTypes' /\ CallsSound'
         /\ \A j \in Slot : calls'[j] = IF j = i THEN c ELSE calls[j]
<1>1. calls \in [Slot -> CallState]
  BY DEF UsersInv, UsersTypes
<1>2. \A j \in Slot : calls'[j] = IF j = i THEN c ELSE calls[j]
  BY <1>1
<1>3. UsersTypes'
  BY <1>1 DEF UsersInv, UsersTypes
<1>4. CallsSound'
  <2>1. dialog.busy \in {0} \cup Slot
    BY DEF UsersInv, UsersTypes, DialogState
  <2> QED
    BY <1>2, <2>1 DEF UsersInv, CallsSound
<1> QED
  BY <1>2, <1>3, <1>4

\* What Answered writes.
LEMMA AnsweredCalls ==
  ASSUME UsersInv, NEW i \in Slot, NEW ok \in BOOLEAN, calls[i] # Free, Answered(i, ok)
  PROVE  \E c \in CallState : /\ calls' = [calls EXCEPT ![i] = c]
                             /\ c # Free /\ c.kind = calls[i].kind
                             /\ c.phase = IF ok THEN "succeeded" ELSE "failed"
<1> DEFINE c == [phase |-> IF ok THEN "succeeded" ELSE "failed",
                 kind |-> calls[i].kind, user |-> calls[i].user]
<1>1. calls[i] \in CallState /\ calls[i].kind \in Kind /\ calls[i].user \in Person
  <2>1. calls \in [Slot -> CallState]
    BY DEF UsersInv, UsersTypes
  <2> QED
    BY <2>1, CallCases
<1>2. c \in CallState
  BY <1>1 DEF CallState
<1>3. c.phase = IF ok THEN "succeeded" ELSE "failed"
  OBVIOUS
<1>4. c # Free
  BY <1>3, RowTypes
<1>5. calls' = [calls EXCEPT ![i] = c]
  <2>1. calls \in [Slot -> CallState]
    BY DEF UsersInv, UsersTypes
  <2> QED
    BY <2>1 DEF Answered
<1> QED
  BY <1>2, <1>3, <1>4, <1>5

\* The server serves a request: its answer is still to be seen, or nothing has changed.
LEMMA ServedKeeps ==
  ASSUME UsersInv, NEW i \in Slot, NEW ok \in BOOLEAN, calls[i].phase = "sent", Answered(i, ok),
         UNCHANGED <<list, dialog>>, visit' \in VisitState, rows' \in [Person -> RowState],
         ok = FALSE \/ calls[i].kind = "reset" => rows' = rows
  PROVE  UsersInv'
<1>1. calls[i] # Free
  BY RowTypes
<1>2. PICK c \in CallState : /\ calls' = [calls EXCEPT ![i] = c]
                            /\ c # Free /\ c.kind = calls[i].kind
                            /\ c.phase = IF ok THEN "succeeded" ELSE "failed"
  BY <1>1, AnsweredCalls
<1>3. list' \in ListState /\ dialog' \in DialogState /\ dialog' = dialog /\ c.phase # "sent"
  BY <1>2 DEF UsersInv, UsersTypes
<1>4. /\ UsersTypes' /\ CallsSound'
      /\ \A j \in Slot : calls'[j] = IF j = i THEN c ELSE calls[j]
  BY <1>1, <1>2, <1>3, CallMoves
<1>5. ListCurrent'
  <2>1. CASE rows' = rows
    BY <1>4, <2>1, ListStays DEF UsersInv, Unseen
  <2>2. CASE rows' # rows
    <3>1. ok /\ c.kind # "reset"
      BY <1>2, <2>2
    <3>2. c.phase = "succeeded"
      BY <1>2, <3>1
    <3>3. calls'[i] = c
      BY <1>4
    <3> QED
      BY <3>1, <3>2, <3>3 DEF ListCurrent, Unseen
  <2> QED
    BY <2>1, <2>2
<1> QED
  BY <1>4, <1>5 DEF UsersInv

LEMMA ServeKeeps ==
  ASSUME UsersInv, NEW i \in Slot, Serve(i)
  PROVE  UsersInv'
<1>1. /\ calls[i].phase = "sent" /\ UNCHANGED <<list, dialog>>
      /\ rows \in [Person -> RowState] /\ visit' \in VisitState
  BY DEF Serve, UsersInv, UsersTypes, VisitState
<1>2. /\ calls[i].kind \in Kind /\ calls[i].user \in Person
      /\ calls[i].kind \in {"create", "edit"} => calls[i].row \in Row
  <2>1. calls[i] \in CallState
    BY DEF UsersInv, UsersTypes
  <2> QED
    BY <1>1, <2>1, CallCases DEF UsersInv, CallsSound
<1>3. CASE \E p \in Person : /\ calls[i].kind = "create"
                            /\ rows' = [rows EXCEPT ![p] = calls[i].row] /\ Answered(i, TRUE)
  <2>1. PICK p \in Person : rows' = [rows EXCEPT ![p] = calls[i].row]
    BY <1>3
  <2>2. calls[i].row \in RowState
    BY <1>2, <1>3 DEF RowState
  <2>3. rows' \in [Person -> RowState]
    BY <1>1, <2>1, <2>2
  <2> QED
    BY <1>1, <1>3, <2>3, ServedKeeps
<1>4. CASE \E s \in {calls[i].row.status, "blocked"} :
             /\ calls[i].kind = "edit"
             /\ rows' = [rows EXCEPT ![calls[i].user] = [calls[i].row EXCEPT !.status = s]]
             /\ Answered(i, TRUE)
  <2>1. PICK s \in {calls[i].row.status, "blocked"} :
             rows' = [rows EXCEPT ![calls[i].user] = [calls[i].row EXCEPT !.status = s]]
    BY <1>4
  <2> DEFINE r == [calls[i].row EXCEPT !.status = s]
  <2>2. r \in RowState
    BY <1>2, <1>4, <2>1 DEF RowState, Row
  <2>3. rows' = [rows EXCEPT ![calls[i].user] = r]
    BY <2>1
  <2> HIDE DEF r
  <2>4. rows' \in [Person -> RowState]
    BY <1>1, <1>2, <2>2, <2>3
  <2> QED
    BY <1>1, <1>4, <2>4, ServedKeeps
<1>5. CASE /\ calls[i].kind = "delete" /\ rows' = [rows EXCEPT ![calls[i].user] = NoRow]
           /\ Answered(i, TRUE)
  <2>1. rows' \in [Person -> RowState]
    BY <1>1, <1>2, <1>5, RowTypes
  <2> QED
    BY <1>1, <1>5, <2>1, ServedKeeps
<1>6. CASE Answered(i, TRUE) /\ UNCHANGED rows
  BY <1>1, <1>6, ServedKeeps
<1>7. CASE Answered(i, FALSE) /\ UNCHANGED rows
  BY <1>1, <1>7, ServedKeeps
<1> QED
  BY <1>3, <1>4, <1>5, <1>6, <1>7 DEF Serve

LEMMA LoseCallKeeps ==
  ASSUME UsersInv, NEW i \in Slot, LoseCall(i)
  PROVE  UsersInv'
<1>1. /\ calls[i].phase \in {"sent", "succeeded"} /\ Answered(i, FALSE)
      /\ list' = [list EXCEPT !.behind = list.behind \/ calls[i].phase = "succeeded"]
      /\ UNCHANGED <<rows, visit, dialog>>
  BY DEF LoseCall, UsersInv, UsersTypes, ListState
<1>2. calls[i] # Free
  BY <1>1, RowTypes
<1>3. PICK c \in CallState : /\ calls' = [calls EXCEPT ![i] = c]
                            /\ c # Free /\ c.kind = calls[i].kind /\ c.phase = "failed"
  <2> DEFINE ok == FALSE
  <2>1. ok \in BOOLEAN /\ Answered(i, ok) /\ ~ok
    BY <1>1
  <2> HIDE DEF ok
  <2> QED
    BY <1>2, <2>1, AnsweredCalls
<1>4. /\ list' \in ListState /\ list'.fetch = list.fetch /\ list'.snapshot = list.snapshot
      /\ list'.data = list.data /\ (list'.failed <=> list.failed)
      /\ list'.behind <=> (list.behind \/ calls[i].phase = "succeeded")
  BY <1>1 DEF UsersInv, UsersTypes, ListState
<1>5. /\ rows' \in [Person -> RowState] /\ visit' \in VisitState
      /\ dialog' \in DialogState /\ dialog' = dialog
  BY <1>1 DEF UsersInv, UsersTypes
<1>6. /\ UsersTypes' /\ CallsSound'
      /\ \A j \in Slot : calls'[j] = IF j = i THEN c ELSE calls[j]
  BY <1>1, <1>2, <1>3, <1>4, <1>5, CallMoves
<1>7. ListCurrent'
  <2>1. rows' = rows
    BY <1>1
  <2> QED
    BY <1>1, <1>3, <1>4, <1>6, <2>1 DEF UsersInv, ListCurrent, Unseen
<1> QED
  BY <1>6, <1>7 DEF UsersInv

LEMMA RefreshesKeeps ==
  ASSUME UsersInv, NEW i \in Slot, Refreshes(i)
  PROVE  UsersInv'
<1>1. /\ calls[i].phase = "succeeded" /\ calls[i].kind # "reset"
      /\ calls' = [calls EXCEPT ![i].phase = "refreshing"]
      /\ list' = Invalidated /\ UNCHANGED <<rows, visit, dialog>>
  BY DEF Refreshes
<1>2. calls \in [Slot -> CallState] /\ calls[i] \in CallState /\ calls[i] # Free
  BY <1>1, RowTypes DEF UsersInv, UsersTypes
<1>3. calls[i] \in [phase: {"succeeded", "failed", "refreshing", "leaving"}, kind: Kind, user: Person]
  BY <1>1, <1>2 DEF CallState
<1> DEFINE c == [calls[i] EXCEPT !.phase = "refreshing"]
<1>4. c \in CallState /\ c.phase = "refreshing" /\ c.kind = calls[i].kind
  BY <1>3 DEF CallState
<1>5. c # Free /\ calls' = [calls EXCEPT ![i] = c]
  BY <1>1, <1>2, <1>4, RowTypes
<1> HIDE DEF c
<1>6. list' \in ListState /\ (list'.fetch = "sent" \/ list'.behind = TRUE)
  BY <1>1, InvalidatedList
<1>7. /\ rows' \in [Person -> RowState] /\ visit' \in VisitState
      /\ dialog' \in DialogState /\ dialog' = dialog
  BY <1>1 DEF UsersInv, UsersTypes
<1>8. UsersTypes' /\ CallsSound'
  BY <1>1, <1>2, <1>4, <1>5, <1>6, <1>7, CallMoves
<1>9. ListCurrent'
  BY <1>6 DEF ListCurrent
<1> QED
  BY <1>8, <1>9 DEF UsersInv

\* A request is over: the dialog that waits for it waits no more.
LEMMA OverKeeps ==
  ASSUME UsersInv, NEW i \in Slot, Done(i), ~Unseen(calls[i]), dialog' \in DialogState,
         dialog'.busy # 0 => dialog' = dialog /\ dialog.busy # i,
         visit' \in VisitState, UNCHANGED <<rows, list>>
  PROVE  UsersInv'
<1>1. calls \in [Slot -> CallState] /\ dialog \in DialogState
  BY DEF UsersInv, UsersTypes
<1>2. \A j \in Slot : calls'[j] = IF j = i THEN Free ELSE calls[j]
  BY <1>1 DEF Done
<1>3. UsersTypes'
  BY <1>1, RowTypes DEF Done, UsersInv, UsersTypes
<1>4. CallsSound'
  <2>1. \A j \in Slot : calls'[j].phase = "sent" /\ calls'[j].kind \in {"create", "edit"} =>
          calls'[j].row \in Row
    BY <1>2, RowTypes DEF UsersInv, CallsSound
  <2>2. dialog'.busy # 0 => calls'[dialog'.busy] # Free /\ calls'[dialog'.busy].kind = dialog'.kind
    BY <1>1, <1>2 DEF UsersInv, CallsSound, DialogState
  <2> QED
    BY <2>1, <2>2 DEF CallsSound
<1>5. ListCurrent'
  BY <1>2, ListStays DEF UsersInv
<1> QED
  BY <1>3, <1>4, <1>5 DEF UsersInv

\* The dialog of a password closes; the reset of the own one goes on with the logout.
LEMMA PasswordResetKeeps ==
  ASSUME UsersInv, NEW i \in Slot, PasswordReset(i)
  PROVE  UsersInv'
<1>1. /\ calls[i].phase = "succeeded" /\ calls[i].kind = "reset"
      /\ UNCHANGED <<rows, visit, list>>
      /\ dialog' = Closed \/ (dialog' = dialog /\ dialog.kind # "reset")
  BY DEF PasswordReset, Closes
<1>2. /\ rows \in [Person -> RowState] /\ visit \in VisitState /\ list \in ListState
      /\ dialog \in DialogState /\ calls \in [Slot -> CallState]
      /\ dialog.busy # 0 => calls[dialog.busy].kind = dialog.kind
  BY DEF UsersInv, UsersTypes, CallsSound
<1>3. /\ dialog' \in DialogState
      /\ dialog'.busy # 0 => dialog' = dialog /\ dialog.busy # i
  BY <1>1, <1>2, RowTypes
<1>4. calls[i] # Free /\ calls[i] \in CallState
  BY <1>1, <1>2, RowTypes
<1>5. CASE OwnReset(i)
  <2>1. calls' = [calls EXCEPT ![i].phase = "leaving"]
    BY <1>5 DEF PasswordReset
  <2>2. calls[i] \in [phase: {"succeeded", "failed", "refreshing", "leaving"}, kind: Kind, user: Person]
    BY <1>1, <1>4 DEF CallState
  <2> DEFINE c == [calls[i] EXCEPT !.phase = "leaving"]
  <2>3. c \in CallState /\ c.phase = "leaving" /\ c.kind = calls[i].kind
    BY <2>2 DEF CallState
  <2>4. c # Free /\ calls' = [calls EXCEPT ![i] = c]
    BY <1>2, <2>1, <2>3, RowTypes
  <2> HIDE DEF c
  <2>5. /\ UsersTypes' /\ CallsSound'
        /\ \A j \in Slot : calls'[j] = IF j = i THEN c ELSE calls[j]
    BY <1>1, <1>2, <1>3, <1>4, <2>3, <2>4, CallMoves
  <2>6. ListCurrent'
    BY <1>1, <2>5, ListStays DEF UsersInv, Unseen
  <2> QED
    BY <2>5, <2>6 DEF UsersInv
<1>6. CASE ~OwnReset(i)
  <2>1. Done(i)
    BY <1>6 DEF PasswordReset
  <2> QED
    BY <1>1, <1>2, <1>3, <2>1, OverKeeps DEF Unseen
<1> QED
  BY <1>5, <1>6

LEMMA EndsKeep ==
  ASSUME UsersInv, NEW i \in Slot, Refreshed(i) \/ SignedOut(i) \/ Fails(i)
  PROVE  UsersInv'
<1>1. /\ dialog \in DialogState /\ visit \in VisitState /\ visit' \in VisitState
      /\ calls[i].phase # "free"
  BY RowTypes DEF UsersInv, UsersTypes, VisitState, Refreshed, SignedOut, Fails
<1>2. calls[i] # Free /\ calls[i].kind \in Kind
  <2>1. calls[i] \in CallState
    BY DEF UsersInv, UsersTypes
  <2> QED
    BY <1>1, <2>1, CallCases
<1>3. dialog.busy # 0 => calls[dialog.busy].kind = dialog.kind
  BY DEF UsersInv, CallsSound
<1>4. CASE Refreshed(i)
  BY <1>1, <1>2, <1>3, <1>4, OverKeeps, RowTypes DEF Refreshed, Closes, Unseen
<1>5. CASE SignedOut(i)
  BY <1>1, <1>5, OverKeeps, RowTypes DEF SignedOut, Unseen
<1>6. CASE Fails(i)
  <2>1. dialog' \in DialogState /\ (dialog'.busy # 0 => dialog' = dialog /\ dialog.busy # i)
    BY <1>1, <1>6 DEF Fails, DialogState
  <2> QED
    BY <1>1, <1>6, <2>1, OverKeeps DEF Fails, Unseen
<1> QED
  BY <1>4, <1>5, <1>6

LEMMA ChangedElsewhereKeeps ==
  ASSUME UsersInv, NEW p \in Person, ChangedElsewhere(p)
  PROVE  UsersInv'
<1>1. rows \in [Person -> RowState] /\ list \in ListState
  BY DEF UsersInv, UsersTypes
<1>2. list' \in ListState /\ list'.behind = TRUE /\ UNCHANGED <<visit, dialog, calls>>
  BY <1>1 DEF ChangedElsewhere, ListState
<1>3. rows' \in [Person -> RowState]
  <2>1. CASE rows[p].balance < MaxBalance /\ rows' = [rows EXCEPT ![p].balance = @ + 1]
    <3>1. rows[p] \in Row
      BY <1>1 DEF ChangedElsewhere, RowState
    <3> DEFINE r == [rows[p] EXCEPT !.balance = rows[p].balance + 1]
    <3>2. r \in Row
      BY <2>1, <3>1, UsersPageAssumption DEF Row
    <3>3. rows' = [rows EXCEPT ![p] = r]
      BY <1>1, <2>1
    <3> HIDE DEF r
    <3> QED
      BY <1>1, <3>2, <3>3 DEF RowState
  <2>2. CASE rows' = [rows EXCEPT ![p] = NoRow]
    BY <1>1, <2>2, RowTypes
  <2> QED
    BY <2>1, <2>2 DEF ChangedElsewhere
<1>4. UsersTypes'
  BY <1>2, <1>3 DEF UsersInv, UsersTypes
<1>5. CallsSound'
  BY <1>2 DEF UsersInv, CallsSound
<1>6. ListCurrent'
  BY <1>2 DEF ListCurrent
<1> QED
  BY <1>4, <1>5, <1>6 DEF UsersInv

LEMMA UsersSteps == UsersInv /\ [UsersNext]_usersVars => UsersInv'
<1> SUFFICES ASSUME UsersInv, [UsersNext]_usersVars PROVE UsersInv'
  OBVIOUS
<1>1. CASE ServeList \/ ListArrives \/ ListLost \/ RetryList \/ OpenCreate \/ CloseDialog
  BY <1>1, ServeListKeeps, ListArrivesKeeps, ListLostKeeps, RetryListKeeps, OpenCreateKeeps,
     CloseDialogKeeps
<1>2. CASE SaveCreate \/ SaveEdit \/ SavePassword \/ ConfirmDelete
  BY <1>2, SavesKeep
<1>3. CASE \E p \in Person : OpenEdit(p) \/ OpenReset(p) \/ OpenDelete(p) \/ ChangedElsewhere(p)
  BY <1>3, OpenShownKeeps, ChangedElsewhereKeeps
<1>4. CASE \E i \in Slot : \/ Serve(i) \/ LoseCall(i) \/ Refreshes(i) \/ Refreshed(i)
                         \/ PasswordReset(i) \/ SignedOut(i) \/ Fails(i)
  BY <1>4, ServeKeeps, LoseCallKeeps, RefreshesKeeps, PasswordResetKeeps, EndsKeep
<1>5. CASE UNCHANGED usersVars
  BY <1>5 DEF usersVars, UsersInv, UsersTypes, CallsSound, ListCurrent, Unseen
<1> QED
  BY <1>1, <1>2, <1>3, <1>4, <1>5 DEF UsersNext

LEMMA UsersConsequences == UsersInv => UsersTypeOK /\ ListShowsSaves
<1> SUFFICES ASSUME UsersInv PROVE UsersTypeOK /\ ListShowsSaves
  OBVIOUS
<1>1. UsersTypeOK
  <2>1. /\ rows \in [Person -> Row \cup {NoRow}] /\ visit \in [shown: BOOLEAN, session: BOOLEAN]
        /\ list \in [data: [Person -> Row \cup {NoRow}] \cup {NoList}, failed: BOOLEAN,
                     fetch: {"idle", "sent", "answered"},
                     snapshot: [Person -> Row \cup {NoRow}] \cup {NoList}, behind: BOOLEAN]
    BY DEF UsersInv, UsersTypes, RowState, ListState, VisitState
  <2>2. dialog.kind \in Kind \cup {"closed"} /\ dialog.user \in Person /\ dialog.busy \in {0} \cup Slot
    BY DEF UsersInv, UsersTypes, DialogState
  <2>3. dialog.busy \in {0} \cup {i \in Slot : calls[i] # Free /\ calls[i].kind = dialog.kind}
    BY <2>2 DEF UsersInv, CallsSound
  <2>4. \A i \in Slot : calls[i] = Free \/
          /\ calls[i].phase \in {"sent", "succeeded", "failed", "refreshing", "leaving"}
          /\ calls[i].kind \in Kind /\ calls[i].user \in Person
    BY CallCases DEF UsersInv, UsersTypes
  <2> QED
    BY <2>1, <2>2, <2>3, <2>4 DEF UsersTypeOK
<1>2. ListShowsSaves
  BY RowTypes DEF UsersInv, ListCurrent, Unseen, ListShowsSaves
<1> QED
  BY <1>1, <1>2

\* The types of the page of users, the requests the dialogs wait for, and what the list
\* has read are invariant.
THEOREM UsersInvariance == UsersSpec => []UsersInv
<1> QED
  BY UsersStart, UsersSteps, PTL DEF UsersSpec

\* However saves overlap with fetches and with each other, a list that nothing runs for
\* shows what the server has (invalidateQueries in the onSuccess of every mutation).
THEOREM ListKeepsUp == UsersSpec => []ListShowsSaves
<1> QED
  BY UsersInvariance, UsersConsequences, PTL

-----------------------------------------------------------------------------
(* The page of tariff plans *)

\* The schedules of this page start within its days.
PlanTable == {t \in UNION {[D -> Plan] : D \in SUBSET PlanId} : \A p \in DOMAIN t : t[p].start \in Day}
FormState ==
  [kind: {"closed", "create", "edit", "delete"}, plan: PlanId \cup {NoPlan},
   start: Day \cup {NoDate}, monthly: Nat, minimum: Nat]
SaveState == {NoSave} \cup [phase: {"sent", "saved", "refreshing"}, form: FormState]

PlansTypes ==
  /\ plans \in PlanTable /\ today \in Day
  /\ planList \in [loaded: BOOLEAN, failed: BOOLEAN, plans: PlanTable, fetching: BOOLEAN]
  /\ form \in FormState /\ save \in SaveState /\ saves \in 0..MaxSaves

\* A form that creates has no plan, and what is saved has a start.
FormsSound ==
  /\ form.kind = "create" => form.plan = NoPlan
  /\ save # NoSave => /\ save.form.kind = "create" => save.form.plan = NoPlan
                      /\ save.form.kind \in {"create", "edit"} => save.form.start \in Day

PlansInv == PlansTypes /\ FormsSound /\ IsSchedule(plans)

LEMMA PlanTables ==
  /\ \A t : t \in PlanTable <=> IsPlanTable(t) /\ \A p \in DOMAIN t : t[p].start \in Day
  /\ \A t \in PlanTable : \A p \in DOMAIN t : /\ p \in PlanId /\ t[p].start \in Day
                                             /\ t[p].monthly \in Nat /\ t[p].end \in Int
  /\ Day \subseteq Nat /\ 2 \in Day
<1>1. ASSUME NEW t PROVE t \in PlanTable <=> IsPlanTable(t) /\ \A p \in DOMAIN t : t[p].start \in Day
  BY DEF PlanTable, IsPlanTable
<1>2. ASSUME NEW t, IsPlanTable(t), NEW p \in DOMAIN t
      PROVE  p \in PlanId /\ t[p].monthly \in Nat /\ t[p].end \in Int
  BY <1>2 DEF IsPlanTable, Plan
<1>3. Day \subseteq Nat /\ 2 \in Day
  BY PlansAssumption DEF Day
<1> QED
  BY <1>1, <1>2, <1>3

LEMMA NoPlansType == NoPlans \in PlanTable /\ IsSchedule(NoPlans)
<1>1. DOMAIN NoPlans = {}
  BY DEF NoPlans
<1>2. NoPlans \in [{} -> Plan]
  BY DEF NoPlans
<1> QED
  BY <1>1, <1>2 DEF PlanTable, IsSchedule, IsPlanTable

LEMMA FormTypes ==
  /\ NoForm \in FormState /\ NoForm.kind = "closed" /\ NoSave \in SaveState /\ NoSave.phase = "none"
  /\ \A s \in SaveState : s # NoSave => /\ s.phase \in {"sent", "saved", "refreshing"}
                                         /\ s.form \in FormState
                                         /\ s = [phase |-> s.phase, form |-> s.form]
<1>1. NoForm \in FormState
  BY DEF NoForm, FormState, NoDate
<1> QED
  BY <1>1 DEF NoForm, SaveState, NoSave

LEMMA PlansStart == PlansInit => PlansInv
<1> SUFFICES ASSUME PlansInit PROVE PlansInv
  OBVIOUS
<1>1. /\ plans = NoPlans /\ today = 2 /\ form = NoForm /\ save = NoSave /\ saves = 0
      /\ planList = [loaded |-> FALSE, failed |-> FALSE, plans |-> NoPlans, fetching |-> FALSE]
  BY DEF PlansInit, NotLoaded
<1>2. 0 \in 0..MaxSaves
  BY PlansAssumption
<1>3. PlansTypes
  BY <1>1, <1>2, NoPlansType, FormTypes, PlanTables DEF PlansTypes
<1>4. FormsSound
  BY <1>1, FormTypes DEF FormsSound
<1> QED
  BY <1>1, <1>3, <1>4, NoPlansType DEF PlansInv

LEMMA MinimumType ==
  ASSUME PlansInv, NEW t
  PROVE  MinimumStart(t) \in Nat
BY PlanTables DEF PlansInv, PlansTypes, MinimumStart, NoDate

\* The form or the list moves, the schedule and the request stay.
LEMMA FormMoves ==
  ASSUME PlansInv, form' \in FormState, form'.kind = "create" => form'.plan = NoPlan,
         planList' \in [loaded: BOOLEAN, failed: BOOLEAN, plans: PlanTable, fetching: BOOLEAN],
         today' \in Day, UNCHANGED <<plans, save, saves>>
  PROVE  PlansInv'
BY DEF PlansInv, PlansTypes, FormsSound

LEMMA ListStepsKeepPlans ==
  ASSUME PlansInv, FetchPlans \/ (\E ok \in BOOLEAN : PlansArrive(ok)) \/ PlansMidnight
  PROVE  PlansInv'
<1>1. /\ form \in FormState /\ (form.kind = "create" => form.plan = NoPlan)
      /\ planList \in [loaded: BOOLEAN, failed: BOOLEAN, plans: PlanTable, fetching: BOOLEAN]
      /\ plans \in PlanTable /\ today \in Day
  BY DEF PlansInv, PlansTypes, FormsSound
<1>2. CASE FetchPlans
  BY <1>1, <1>2, FormMoves DEF FetchPlans
<1>3. ASSUME NEW ok \in BOOLEAN, PlansArrive(ok) PROVE PlansInv'
  <2>1. planList' \in [loaded: BOOLEAN, failed: BOOLEAN, plans: PlanTable, fetching: BOOLEAN]
    <3>1. CASE ok
      BY <1>1, <1>3, <3>1 DEF PlansArrive
    <3>2. CASE ~ok
      BY <1>1, <1>3, <3>2 DEF PlansArrive
    <3> QED
      BY <3>1, <3>2
  <2>2. MinimumStart(planList'.plans) \in Nat
    BY MinimumType
  <2>3. form' = IF form = NoForm THEN form ELSE [form EXCEPT !.minimum = MinimumStart(planList'.plans)]
    BY <1>3 DEF PlansArrive
  <2>4. form' \in FormState /\ (form'.kind = "create" => form'.plan = NoPlan)
    BY <1>1, <2>2, <2>3 DEF FormState
  <2>5. UNCHANGED <<plans, today, save, saves>>
    BY <1>3 DEF PlansArrive
  <2> QED
    BY <1>1, <2>1, <2>4, <2>5, FormMoves
<1>4. CASE PlansMidnight
  <2>1. today' \in Day
    BY <1>1, <1>4, PlansAssumption DEF PlansMidnight, Day
  <2> QED
    BY <1>1, <1>4, <2>1, FormMoves DEF PlansMidnight
<1> QED
  BY <1>2, <1>3, <1>4

LEMMA FormStepsKeepPlans ==
  ASSUME PlansInv,
         \/ OpenPlanCreate \/ ClosePlanForm
         \/ \E p \in PlanId : OpenPlanEdit(p) \/ OpenPlanDelete(p)
         \/ \E start \in Day, monthly \in Monthly : TypePlan(start, monthly)
  PROVE  PlansInv'
<1>1. /\ form \in FormState /\ (form.kind = "create" => form.plan = NoPlan)
      /\ planList \in [loaded: BOOLEAN, failed: BOOLEAN, plans: PlanTable, fetching: BOOLEAN]
      /\ planList.plans \in PlanTable /\ today \in Day
  BY DEF PlansInv, PlansTypes, FormsSound
<1>2. ASSUME NEW kind \in {"create", "edit", "delete"}, NEW p \in PlanId \cup {NoPlan},
             kind = "create" => p = NoPlan,
             NEW start \in Day \cup {NoDate}, NEW monthly \in Nat, OpenForm(kind, p, start, monthly)
      PROVE  PlansInv'
  <2> DEFINE minimum == MinimumStart(planList.plans)
  <2>1. minimum \in Nat
    BY MinimumType
  <2>2. form' = [kind |-> kind, plan |-> p, start |-> start, monthly |-> monthly, minimum |-> minimum]
    BY <1>2 DEF OpenForm
  <2> HIDE DEF minimum
  <2>3. form' \in FormState /\ (form'.kind = "create" => form'.plan = NoPlan)
    BY <1>2, <2>1, <2>2 DEF FormState
  <2> QED
    BY <1>1, <1>2, <2>3, FormMoves DEF OpenForm
<1>3. CASE OpenPlanCreate
  BY <1>2, <1>3 DEF OpenPlanCreate
<1>4. CASE ClosePlanForm
  BY <1>1, <1>4, FormTypes, FormMoves DEF ClosePlanForm
<1>5. ASSUME NEW p \in PlanId, OpenPlanEdit(p) \/ OpenPlanDelete(p) PROVE PlansInv'
  <2>1. CASE OpenPlanEdit(p)
    <3>1. planList.plans[p].start \in Day /\ planList.plans[p].monthly \in Nat
      BY <1>1, <2>1, PlanTables DEF OpenPlanEdit, Editable
    <3> QED
      BY <1>2, <2>1, <3>1 DEF OpenPlanEdit
  <2>2. CASE OpenPlanDelete(p)
    BY <1>2, <2>2 DEF OpenPlanDelete
  <2> QED
    BY <1>5, <2>1, <2>2
<1>6. ASSUME NEW start \in Day, NEW monthly \in Monthly, TypePlan(start, monthly) PROVE PlansInv'
  <2> DEFINE minimum == MinimumStart(planList.plans)
  <2>1. minimum \in Nat /\ monthly \in Nat
    BY MinimumType, PlansAssumption
  <2>2. form' = [form EXCEPT !.start = start, !.monthly = monthly, !.minimum = minimum]
    BY <1>6 DEF TypePlan
  <2> HIDE DEF minimum
  <2>3. form' \in FormState /\ (form'.kind = "create" => form'.plan = NoPlan)
    BY <1>1, <2>1, <2>2 DEF FormState
  <2> QED
    BY <1>1, <1>6, <2>3, FormMoves DEF TypePlan
<1> QED
  BY <1>3, <1>4, <1>5, <1>6

\* The request of the page moves on with the values it was sent with.
LEMMA SaveMoves ==
  ASSUME PlansInv, save' \in SaveState, save' = NoSave \/ (save # NoSave /\ save'.form = save.form),
         form' \in FormState, form'.kind = "create" => form'.plan = NoPlan,
         planList' \in [loaded: BOOLEAN, failed: BOOLEAN, plans: PlanTable, fetching: BOOLEAN],
         UNCHANGED <<plans, today, saves>>
  PROVE  PlansInv'
<1>1. PlansTypes'
  BY DEF PlansInv, PlansTypes
<1>2. FormsSound'
  BY DEF PlansInv, FormsSound
<1> QED
  BY <1>1, <1>2 DEF PlansInv

LEMMA RequestStepsKeepPlans ==
  ASSUME PlansInv, SubmitPlan \/ PlanRefused \/ RefreshPlans \/ PlanDone
  PROVE  PlansInv'
<1>1. /\ form \in FormState /\ (form.kind = "create" => form.plan = NoPlan)
      /\ planList \in [loaded: BOOLEAN, failed: BOOLEAN, plans: PlanTable, fetching: BOOLEAN]
      /\ save \in SaveState
  BY DEF PlansInv, PlansTypes, FormsSound
<1>2. CASE SubmitPlan
  <2>1. /\ form.kind \in {"create", "edit"} => form.start \in Day
        /\ save' = [phase |-> "sent", form |-> form] /\ UNCHANGED <<plans, today, planList, form, saves>>
    BY <1>1, <1>2 DEF SubmitPlan, FormAllows, FormState
  <2>2. save' \in SaveState /\ save'.form = form
    BY <1>1, <2>1 DEF SaveState
  <2>3. PlansTypes'
    BY <2>1, <2>2 DEF PlansInv, PlansTypes
  <2>4. FormsSound'
    BY <1>1, <2>1, <2>2 DEF FormsSound
  <2> QED
    BY <2>1, <2>3, <2>4 DEF PlansInv
<1>3. CASE PlanRefused
  BY <1>1, <1>3, FormTypes, SaveMoves DEF PlanRefused
<1>4. CASE RefreshPlans
  <2>1. save # NoSave
    BY <1>4, FormTypes DEF RefreshPlans
  <2>2. save' = [phase |-> "refreshing", form |-> save.form] /\ save.form \in FormState
    BY <1>1, <1>4, <2>1, FormTypes DEF RefreshPlans
  <2>3. save' \in SaveState /\ save'.form = save.form
    BY <2>2 DEF SaveState
  <2>4. planList' \in [loaded: BOOLEAN, failed: BOOLEAN, plans: PlanTable, fetching: BOOLEAN]
    BY <1>1, <1>4 DEF RefreshPlans
  <2> QED
    BY <1>1, <1>4, <2>1, <2>3, <2>4, SaveMoves DEF RefreshPlans
<1>5. CASE PlanDone
  <2>1. form' \in FormState /\ (form'.kind = "create" => form'.plan = NoPlan)
    BY <1>1, <1>5, FormTypes DEF PlanDone
  <2> QED
    BY <1>1, <1>5, <2>1, FormTypes, SaveMoves DEF PlanDone
<1> QED
  BY <1>2, <1>3, <1>4, <1>5

\* Whoever changes the schedule, it stays one.
LEMMA ScheduleChanges ==
  ASSUME PlansInv, NEW f,
         \/ f.start \in Day /\ f.monthly \in Nat /\ \E id \in PlanId : Creates(id, f)
         \/ f.start \in Day /\ f.monthly \in Nat /\ Updates(f)
         \/ Deletes(f)
  PROVE  plans' \in PlanTable /\ IsSchedule(plans')
<1>1. /\ plans \in PlanTable /\ IsPlanTable(plans) /\ IsSchedule(plans) /\ today \in Int
      /\ \A p \in DOMAIN plans : p \in PlanId /\ plans[p].start \in Day
  BY PlanTables DEF PlansInv, PlansTypes
<1>2. Day \subseteq Nat
  BY PlanTables
<1>3. ASSUME NEW id \in PlanId, Creates(id, f), f.start \in Day, f.monthly \in Nat
      PROVE  plans' \in PlanTable /\ IsSchedule(plans')
  <2>1. IsSchedule(plans') /\ plans' = CreatedPlan(plans, id, f.start, f.monthly) /\ f.start \in Nat
    BY <1>1, <1>2, <1>3, HandlersKeepSchedule DEF Creates
  <2>2. DOMAIN plans' = DOMAIN plans \cup {id} /\ OneStart(plans', plans, id, f.start)
    <3>1. /\ DOMAIN CreatedPlan(plans, id, f.start, f.monthly) = DOMAIN plans \cup {id}
          /\ OneStart(CreatedPlan(plans, id, f.start, f.monthly), plans, id, f.start)
      BY <1>1, <1>3, <2>1, CreatedRows
    <3> QED
      BY <2>1, <3>1
  <2>3. \A p \in DOMAIN plans' : plans'[p].start \in Day
    BY <1>1, <1>3, <2>2 DEF OneStart
  <2> QED
    BY <2>1, <2>3, PlanTables DEF IsSchedule
<1>4. ASSUME Updates(f), f.start \in Day, f.monthly \in Nat
      PROVE  plans' \in PlanTable /\ IsSchedule(plans')
  <2>1. /\ f.plan \in DOMAIN plans /\ f.start \in Nat
        /\ IsSchedule(plans') /\ plans' = UpdatedPlan(plans, f.plan, f.start, f.monthly)
    BY <1>1, <1>2, <1>4, HandlersKeepSchedule DEF Updates
  <2>2. DOMAIN plans' = DOMAIN plans /\ OneStart(plans', plans, f.plan, f.start)
    <3>1. /\ DOMAIN UpdatedPlan(plans, f.plan, f.start, f.monthly) = DOMAIN plans
          /\ OneStart(UpdatedPlan(plans, f.plan, f.start, f.monthly), plans, f.plan, f.start)
      BY <1>1, <1>4, <2>1, UpdatedRows
    <3> QED
      BY <2>1, <3>1
  <2>3. \A p \in DOMAIN plans' : plans'[p].start \in Day
    BY <1>1, <1>4, <2>2 DEF OneStart
  <2> QED
    BY <2>1, <2>3, PlanTables DEF IsSchedule
<1>5. ASSUME Deletes(f)
      PROVE  plans' \in PlanTable /\ IsSchedule(plans')
  <2> DEFINE id == f.plan
             zero == 0
  <2>1. id \in PlanId /\ plans' = DeletedPlan(plans, id) /\ zero \in Nat
    BY <1>1, <1>5 DEF Deletes
  <2> HIDE DEF id, zero
  <2>2. IsSchedule(plans')
    BY <1>1, <2>1, HandlersKeepSchedule
  <2>3. \A p \in DOMAIN plans' : plans'[p].start \in Day
    <3>1. /\ DOMAIN DeletedPlan(plans, id) = DOMAIN plans \ {id}
          /\ SameStarts(DeletedPlan(plans, id), plans)
      BY <1>1, <2>1, DeletedRows
    <3> QED
      BY <1>1, <2>1, <3>1 DEF SameStarts
  <2> QED
    BY <2>2, <2>3, PlanTables DEF IsSchedule
<1> QED
  BY <1>3, <1>4, <1>5

\* What PlanSaved sends to the handlers.
LEMMA SentForm ==
  ASSUME PlansInv, save.phase = "sent"
  PROVE  /\ save # NoSave /\ save.form \in FormState /\ save.form.monthly \in Nat
         /\ save.form.kind \in {"create", "edit"} => save.form.start \in Day
         /\ save.form.kind = "create" => save.form.plan = NoPlan
<1>1. save # NoSave
  BY FormTypes
<1>2. save.form \in FormState
  BY <1>1, FormTypes DEF PlansInv, PlansTypes
<1> QED
  BY <1>1, <1>2 DEF PlansInv, FormsSound, FormState

LEMMA SavesKeepSchedule ==
  ASSUME PlansInv, PlanSaved \/ OtherAdmin
  PROVE  PlansInv'
<1>1. saves' \in 0..MaxSaves
  BY PlansAssumption DEF PlansInv, PlansTypes, PlanSaved, OtherAdmin, Changes
<1>2. CASE PlanSaved
  <2>1. save # NoSave /\ save.form \in FormState /\ save' = [phase |-> "saved", form |-> save.form]
    BY <1>2, SentForm DEF PlanSaved
  <2>2. save' \in SaveState /\ save' # NoSave /\ save'.form = save.form
    BY <2>1 DEF SaveState, NoSave
  <2>3. plans' \in PlanTable /\ IsSchedule(plans')
    BY <1>2, SentForm, ScheduleChanges DEF PlanSaved
  <2>4. UNCHANGED <<today, planList, form>>
    BY <1>2 DEF PlanSaved
  <2>5. PlansTypes'
    BY <1>1, <2>2, <2>3, <2>4 DEF PlansInv, PlansTypes
  <2>6. FormsSound'
    BY <2>1, <2>2, <2>4 DEF PlansInv, FormsSound
  <2> QED
    BY <2>3, <2>5, <2>6 DEF PlansInv
<1>3. CASE OtherAdmin
  <2>1. plans' \in PlanTable /\ IsSchedule(plans')
    <3>1. ASSUME NEW id \in PlanId, NEW start \in Day, NEW monthly \in Monthly,
                 Creates(id, [start |-> start, monthly |-> monthly])
          PROVE  plans' \in PlanTable /\ IsSchedule(plans')
      <4> DEFINE f == [start |-> start, monthly |-> monthly]
      <4>1. f.start \in Day /\ f.monthly \in Nat /\ Creates(id, f)
        BY <3>1, PlansAssumption
      <4> HIDE DEF f
      <4> QED
        BY <4>1, ScheduleChanges
    <3>2. ASSUME NEW p \in DOMAIN plans, Deletes([plan |-> p])
          PROVE  plans' \in PlanTable /\ IsSchedule(plans')
      BY <3>2, ScheduleChanges
    <3> QED
      BY <1>3, <3>1, <3>2 DEF OtherAdmin
  <2>2. UNCHANGED <<today, planList, form, save>>
    BY <1>3 DEF OtherAdmin
  <2>3. PlansTypes'
    BY <1>1, <2>1, <2>2 DEF PlansInv, PlansTypes
  <2>4. FormsSound'
    BY <2>2 DEF PlansInv, FormsSound
  <2> QED
    BY <2>1, <2>3, <2>4 DEF PlansInv
<1> QED
  BY <1>2, <1>3

LEMMA PlansSteps == PlansInv /\ [PlansNext]_plansVars => PlansInv'
<1> SUFFICES ASSUME PlansInv, [PlansNext]_plansVars PROVE PlansInv'
  OBVIOUS
<1>1. CASE FetchPlans \/ (\E ok \in BOOLEAN : PlansArrive(ok)) \/ PlansMidnight
  BY <1>1, ListStepsKeepPlans
<1>2. CASE \/ OpenPlanCreate \/ ClosePlanForm
           \/ \E p \in PlanId : OpenPlanEdit(p) \/ OpenPlanDelete(p)
           \/ \E start \in Day, monthly \in Monthly : TypePlan(start, monthly)
  BY <1>2, FormStepsKeepPlans
<1>3. CASE SubmitPlan \/ PlanRefused \/ RefreshPlans \/ PlanDone
  BY <1>3, RequestStepsKeepPlans
<1>4. CASE PlanSaved \/ OtherAdmin
  BY <1>4, SavesKeepSchedule
<1>5. CASE UNCHANGED plansVars
  BY <1>5 DEF plansVars, PlansInv, PlansTypes, FormsSound
<1> QED
  BY <1>1, <1>2, <1>3, <1>4, <1>5 DEF PlansNext

\* The forms, the requests and the table of the page of tariff plans are sound: whoever
\* changes the schedule, its plans follow each other without a gap (_rebuild_periods).
THEOREM PlansInvariance == PlansSpec => []PlansInv
<1> QED
  BY PlansStart, PlansSteps, PTL DEF PlansSpec

\* The end depends only on the starts that follow.
SameLater(starts, others, start) == \A s \in Nat : s > start => (s \in starts <=> s \in others)
LEMMA LaterStarts ==
  ASSUME NEW starts \in SUBSET Nat, NEW others \in SUBSET Nat, NEW start \in Nat, NEW end,
         SameLater(starts, others, start), EndsBeforeNext(others, start, end)
  PROVE  EndsBeforeNext(starts, start, end)
BY DEF EndsBeforeNext, SameLater

\* The starts of the other plans: what getPreviewEndDate looks at.
OtherStarts(table, editing) == {table[p].start : p \in DOMAIN table \ {editing}}

\* getPreviewEndDate computes the end before the next start of another plan.
LEMMA PreviewIs ==
  ASSUME NEW table, IsPlanTable(table), NEW start \in Nat, NEW editing
  PROVE  EndsBeforeNext(OtherStarts(table, editing), start, PreviewEndDate(start, table, editing))
<1> DEFINE starts == OtherStarts(table, editing)
           next == {table[p].start : p \in {q \in DOMAIN table : q # editing /\ table[q].start > start}}
           n == CHOOSE s \in next : \A r \in next : s <= r
<1>1. \A p \in DOMAIN table : table[p].start \in Nat
  BY StartsType
<1>2. next \in SUBSET Nat /\ next = {s \in starts : s > start}
  BY <1>1 DEF OtherStarts
<1>3. PreviewEndDate(start, table, editing) = IF next = {} THEN OpenEnded ELSE n - 1
  BY DEF PreviewEndDate
<1>4. starts \in SUBSET Nat
  BY <1>1 DEF OtherStarts
<1>5. CASE next = {}
  <2> HIDE DEF next, starts
  <2>1. \A s \in starts : s <= start
    BY <1>2, <1>4, <1>5
  <2> QED
    BY <1>3, <1>5, <2>1 DEF EndsBeforeNext, starts
<1>6. CASE next # {}
  <2> HIDE DEF next
  <2>1. \E s \in next : \A r \in next : s <= r
    BY <1>2, <1>6, LeastExists
  <2>2. n \in next /\ \A r \in next : n <= r
    BY <2>1
  <2>3. PreviewEndDate(start, table, editing) = n - 1
    BY <1>3, <1>6
  <2> HIDE DEF n, starts
  <2>4. n \in starts /\ n > start /\ \A s \in starts : s > start => n <= s
    BY <1>2, <2>2
  <2> QED
    BY <2>3, <2>4 DEF EndsBeforeNext, starts
<1> QED
  BY <1>5, <1>6

LEMMA PreviewType ==
  ASSUME NEW table, IsPlanTable(table), NEW start \in Nat, NEW editing
  PROVE  PreviewEndDate(start, table, editing) \in Int
<1> DEFINE starts == OtherStarts(table, editing)
           end == PreviewEndDate(start, table, editing)
<1>1. EndsBeforeNext(starts, start, end)
  BY PreviewIs
<1>2. starts \in SUBSET Nat
  BY StartsType DEF OtherStarts
<1> HIDE DEF starts, end
<1>3. end \in Int
  BY <1>1, <1>2 DEF EndsBeforeNext, OpenEnded
<1> QED
  BY <1>3 DEF end

\* The schedule gives a plan the end that was previewed from the schedule before it.
LEMMA PreviewAgrees ==
  ASSUME NEW table, IsPlanTable(table), NEW after, IsSchedule(after), NEW p \in DOMAIN after,
         NEW start \in Nat, after[p].start = start, NEW editing,
         SameLater(StartsOf(after), OtherStarts(table, editing), start)
  PROVE  after[p].end = PreviewEndDate(start, table, editing)
<1> DEFINE end == PreviewEndDate(start, table, editing)
<1>1. IsPlanTable(after) /\ EndsBeforeNext(StartsOf(after), start, after[p].end)
  BY DEF IsSchedule
<1>2. StartsOf(after) \in SUBSET Nat /\ after[p].end \in Int
  BY <1>1, StartsType
<1>3. OtherStarts(table, editing) \in SUBSET Nat
  BY StartsType DEF OtherStarts
<1>4. EndsBeforeNext(OtherStarts(table, editing), start, end) /\ end \in Int
  BY PreviewIs, PreviewType
<1> HIDE DEF end
<1>5. EndsBeforeNext(StartsOf(after), start, end)
  BY <1>2, <1>3, <1>4, LaterStarts
<1>6. after[p].end = end
  BY <1>1, <1>2, <1>4, <1>5, SameEnd
<1> QED
  BY <1>6 DEF end

\* A create, and an edit, of a schedule.
LEMMA CreatedPreview ==
  ASSUME NEW table, IsPlanTable(table), NEW id \in PlanId, id \notin DOMAIN table,
         NEW start \in Nat, NEW monthly \in Nat, NEW editing, editing \notin DOMAIN table,
         NEW after, after = CreatedPlan(table, id, start, monthly), IsSchedule(after)
  PROVE  id \in DOMAIN after /\ after[id].end = PreviewEndDate(start, table, editing)
<1>1. DOMAIN after = DOMAIN table \cup {id} /\ OneStart(after, table, id, start)
  <2>1. /\ DOMAIN CreatedPlan(table, id, start, monthly) = DOMAIN table \cup {id}
        /\ OneStart(CreatedPlan(table, id, start, monthly), table, id, start)
    BY CreatedRows
  <2> QED
    BY <2>1
<1>2. id \in DOMAIN after /\ after[id].start = start
  BY <1>1 DEF OneStart
<1>3. SameLater(StartsOf(after), OtherStarts(table, editing), start)
  BY <1>1 DEF StartsOf, OtherStarts, OneStart, SameLater
<1> QED
  BY <1>2, <1>3, PreviewAgrees

LEMMA UpdatedPreview ==
  ASSUME NEW table, IsPlanTable(table), NEW id \in DOMAIN table,
         NEW start \in Nat, NEW monthly \in Nat,
         NEW after, after = UpdatedPlan(table, id, start, monthly), IsSchedule(after)
  PROVE  id \in DOMAIN after /\ after[id].end = PreviewEndDate(start, table, id)
<1>1. DOMAIN after = DOMAIN table /\ OneStart(after, table, id, start)
  <2>1. /\ DOMAIN UpdatedPlan(table, id, start, monthly) = DOMAIN table
        /\ OneStart(UpdatedPlan(table, id, start, monthly), table, id, start)
    BY UpdatedRows
  <2> QED
    BY <2>1
<1>2. id \in DOMAIN after /\ after[id].start = start
  BY <1>1 DEF OneStart
<1>3. SameLater(StartsOf(after), OtherStarts(table, id), start)
  BY <1>1 DEF StartsOf, OtherStarts, OneStart, SameLater
<1> QED
  BY <1>2, <1>3, PreviewAgrees

\* Only the server makes of a request that was sent one that is saved.
LEMMA OnlyPlanSaved ==
  ASSUME PlansInv, [PlansNext]_plansVars, save.phase = "sent", save'.phase = "saved"
  PROVE  PlanSaved
<1>1. save # NoSave /\ NoSave.phase = "none"
  BY FormTypes
<1>2. save' # save
  OBVIOUS
<1>3. ~SubmitPlan /\ ~PlanRefused /\ ~RefreshPlans /\ ~PlanDone
  BY <1>1 DEF SubmitPlan, PlanRefused, RefreshPlans, PlanDone
<1>4. /\ ~FetchPlans /\ ~OpenPlanCreate /\ ~ClosePlanForm /\ ~OtherAdmin /\ ~PlansMidnight
      /\ \A ok \in BOOLEAN : ~PlansArrive(ok)
      /\ \A p \in PlanId : ~OpenPlanEdit(p) /\ ~OpenPlanDelete(p)
      /\ \A start \in Day, monthly \in Monthly : ~TypePlan(start, monthly)
      /\ ~(UNCHANGED plansVars)
  BY <1>2 DEF FetchPlans, OpenPlanCreate, ClosePlanForm, OtherAdmin, PlansMidnight, PlansArrive,
     OpenPlanEdit, OpenPlanDelete, OpenForm, TypePlan, plansVars
<1> QED
  BY <1>3, <1>4 DEF PlansNext

\* The preview of the page (getPreviewEndDate) and the schedule of the server
\* (_rebuild_periods), two programs, agree on the end of a plan for every schedule.
THEOREM PreviewIsKept == PlansSpec => PreviewKept
<1>1. ASSUME PlansInv, PlansInv', [PlansNext]_plansVars, save.phase = "sent", save'.phase = "saved",
             save.form.kind \in {"create", "edit"}, planList.plans = plans
      PROVE  \E p \in DOMAIN plans' :
               /\ p = save.form.plan \/ p \notin DOMAIN plans
               /\ plans'[p].end = PreviewEndDate(save.form.start, planList.plans, save.form.plan)
  <2> DEFINE f == save.form
  <2>1. /\ f.start \in Nat /\ f.monthly \in Nat /\ (f.kind = "create" => f.plan = NoPlan)
        /\ IsPlanTable(plans) /\ DOMAIN plans \subseteq PlanId /\ IsSchedule(plans')
    BY <1>1, SentForm, PlanTables DEF PlansInv, PlansTypes, IsPlanTable
  <2>2. PlanSaved
    BY <1>1, OnlyPlanSaved
  <2>3. CASE f.kind = "create" /\ \E id \in PlanId : Creates(id, f)
    <3>1. PICK id \in PlanId : id \notin DOMAIN plans /\ plans' = CreatedPlan(plans, id, f.start, f.monthly)
      BY <2>3 DEF Creates
    <3>2. f.plan \notin DOMAIN plans
      BY <2>1, <2>3, NoPlanAssumption
    <3>3. id \in DOMAIN plans' /\ plans'[id].end = PreviewEndDate(f.start, plans, f.plan)
      <4> DEFINE start == f.start
                 monthly == f.monthly
                 editing == f.plan
                 after == plans'
      <4>1. /\ start \in Nat /\ monthly \in Nat /\ editing \notin DOMAIN plans /\ IsPlanTable(plans)
            /\ after = CreatedPlan(plans, id, start, monthly) /\ IsSchedule(after)
        BY <2>1, <3>1, <3>2
      <4> HIDE DEF start, monthly, editing, after
      <4>2. id \in DOMAIN after /\ after[id].end = PreviewEndDate(start, plans, editing)
        BY <3>1, <4>1, CreatedPreview
      <4> QED
        BY <4>2 DEF start, editing, after
    <3> QED
      BY <1>1, <3>1, <3>3
  <2>4. CASE Updates(f)
    <3>1. f.plan \in DOMAIN plans /\ plans' = UpdatedPlan(plans, f.plan, f.start, f.monthly)
      BY <2>4 DEF Updates
    <3>2. f.plan \in DOMAIN plans' /\ plans'[f.plan].end = PreviewEndDate(f.start, plans, f.plan)
      <4> DEFINE start == f.start
                 monthly == f.monthly
                 id == f.plan
                 after == plans'
      <4>1. /\ start \in Nat /\ monthly \in Nat /\ id \in DOMAIN plans /\ IsPlanTable(plans)
            /\ after = UpdatedPlan(plans, id, start, monthly) /\ IsSchedule(after)
        BY <2>1, <3>1
      <4> HIDE DEF start, monthly, id, after
      <4>2. id \in DOMAIN after /\ after[id].end = PreviewEndDate(start, plans, id)
        BY <4>1, UpdatedPreview
      <4> QED
        BY <4>2 DEF start, id, after
    <3> QED
      BY <1>1, <3>2
  <2> QED
    BY <1>1, <2>2, <2>3, <2>4 DEF PlanSaved
<1>2. ASSUME PlansInv, PlansInv', [PlansNext]_plansVars
      PROVE  EndAsPreviewed
  BY <1>1, <1>2 DEF EndAsPreviewed
<1> QED
  BY <1>2, PlansInvariance, PTL DEF PlansSpec, PreviewKept

\* On every day from the first start on there is one plan to charge by, whatever the
\* administrators do (get_plan_for_date of the billing takes the latest that covers the day).
OnePlanPerDay ==
  \A day \in Day : (\E p \in DOMAIN plans : plans[p].start <= day) =>
    \E q \in DOMAIN plans : /\ Covers(plans[q], day)
                           /\ \A r \in DOMAIN plans : Covers(plans[r], day) => r = q

\* Creating, editing and deleting plans never leaves a day without a plan, or with two.
THEOREM EveryDayHasItsPlan == PlansSpec => []OnePlanPerDay
<1>1. PlansInv => OnePlanPerDay
  <2> SUFFICES ASSUME PlansInv, NEW day \in Day, NEW p \in DOMAIN plans, plans[p].start <= day
               PROVE  \E q \in DOMAIN plans : /\ Covers(plans[q], day)
                                             /\ \A r \in DOMAIN plans : Covers(plans[r], day) => r = q
    BY DEF OnePlanPerDay
  <2>1. IsSchedule(plans) /\ day \in Nat
    BY PlanTables DEF PlansInv
  <2>2. PICK q \in DOMAIN plans : Covers(plans[q], day)
    BY <2>1, EveryDayCovered
  <2>3. \A r \in DOMAIN plans : Covers(plans[r], day) => r = q
    BY <2>1, <2>2, OnePlanCovers
  <2> QED
    BY <2>2, <2>3
<1> QED
  BY <1>1, PlansInvariance, PTL

-----------------------------------------------------------------------------
(* The journal of payments: what is filtered and sorted *)

\* A strict total order on I, given by what comes before each element.
IsOrder(I, before) ==
  /\ before \in [I -> SUBSET I]
  /\ \A i \in I : i \notin before[i]
  /\ \A i, j \in I : i # j => i \in before[j] \/ j \in before[i]
  /\ \A i, j, k \in I : k \in before[j] /\ j \in before[i] => k \in before[i]

\* Whoever comes before another has fewer before it.
LEMMA RanksIncrease ==
  ASSUME NEW I, IsFiniteSet(I), NEW before, IsOrder(I, before), NEW i \in I, NEW j \in before[i]
  PROVE  /\ Cardinality(before[j]) \in Nat /\ Cardinality(before[i]) \in Nat
         /\ Cardinality(before[j]) < Cardinality(before[i])
<1>1. /\ before[i] \in SUBSET I /\ j \in I /\ before[j] \in SUBSET before[i]
      /\ j \notin before[j]
  BY DEF IsOrder
<1>2. IsFiniteSet(before[i]) /\ Cardinality(before[i]) \in Nat
  BY <1>1, FS_Subset, FS_CardinalityType
<1>3. /\ IsFiniteSet(before[j]) /\ Cardinality(before[j]) \in Nat
      /\ Cardinality(before[j]) <= Cardinality(before[i])
      /\ Cardinality(before[i]) = Cardinality(before[j]) => before[i] = before[j]
  BY <1>1, <1>2, FS_Subset, FS_CardinalityType
<1> QED
  BY <1>1, <1>2, <1>3

\* Every rank is taken by exactly one element: the ranks are an injection into a set of
\* the same size.
LEMMA RanksCover ==
  ASSUME NEW I, IsFiniteSet(I), NEW before, IsOrder(I, before), NEW n \in 1..Cardinality(I)
  PROVE  \E i \in I : Cardinality(before[i]) = n - 1
<1> DEFINE c == Cardinality(I)
           rank == [i \in I |-> Cardinality(before[i])]
<1>1. c \in Nat
  BY FS_CardinalityType
<1>2. ASSUME NEW i \in I PROVE rank[i] \in 0..(c - 1)
  <2>1. before[i] \in SUBSET I /\ i \notin before[i]
    BY DEF IsOrder
  <2>2. /\ Cardinality(before[i]) \in Nat /\ Cardinality(before[i]) <= c
        /\ c = Cardinality(before[i]) => I = before[i]
    BY <2>1, FS_Subset, FS_CardinalityType
  <2>3. Cardinality(before[i]) # c
    BY <2>1, <2>2
  <2> HIDE DEF c
  <2> QED
    BY <1>1, <2>2, <2>3
<1>3. ASSUME NEW i \in I, NEW j \in I, i # j PROVE rank[i] # rank[j]
  <2>1. CASE i \in before[j]
    BY <2>1, RanksIncrease
  <2>2. CASE j \in before[i]
    BY <2>2, RanksIncrease
  <2> QED
    BY <1>3, <2>1, <2>2 DEF IsOrder
<1> HIDE DEF c
<1>4. rank \in Injection(I, 0..(c - 1))
  BY <1>2, <1>3 DEF Injection, IsInjective
<1>5. IsFiniteSet(0..(c - 1)) /\ Cardinality(0..(c - 1)) = c
  <2>1. 0 \in Int /\ c - 1 \in Int
    BY <1>1
  <2>2. IsFiniteSet(0..(c - 1)) /\ Cardinality(0..(c - 1)) = IF 0 > c - 1 THEN 0 ELSE (c - 1) - 0 + 1
    BY <2>1, FS_Interval
  <2> QED
    BY <1>1, <2>2
<1>6. rank \in Surjection(I, 0..(c - 1))
  <2> HIDE DEF rank
  <2> QED
    BY <1>4, <1>5, FS_Injection DEF c
<1>7. n - 1 \in 0..(c - 1)
  BY <1>1 DEF c
<1> QED
  BY <1>6, <1>7 DEF Surjection

\* In an order the ranks say who is ahead.
LEMMA AheadIsBefore ==
  ASSUME NEW I \in SUBSET Nat, IsFiniteSet(I), NEW before, IsOrder(I, before), NEW i \in I
  PROVE  Ahead(before, i) = before[i]
<1>1. DOMAIN before = I /\ before[i] \subseteq I
  BY DEF IsOrder
<1>2. ASSUME NEW j \in I
      PROVE  Cardinality(before[j]) \in Nat
  BY FS_Subset, FS_CardinalityType DEF IsOrder
<1>3. ASSUME NEW j \in before[i]
      PROVE  j \in Ahead(before, i)
  <2>1. Cardinality(before[j]) < Cardinality(before[i])
    BY RanksIncrease
  <2> QED
    BY <1>1, <2>1 DEF Ahead
<1>4. ASSUME NEW j \in Ahead(before, i), j \notin before[i]
      PROVE  FALSE
  <2>1. /\ j \in I
        /\ \/ Cardinality(before[j]) < Cardinality(before[i])
           \/ Cardinality(before[j]) = Cardinality(before[i]) /\ j < i
    BY <1>1 DEF Ahead
  <2>2. j # i
    BY <1>2, <2>1
  <2>3. i \in before[j]
    BY <1>4, <2>1, <2>2 DEF IsOrder
  <2>4. Cardinality(before[i]) < Cardinality(before[j])
    BY <2>1, <2>3, RanksIncrease
  <2> QED
    BY <1>2, <2>1, <2>4
<1> QED
  BY <1>3, <1>4

\* What is arranged has every chosen row once, in the order.
Arranges(table, items, I, before) ==
  /\ \A n \in 1..Cardinality(I) : \E i \in I :
       Cardinality(before[i]) = n - 1 /\ table[n] = items[i]
  /\ \A i \in I : Cardinality(before[i]) + 1 \in 1..Cardinality(I) /\
       table[Cardinality(before[i]) + 1] = items[i]

LEMMA ArrangedRows ==
  ASSUME NEW S, NEW items \in Seq(S), NEW I \in SUBSET DOMAIN items, NEW before, IsOrder(I, before)
  PROVE  /\ IsFiniteSet(I) /\ Cardinality(I) \in Nat
         /\ Arranged(items, before) \in Seq(S) /\ Len(Arranged(items, before)) = Cardinality(I)
         /\ Arranges(Arranged(items, before), items, I, before)
<1> DEFINE a == Arranged(items, before)
           c == Cardinality(I)
<1>1. /\ Len(items) \in Nat /\ DOMAIN items = 1..Len(items) /\ \A i \in DOMAIN items : items[i] \in S
  BY LenProperties, ElementOfSeq
<1>2. IsFiniteSet(I) /\ c \in Nat
  <2>1. IsFiniteSet(1..Len(items))
    BY <1>1, FS_Interval
  <2> QED
    BY <1>1, <2>1, FS_Subset, FS_CardinalityType
<1>3. DOMAIN before = I
  BY DEF IsOrder
<1>4. a = [n \in 1..c |-> items[CHOOSE i \in I : Cardinality(Ahead(before, i)) = n - 1]]
  BY <1>3 DEF Arranged
<1>5. ASSUME NEW n \in 1..c
      PROVE  \E i \in I : Cardinality(before[i]) = n - 1 /\ a[n] = items[i]
  <2> DEFINE i == CHOOSE k \in I : Cardinality(Ahead(before, k)) = n - 1
  <2>1. a[n] = items[i]
    BY <1>4
  <2>2. PICK k \in I : Cardinality(before[k]) = n - 1
    BY <1>2, RanksCover
  <2>3. \A m \in I : Ahead(before, m) = before[m]
    BY <1>1, <1>2, AheadIsBefore
  <2>4. i \in I /\ Cardinality(Ahead(before, i)) = n - 1
    BY <2>2, <2>3
  <2> HIDE DEF i, a, c
  <2> QED
    BY <2>1, <2>3, <2>4
<1>6. ASSUME NEW n \in 1..c PROVE a[n] \in S
  BY <1>1, <1>5
<1>7. a \in [1..c -> S]
  BY <1>4, <1>6
<1>8. ASSUME NEW i \in I
      PROVE  Cardinality(before[i]) + 1 \in 1..c /\ a[Cardinality(before[i]) + 1] = items[i]
  <2> DEFINE r == Cardinality(before[i])
  <2>1. before[i] \in SUBSET I /\ i \notin before[i]
    BY DEF IsOrder
  <2>2. /\ r \in Nat /\ r <= c /\ (c = r => I = before[i])
    BY <1>2, <2>1, FS_Subset, FS_CardinalityType
  <2>3. r # c
    BY <2>1, <2>2
  <2>4. r + 1 \in 1..c /\ (r + 1) - 1 = r
    <3> HIDE DEF r, c
    <3> QED
      BY <1>2, <2>2, <2>3
  <2>5. PICK k \in I : Cardinality(before[k]) = r /\ a[r + 1] = items[k]
    BY <1>5, <2>4
  <2>6. k = i
    <3>1. CASE k \in before[i]
      BY <1>2, <2>5, <3>1, RanksIncrease
    <3>2. CASE i \in before[k]
      BY <1>2, <2>5, <3>2, RanksIncrease
    <3> QED
      BY <3>1, <3>2 DEF IsOrder
  <2> QED
    BY <2>4, <2>5, <2>6
<1>9. a \in Seq(S) /\ Len(a) = c
  <2> HIDE DEF a, c
  <2> QED
    BY <1>2, <1>7
<1> QED
  BY <1>2, <1>5, <1>8, <1>9 DEF Arranges

-----------------------------------------------------------------------------
(* What the columns compare *)

SortKey(column, p) ==
  IF column = "created_at" THEN p.id
  ELSE IF column = "user_name" THEN OwnerRank[p.owner]
  ELSE IF column = "status" THEN IF p.status = "pending" THEN 1 ELSE 0
  ELSE p.received

LEMMA OwnerRanks == OwnerRank \in [Owner -> 1..Cardinality(Owner)]
<1> DEFINE c == Cardinality(Owner)
<1>1. IsFiniteSet(Owner) /\ ExistsBijection(1..c, Owner) /\ c \in Nat
  BY TopUpsAssumption, FS_CardinalityType
<1>2. ExistsBijection(Owner, 1..c)
  BY <1>1, Fun_ExistsBijSymmetric
<1>3. PICK rank \in Bijection(Owner, 1..c) : TRUE
  BY <1>2 DEF ExistsBijection
<1>4. rank \in [Owner -> 1..c] /\ Range(rank) = 1..c
  BY <1>3 DEF Bijection, Injection, Surjection, Range
<1> QED
  BY <1>4 DEF OwnerRank

\* The comparator of a column compares the keys of the rows.
LEMMA CompareKeys ==
  ASSUME NEW column \in Column, NEW p \in Payment, NEW q \in Payment
  PROVE  /\ SortKey(column, p) \in Int /\ SortKey(column, q) \in Int
         /\ Compare(column, p, q) = CompareNumbers(SortKey(column, p), SortKey(column, q))
<1>1. /\ p.id \in Int /\ q.id \in Int /\ p.received \in Int /\ q.received \in Int
      /\ p.owner \in Owner /\ q.owner \in Owner
  BY TopUpsAssumption DEF Payment, NoAmount
<1>2. OwnerRank[p.owner] \in Int /\ OwnerRank[q.owner] \in Int
  <2>1. OwnerRank[p.owner] \in 1..Cardinality(Owner) /\ OwnerRank[q.owner] \in 1..Cardinality(Owner)
    BY <1>1, OwnerRanks
  <2> QED
    BY <2>1
<1>3. CompareReceived(p.received, q.received) = CompareNumbers(p.received, q.received)
  BY <1>1 DEF CompareReceived, CompareNumbers, NoAmount
<1>4. CASE column = "created_at"
  BY <1>1, <1>4 DEF Compare, SortKey
<1>5. CASE column = "user_name"
  BY <1>2, <1>5 DEF Compare, SortKey
<1>6. CASE column = "status"
  BY <1>6 DEF Compare, SortKey
<1>7. CASE column = "received_amount"
  BY <1>1, <1>3, <1>7 DEF Compare, SortKey
<1> QED
  BY <1>4, <1>5, <1>6, <1>7 DEF Column

\* What comes before each row: the rows that are less, and the equal ones before it.
SortOrder(column, sign, items) ==
  [i \in DOMAIN items |->
     {j \in DOMAIN items : \/ Compare(column, items[j], items[i]) * sign < 0
                           \/ (Compare(column, items[j], items[i]) * sign = 0 /\ j < i)}]

LEMMA DirectedOrder ==
  ASSUME NEW column \in Column, NEW sign \in {-1, 1}, NEW items \in Seq(Payment)
  PROVE  /\ IsOrder(DOMAIN items, SortOrder(column, sign, items))
         /\ \A i, j \in DOMAIN items : i \in SortOrder(column, sign, items)[j] =>
              Compare(column, items[j], items[i]) * sign >= 0
<1> DEFINE key == [i \in DOMAIN items |-> SortKey(column, items[i]) * sign]
           before == SortOrder(column, sign, items)
<1>1. /\ Len(items) \in Nat /\ DOMAIN items = 1..Len(items)
      /\ \A i \in DOMAIN items : i \in Int /\ items[i] \in Payment
  BY LenProperties, ElementOfSeq
<1>2. \A i \in DOMAIN items : key[i] \in Int
  <2> TAKE i \in DOMAIN items
  <2>1. SortKey(column, items[i]) \in Int
    BY <1>1, CompareKeys
  <2> QED
    BY <2>1
<1>3. ASSUME NEW i \in DOMAIN items, NEW j \in DOMAIN items
      PROVE  Compare(column, items[j], items[i]) * sign = CompareNumbers(key[j], key[i])
  <2> DEFINE a == SortKey(column, items[j])
             b == SortKey(column, items[i])
  <2>1. /\ a \in Int /\ b \in Int /\ Compare(column, items[j], items[i]) = CompareNumbers(a, b)
        /\ key[j] = a * sign /\ key[i] = b * sign
    BY <1>1, CompareKeys
  <2> HIDE DEF a, b, key
  <2>2. CompareNumbers(a, b) * sign = CompareNumbers(a * sign, b * sign)
    <3>1. CASE sign = 1
      BY <2>1, <3>1 DEF CompareNumbers
    <3>2. CASE sign = -1
      BY <2>1, <3>2 DEF CompareNumbers
    <3> QED
      BY <3>1, <3>2
  <2> QED
    BY <2>1, <2>2
<1> HIDE DEF key
<1>4. ASSUME NEW i \in DOMAIN items, NEW j \in DOMAIN items
      PROVE  j \in before[i] <=> (key[j] < key[i] \/ (key[j] = key[i] /\ j < i))
  <2>1. j \in before[i] <=> (\/ Compare(column, items[j], items[i]) * sign < 0
                             \/ (Compare(column, items[j], items[i]) * sign = 0 /\ j < i))
    BY DEF SortOrder
  <2>2. /\ Compare(column, items[j], items[i]) * sign = CompareNumbers(key[j], key[i])
        /\ key[j] \in Int /\ key[i] \in Int
    BY <1>2, <1>3
  <2>3. /\ CompareNumbers(key[j], key[i]) < 0 <=> key[j] < key[i]
        /\ CompareNumbers(key[j], key[i]) = 0 <=> key[j] = key[i]
    BY <2>2 DEF CompareNumbers
  <2> QED
    BY <2>1, <2>2, <2>3
<1>5. before \in [DOMAIN items -> SUBSET DOMAIN items]
  BY DEF SortOrder
<1> HIDE DEF before
<1>6. IsOrder(DOMAIN items, before)
  <2>1. \A i \in DOMAIN items : i \notin before[i]
    BY <1>1, <1>2, <1>4
  <2>2. \A i, j \in DOMAIN items : i # j => (i \in before[j] \/ j \in before[i])
    BY <1>1, <1>2, <1>4
  <2>3. \A i, j, k \in DOMAIN items : (k \in before[j] /\ j \in before[i]) => k \in before[i]
    BY <1>1, <1>2, <1>4
  <2> QED
    BY <1>5, <2>1, <2>2, <2>3 DEF IsOrder
<1>7. ASSUME NEW i \in DOMAIN items, NEW j \in DOMAIN items, i \in before[j]
      PROVE  Compare(column, items[j], items[i]) * sign >= 0
  <2>1. key[i] <= key[j] /\ key[i] \in Int /\ key[j] \in Int
    BY <1>2, <1>4, <1>7
  <2>2. Compare(column, items[j], items[i]) * sign = CompareNumbers(key[j], key[i])
    BY <1>3
  <2>3. CompareNumbers(key[j], key[i]) >= 0
    BY <2>1 DEF CompareNumbers
  <2> QED
    BY <2>2, <2>3
<1> QED
  BY <1>6, <1>7 DEF before

-----------------------------------------------------------------------------
(* The journal of payments: what the table shows *)

KeptRows(v, items) == {i \in DOMAIN items : MatchesPayment(v, items[i])}
KeptOrder(v, items) == [i \in KeptRows(v, items) |-> {j \in KeptRows(v, items) : j < i}]

LEMMA FilterIsArranged ==
  ASSUME NEW v, NEW items \in Seq(Payment)
  PROVE  /\ KeptRows(v, items) \in SUBSET DOMAIN items
         /\ IsOrder(KeptRows(v, items), KeptOrder(v, items))
         /\ FilteredBy(v, items) = Arranged(items, KeptOrder(v, items))
<1> DEFINE kept == KeptRows(v, items)
           order == KeptOrder(v, items)
<1>1. Len(items) \in Nat /\ DOMAIN items = 1..Len(items)
  BY LenProperties
<1>2. kept \in SUBSET DOMAIN items
  BY DEF KeptRows
<1>3. /\ order \in [kept -> SUBSET kept]
      /\ \A i, j \in kept : j \in order[i] <=> j < i
  BY DEF KeptOrder
<1>4. FilteredBy(v, items) = Arranged(items, order)
  BY DEF FilteredBy, KeptRows, KeptOrder
<1>5. \A i \in kept : i \in Int
  BY <1>1, <1>2
<1> HIDE DEF kept, order
<1>6. IsOrder(kept, order)
  BY <1>3, <1>5 DEF IsOrder
<1> QED
  BY <1>2, <1>4, <1>6 DEF kept, order

\* What is filtered are rows of the list; nothing is lost when all match.
LEMMA FilterRows ==
  ASSUME NEW v, NEW items \in Seq(Payment)
  PROVE  /\ FilteredBy(v, items) \in Seq(Payment)
         /\ (items # <<>> /\ FilteredBy(v, items) = <<>>) =>
              \E i \in DOMAIN items : ~MatchesPayment(v, items[i])
<1> DEFINE kept == KeptRows(v, items)
           order == KeptOrder(v, items)
<1>1. /\ kept \in SUBSET DOMAIN items /\ IsOrder(kept, order)
      /\ FilteredBy(v, items) = Arranged(items, order)
  BY FilterIsArranged
<1>2. /\ Arranged(items, order) \in Seq(Payment)
      /\ Len(Arranged(items, order)) = Cardinality(kept) /\ IsFiniteSet(kept)
  <2> HIDE DEF kept, order
  <2> QED
    BY <1>1, ArrangedRows
<1>3. ASSUME items # <<>>, FilteredBy(v, items) = <<>>
      PROVE  \E i \in DOMAIN items : ~MatchesPayment(v, items[i])
  <2>1. Cardinality(kept) = 0
    BY <1>1, <1>2, <1>3, EmptySeq
  <2>2. kept = {}
    BY <1>2, <2>1, FS_EmptySet
  <2>3. 1 \in DOMAIN items
    BY <1>3, EmptySeq, LenProperties
  <2> QED
    BY <2>2, <2>3 DEF KeptRows
<1> QED
  BY <1>1, <1>2, <1>3

SortView == [column: Column, down: BOOLEAN] \cup {Unsorted}
Sign == IF view.sort.down THEN -1 ELSE 1

\* Sorting keeps every row once, and puts no row before one that it belongs behind.
LEMMA SortedComplete ==
  ASSUME NEW found \in Seq(Payment), view.sort \in SortView
  PROVE  /\ Len(SortedRows(found)) = Len(found) /\ ToSet(SortedRows(found)) = ToSet(found)
         /\ view.sort # Unsorted => \A i, j \in DOMAIN SortedRows(found) : i < j =>
              Compare(view.sort.column, SortedRows(found)[j], SortedRows(found)[i]) * Sign >= 0
<1>1. CASE view.sort = Unsorted
  BY <1>1 DEF SortedRows
<1>2. CASE view.sort # Unsorted
  <2> DEFINE column == view.sort.column
             order == SortOrder(column, Sign, found)
             table == Arranged(found, order)
             I == DOMAIN found
  <2>1. column \in Column
    BY <1>2 DEF SortView
  <2>2. Sign \in {-1, 1}
    BY DEF Sign
  <2>3. SortedRows(found) = table
    BY <1>2 DEF SortedRows, RowsBefore, SortOrder, Sign
  <2>4. IsOrder(I, order)
    BY <2>1, <2>2, DirectedOrder
  <2>5. \A i, j \in I : i \in order[j] => Compare(column, found[j], found[i]) * Sign >= 0
    BY <2>1, <2>2, DirectedOrder
  <2>6. Len(found) \in Nat /\ I = 1..Len(found) /\ I \in SUBSET DOMAIN found /\ Cardinality(I) = Len(found)
    <3>1. Len(found) \in Nat /\ DOMAIN found = 1..Len(found)
      BY LenProperties
    <3>2. Cardinality(1..Len(found)) = Len(found)
      BY <3>1, FS_Interval
    <3> QED
      BY <3>1, <3>2
  <2> HIDE DEF order, I
  <2>7. /\ IsFiniteSet(I) /\ table \in Seq(Payment) /\ Len(table) = Cardinality(I)
        /\ Arranges(table, found, I, order)
    BY <2>4, <2>6, ArrangedRows
  <2> HIDE DEF table
  <2>8. \A n \in 1..Cardinality(I) : \E i \in I :
          Cardinality(order[i]) = n - 1 /\ table[n] = found[i]
    BY <2>7 DEF Arranges
  <2>9. \A i \in I : Cardinality(order[i]) + 1 \in 1..Cardinality(I) /\
          table[Cardinality(order[i]) + 1] = found[i]
    BY <2>7 DEF Arranges
  <2>10. DOMAIN table = 1..Len(found) /\ Len(table) = Len(found)
    BY <2>6, <2>7, LenProperties
  <2>11. ToSet(table) = ToSet(found)
    <3>1. ASSUME NEW n \in 1..Len(found) PROVE table[n] \in {found[i] : i \in I}
      BY <2>6, <2>8
    <3>2. ASSUME NEW i \in I PROVE found[i] \in {table[n] : n \in 1..Len(found)}
      BY <2>6, <2>9
    <3> QED
      BY <2>10, <3>1, <3>2 DEF ToSet, I
  <2>12. ASSUME NEW m \in DOMAIN table, NEW n \in DOMAIN table, m < n
         PROVE  Compare(column, table[n], table[m]) * Sign >= 0
    <3>1. PICK i \in I : Cardinality(order[i]) = m - 1 /\ table[m] = found[i]
      BY <2>6, <2>8, <2>10
    <3>2. PICK j \in I : Cardinality(order[j]) = n - 1 /\ table[n] = found[j]
      BY <2>6, <2>8, <2>10
    <3>3. i # j
      BY <2>10, <2>12, <2>6, <3>1, <3>2
    <3>4. ~(j \in order[i])
      <4>1. SUFFICES ASSUME j \in order[i] PROVE FALSE
        OBVIOUS
      <4>2. Cardinality(order[j]) < Cardinality(order[i])
        BY <2>4, <2>7, <4>1, RanksIncrease
      <4> QED
        BY <2>6, <2>10, <2>12, <3>1, <3>2, <4>2
    <3>5. i \in order[j]
      BY <2>4, <3>3, <3>4 DEF IsOrder
    <3> QED
      BY <2>5, <3>1, <3>2, <3>5
  <2> QED
    BY <2>3, <2>6, <2>10, <2>11, <2>12
<1> QED
  BY <1>1, <1>2

-----------------------------------------------------------------------------
(* The journal of payments: its inductive invariant *)

JournalState == [loaded: BOOLEAN, failed: BOOLEAN, fetching: BOOLEAN, data: Seq(Payment)]
ViewState == [user: Owner \cup {All}, status: {All, "pending", "succeeded"}, search: BOOLEAN,
              expanded: 0..MaxJournal, sort: SortView]
TopUpsInv ==
  /\ payments \in Seq(Payment) /\ Len(payments) <= MaxJournal
  /\ journal \in JournalState /\ view \in ViewState

LEMMA NewViewState == NewView \in ViewState /\ NewView.sort \in SortView
<1>1. [column |-> "created_at", down |-> TRUE] \in SortView
  BY DEF SortView, Column
<1>2. 0 \in 0..MaxJournal
  BY TopUpsAssumption
<1> QED
  BY <1>1, <1>2 DEF NewView, ViewState

LEMMA RenderedState ==
  ASSUME NEW v \in ViewState, NEW j
  PROVE  Rendered(v, j) \in ViewState
<1>1. [v EXCEPT !.sort = NewView.sort] \in ViewState
  BY NewViewState DEF ViewState
<1> QED
  BY <1>1, NewViewState DEF Rendered

LEMMA ViewBecomesState ==
  ASSUME TopUpsInv, NEW v \in ViewState, ViewBecomes(v)
  PROVE  TopUpsInv'
<1>1. view' \in ViewState
  BY RenderedState DEF ViewBecomes
<1> QED
  BY <1>1 DEF ViewBecomes, TopUpsInv

LEMMA CreateKeepsJournal ==
  ASSUME TopUpsInv, NEW owner \in Owner, CreatePayment(owner)
  PROVE  TopUpsInv'
<1> DEFINE p == [id |-> Len(payments) + 1, owner |-> owner, status |-> "pending",
                 received |-> NoAmount]
<1>1. Len(payments) \in Nat /\ Len(payments) < MaxJournal /\ MaxJournal \in Nat
  BY TopUpsAssumption, LenProperties DEF TopUpsInv, CreatePayment
<1>2. Len(payments) + 1 \in 1..MaxJournal
  BY <1>1
<1>3. p \in Payment
  BY <1>2 DEF Payment
<1>4. payments' = <<p>> \o payments
  BY DEF CreatePayment
<1> HIDE DEF p
<1>5. <<p>> \in Seq(Payment) /\ Len(<<p>>) = 1
  BY <1>3
<1>6. payments' \in Seq(Payment) /\ Len(payments') = 1 + Len(payments)
  BY <1>4, <1>5, ConcatProperties DEF TopUpsInv
<1> QED
  BY <1>1, <1>6 DEF CreatePayment, TopUpsInv

LEMMA SettleKeepsJournal ==
  ASSUME TopUpsInv, NEW i \in DOMAIN payments, NEW amount \in 1..2, SettlePayment(i, amount)
  PROVE  TopUpsInv'
<1> DEFINE p == [payments[i] EXCEPT !.status = "succeeded", !.received = amount]
<1>1. Len(payments) \in Nat /\ DOMAIN payments = 1..Len(payments) /\ payments[i] \in Payment
  BY LenProperties, ElementOfSeq DEF TopUpsInv
<1>2. p \in Payment
  BY <1>1 DEF Payment
<1>3. payments' = [payments EXCEPT ![i] = p]
  BY DEF SettlePayment
<1> HIDE DEF p
<1>4. payments' \in Seq(Payment) /\ Len(payments') = Len(payments)
  BY <1>1, <1>2, <1>3, ExceptSeq DEF TopUpsInv
<1> QED
  BY <1>4 DEF SettlePayment, TopUpsInv

LEMMA ArrivalKeepsJournal ==
  ASSUME TopUpsInv, NEW ok \in BOOLEAN, JournalArrives(ok)
  PROVE  TopUpsInv'
<1>1. journal' \in JournalState
  <2>1. CASE ok
    BY <2>1 DEF JournalArrives, TopUpsInv, JournalState
  <2>2. CASE ~ok
    <3>1. journal' = [journal EXCEPT !.failed = TRUE, !.fetching = FALSE]
      BY <2>2 DEF JournalArrives
    <3> QED
      BY <3>1 DEF TopUpsInv, JournalState
  <2> QED
    BY <2>1, <2>2
<1>2. view' \in ViewState
  BY RenderedState DEF JournalArrives, TopUpsInv
<1> QED
  BY <1>1, <1>2 DEF JournalArrives, TopUpsInv

LEMMA SortKeepsJournal ==
  ASSUME TopUpsInv, NEW column \in Column, ToggleSort(column)
  PROVE  TopUpsInv'
<1> DEFINE sort == IF view.sort.column # column THEN [column |-> column, down |-> TRUE]
                   ELSE IF view.sort.down THEN [view.sort EXCEPT !.down = FALSE] ELSE Unsorted
<1>1. view \in ViewState /\ view.sort \in SortView
  BY DEF TopUpsInv, ViewState
<1>2. [column |-> column, down |-> TRUE] \in SortView /\ Unsorted \in SortView
  BY DEF SortView
<1>3. ASSUME view.sort.column = column
      PROVE  [view.sort EXCEPT !.down = FALSE] \in SortView
  <2>1. view.sort # Unsorted
    BY <1>3 DEF Unsorted, Column
  <2> QED
    BY <1>1, <2>1 DEF SortView
<1>4. sort \in SortView
  BY <1>2, <1>3
<1>5. ViewBecomes([view EXCEPT !.sort = sort])
  BY DEF ToggleSort
<1> HIDE DEF sort
<1>6. [view EXCEPT !.sort = sort] \in ViewState
  BY <1>1, <1>4 DEF ViewState
<1> QED
  BY <1>5, <1>6, ViewBecomesState

LEMMA FiltersKeepJournal ==
  ASSUME TopUpsInv,
         \/ ResetFilters
         \/ \E user \in UserOptions : ChooseUser(user)
         \/ \E status \in {All, "pending", "succeeded"} : ChooseStatus(status)
         \/ \E on \in BOOLEAN : Search(on)
  PROVE  TopUpsInv'
<1>1. view \in ViewState /\ journal.data \in Seq(Payment)
  BY DEF TopUpsInv, JournalState
<1>2. CASE ResetFilters
  <2>1. [view EXCEPT !.user = All, !.status = All, !.search = FALSE] \in ViewState
    BY <1>1 DEF ViewState
  <2> QED
    BY <1>2, <2>1, ViewBecomesState DEF ResetFilters
<1>3. ASSUME NEW user \in UserOptions, ChooseUser(user) PROVE TopUpsInv'
  <2>1. user \in Owner \cup {All}
    <3>1. ASSUME NEW i \in DOMAIN journal.data PROVE journal.data[i].owner \in Owner
      <4>1. journal.data[i] \in Payment
        BY <1>1, ElementOfSeq, LenProperties
      <4> QED
        BY <4>1 DEF Payment
    <3> QED
      BY <3>1 DEF UserOptions
  <2>2. [view EXCEPT !.user = user] \in ViewState
    BY <1>1, <2>1 DEF ViewState
  <2> QED
    BY <1>3, <2>2, ViewBecomesState DEF ChooseUser
<1>4. ASSUME NEW status \in {All, "pending", "succeeded"}, ChooseStatus(status) PROVE TopUpsInv'
  <2>1. [view EXCEPT !.status = status] \in ViewState
    BY <1>1 DEF ViewState
  <2> QED
    BY <1>4, <2>1, ViewBecomesState DEF ChooseStatus
<1>5. ASSUME NEW on \in BOOLEAN, Search(on) PROVE TopUpsInv'
  <2>1. [view EXCEPT !.search = on] \in ViewState
    BY <1>1 DEF ViewState
  <2> QED
    BY <1>5, <2>1, ViewBecomesState DEF Search
<1> QED
  BY <1>2, <1>3, <1>4, <1>5

LEMMA ExpandKeepsJournal ==
  ASSUME TopUpsInv, NEW i, ExpandRow(i)
  PROVE  TopUpsInv'
<1> DEFINE row == IF view.expanded = Filtered[i].id THEN 0 ELSE Filtered[i].id
<1>1. view \in ViewState /\ journal.data \in Seq(Payment) /\ MaxJournal \in Nat
  BY TopUpsAssumption DEF TopUpsInv, JournalState
<1>2. Filtered \in Seq(Payment)
  BY <1>1, FilterRows DEF Filtered
<1>3. i \in DOMAIN Filtered
  BY DEF ExpandRow
<1>4. Filtered[i] \in Payment
  BY <1>2, <1>3, ElementOfSeq, LenProperties
<1>5. Filtered[i].id \in 1..MaxJournal
  BY <1>4 DEF Payment
<1>6. row \in 0..MaxJournal
  BY <1>1, <1>5
<1>7. ViewBecomes([view EXCEPT !.expanded = row])
  BY DEF ExpandRow
<1> HIDE DEF row
<1>8. [view EXCEPT !.expanded = row] \in ViewState
  BY <1>1, <1>6 DEF ViewState
<1> QED
  BY <1>7, <1>8, ViewBecomesState

\* The step of TopUpsInvariance.
LEMMA TopUpsStep == TopUpsInv /\ [TopUpsNext]_topUpsVars => TopUpsInv'
<1> SUFFICES ASSUME TopUpsInv, [TopUpsNext]_topUpsVars PROVE TopUpsInv'
  OBVIOUS
<1>1. CASE FetchJournal
  <2>1. journal' = [journal EXCEPT !.fetching = TRUE]
    BY <1>1 DEF FetchJournal
  <2>2. journal' \in JournalState
    BY <2>1 DEF TopUpsInv, JournalState
  <2> QED
    BY <1>1, <2>2 DEF FetchJournal, TopUpsInv
<1>2. ASSUME NEW ok \in BOOLEAN, JournalArrives(ok) PROVE TopUpsInv'
  BY <1>2, ArrivalKeepsJournal
<1>3. ASSUME NEW owner \in Owner, CreatePayment(owner) PROVE TopUpsInv'
  BY <1>3, CreateKeepsJournal
<1>4. ASSUME NEW i \in DOMAIN payments, NEW amount \in 1..2, SettlePayment(i, amount)
      PROVE  TopUpsInv'
  BY <1>4, SettleKeepsJournal
<1>5. ASSUME NEW column \in Column, ToggleSort(column) PROVE TopUpsInv'
  BY <1>5, SortKeepsJournal
<1>6. ASSUME \/ ResetFilters
             \/ \E user \in UserOptions : ChooseUser(user)
             \/ \E status \in {All, "pending", "succeeded"} : ChooseStatus(status)
             \/ \E on \in BOOLEAN : Search(on)
      PROVE  TopUpsInv'
  BY <1>6, FiltersKeepJournal
<1>7. ASSUME NEW i, ExpandRow(i) PROVE TopUpsInv'
  BY <1>7, ExpandKeepsJournal
<1>8. CASE UNCHANGED topUpsVars
  BY <1>8 DEF topUpsVars, TopUpsInv
<1> QED
  BY <1>1, <1>2, <1>3, <1>4, <1>5, <1>6, <1>7, <1>8 DEF TopUpsNext

\* What is filtered and sorted is right for whatever rows, filters and column there are.
LEMMA TopUpsConsequences == TopUpsInv => TopUpsTypeOK /\ TableComplete
<1> SUFFICES ASSUME TopUpsInv PROVE TopUpsTypeOK /\ TableComplete
  OBVIOUS
<1>1. /\ payments \in Seq(Payment) /\ journal.data \in Seq(Payment)
      /\ view \in ViewState /\ view.sort \in SortView
  BY DEF TopUpsInv, JournalState, ViewState
<1>2. TopUpsTypeOK
  <2>1. view.sort.column \in Column \cup {"none"}
    BY <1>1 DEF SortView, Unsorted
  <2> QED
    BY <1>1, <2>1 DEF TopUpsTypeOK, ViewState
<1>3. Filtered \in Seq(Payment)
  BY <1>1, FilterRows DEF Filtered
<1>4. /\ Len(TableRows) = Len(Filtered) /\ ToSet(TableRows) = ToSet(Filtered)
      /\ view.sort # Unsorted => \A i, j \in DOMAIN TableRows : i < j =>
           Compare(view.sort.column, TableRows[j], TableRows[i]) * Sign >= 0
  BY <1>1, <1>3, SortedComplete DEF TableRows
<1>5. ASSUME ViewShown(journal), Filtered = <<>> PROVE HasActiveFilters
  <2>1. PICK i \in DOMAIN journal.data : ~MatchesPayment(view, journal.data[i])
    BY <1>1, <1>5, FilterRows DEF Filtered, ViewShown
  <2> QED
    BY <2>1 DEF MatchesPayment, HasActiveFilters
<1>6. TableComplete
  BY <1>4, <1>5 DEF TableComplete, Sign
<1> QED
  BY <1>2, <1>6

LEMMA TopUpsStart == TopUpsInit => TopUpsInv
<1> SUFFICES ASSUME TopUpsInit PROVE TopUpsInv
  OBVIOUS
<1>1. <<>> \in Seq(Payment) /\ Len(<<>>) = 0 /\ 0 <= MaxJournal
  BY TopUpsAssumption
<1>2. journal \in JournalState
  BY <1>1 DEF TopUpsInit, JournalState
<1> QED
  BY <1>1, <1>2, NewViewState DEF TopUpsInit, TopUpsInv

\* The payments, the query and the view of the journal keep their types (TopUpsPage,
\* OperationsView).
THEOREM TopUpsInvariance == TopUpsSpec => []TopUpsInv
  BY TopUpsStart, TopUpsStep, PTL DEF TopUpsSpec

\* Filtering and sorting lose no payment and repeat none, for any number of payments, any
\* filters and every column: DataTable and OperationsView.
THEOREM TableIsComplete == TopUpsSpec => []TableComplete
  BY TopUpsInvariance, TopUpsConsequences, PTL

-----------------------------------------------------------------------------
(* Sums over finite sets *)

\* What holds of a set when it holds of it without any one of its elements holds of every
\* subset of a finite set.
LEMMA EverySubset ==
  ASSUME NEW S, IsFiniteSet(S), NEW P,
         \A s \in SUBSET S : (\A x \in s : s \ {x} \in P) => s \in P
  PROVE  \A s \in SUBSET S : s \in P
<1> DEFINE Sizes == {Cardinality(s) : s \in {t \in SUBSET S : t \notin P}}
<1>1. SUFFICES ASSUME NEW s \in SUBSET S, s \notin P PROVE FALSE
  OBVIOUS
<1>2. \A t \in SUBSET S : IsFiniteSet(t) /\ Cardinality(t) \in Nat
  BY FS_Subset, FS_CardinalityType
<1>3. Sizes \in SUBSET Nat /\ Sizes # {}
  BY <1>1, <1>2
<1> HIDE DEF Sizes
<1>4. PICK n \in Sizes : \A m \in Sizes : n <= m
  BY <1>3, LeastExists
<1>5. PICK t \in SUBSET S : t \notin P /\ Cardinality(t) = n
  BY <1>4 DEF Sizes
<1>6. PICK x \in t : t \ {x} \notin P
  BY <1>5
<1>7. Cardinality(t \ {x}) = Cardinality(t) - 1
  BY <1>2, <1>6, FS_RemoveElement
<1>8. Cardinality(t \ {x}) \in Sizes
  BY <1>6 DEF Sizes
<1> QED
  BY <1>2, <1>3, <1>4, <1>5, <1>7, <1>8

\* A gives the sum of f over each subset of S.
AddsUp(A, S, f) ==
  /\ A \in [SUBSET S -> Int] /\ A[{}] = 0
  /\ \A s \in SUBSET S : \A x \in S \ s : A[s \cup {x}] = A[s] + f[x]

LEMMA SumExists ==
  ASSUME NEW S, IsFiniteSet(S), NEW f \in [S -> Int]
  PROVE  \E A : AddsUp(A, S, f)
<1> DEFINE P == {s \in SUBSET S : \E A : AddsUp(A, s, f)}
<1>1. ASSUME NEW s \in SUBSET S, \A x \in s : s \ {x} \in P PROVE s \in P
  <2>1. CASE s = {}
    <3> DEFINE A == [u \in SUBSET s |-> 0]
    <3>1. AddsUp(A, s, f)
      BY <2>1 DEF AddsUp
    <3> QED
      BY <3>1
  <2>2. CASE s # {}
    <3>1. PICK y \in s : TRUE
      BY <2>2
    <3> DEFINE t == s \ {y}
    <3>2. PICK A : AddsUp(A, t, f)
      BY <1>1, <3>1
    <3> DEFINE B == [u \in SUBSET s |-> IF y \in u THEN A[u \ {y}] + f[y] ELSE A[u]]
    <3>3. f[y] \in Int /\ \A u \in SUBSET t : A[u] \in Int
      BY <3>1, <3>2 DEF AddsUp
    <3>4. \A u \in SUBSET s : (y \in u => u \ {y} \in SUBSET t) /\ (y \notin u => u \in SUBSET t)
      OBVIOUS
    <3>5. B \in [SUBSET s -> Int]
      <4>1. ASSUME NEW u \in SUBSET s PROVE B[u] \in Int
        BY <3>3, <3>4
      <4> QED
        BY <4>1
    <3>6. B[{}] = 0
      BY <3>2 DEF AddsUp
    <3>7. ASSUME NEW u \in SUBSET s, NEW x \in s \ u PROVE B[u \cup {x}] = B[u] + f[x]
      <4>1. u \cup {x} \in SUBSET s /\ f[x] \in Int
        OBVIOUS
      <4>2. CASE x = y
        <5>1. u \in SUBSET t /\ (u \cup {x}) \ {y} = u /\ y \notin u
          BY <4>2
        <5> QED
          BY <3>3, <4>1, <4>2, <5>1
      <4>3. CASE x # y /\ y \in u
        <5>1. u \ {y} \in SUBSET t /\ x \in t \ (u \ {y})
          BY <4>3
        <5>2. (u \cup {x}) \ {y} = (u \ {y}) \cup {x}
          BY <4>3
        <5>3. A[(u \ {y}) \cup {x}] = A[u \ {y}] + f[x]
          BY <3>2, <5>1 DEF AddsUp
        <5>4. B[u \cup {x}] = A[(u \ {y}) \cup {x}] + f[y] /\ B[u] = A[u \ {y}] + f[y]
          BY <4>1, <4>3, <5>2
        <5>5. A[u \ {y}] \in Int
          BY <3>3, <5>1
        <5> QED
          BY <3>3, <4>1, <5>3, <5>4, <5>5
      <4>4. CASE x # y /\ y \notin u
        <5>1. u \in SUBSET t /\ x \in t \ u
          BY <4>4
        <5>2. A[u \cup {x}] = A[u] + f[x]
          BY <3>2, <5>1 DEF AddsUp
        <5> QED
          BY <4>1, <4>4, <5>2
      <4> QED
        BY <4>2, <4>3, <4>4
    <3>8. AddsUp(B, s, f)
      <4> HIDE DEF B
      <4> QED
        BY <3>5, <3>6, <3>7 DEF AddsUp
    <3> QED
      BY <3>8
  <2> QED
    BY <2>1, <2>2
<1> HIDE DEF P
<1>2. \A s \in SUBSET S : s \in P
  BY <1>1, EverySubset
<1> QED
  BY <1>2 DEF P

\* What takes one element at a time, whichever it is, comes to the sum.
Unfolds(t, S, f) ==
  /\ t[{}] = 0
  /\ \A s \in SUBSET S : s # {} => \E x \in s : t[s] = f[x] + t[s \ {x}]

LEMMA SumIsUnique ==
  ASSUME NEW S, IsFiniteSet(S), NEW f \in [S -> Int], NEW A, AddsUp(A, S, f),
         NEW t, Unfolds(t, S, f)
  PROVE  \A s \in SUBSET S : t[s] = A[s]
<1> DEFINE P == {s \in SUBSET S : t[s] = A[s]}
<1>1. ASSUME NEW s \in SUBSET S, \A x \in s : s \ {x} \in P PROVE s \in P
  <2>1. CASE s = {}
    BY <2>1 DEF Unfolds, AddsUp
  <2>2. CASE s # {}
    <3>1. PICK x \in s : t[s] = f[x] + t[s \ {x}]
      BY <2>2 DEF Unfolds
    <3>2. t[s \ {x}] = A[s \ {x}] /\ s \ {x} \in SUBSET S /\ x \in S \ (s \ {x})
      BY <1>1
    <3>3. (s \ {x}) \cup {x} = s
      OBVIOUS
    <3>4. A[(s \ {x}) \cup {x}] = A[s \ {x}] + f[x] /\ A[s \ {x}] \in Int /\ f[x] \in Int
      BY <3>2 DEF AddsUp
    <3>5. A[s] = A[s \ {x}] + f[x]
      BY <3>3, <3>4
    <3>6. t[s] = A[s]
      BY ONLY <3>1, <3>2, <3>4, <3>5
    <3> QED
      BY <3>6
  <2> QED
    BY <2>1, <2>2
<1> HIDE DEF P
<1>2. \A s \in SUBSET S : s \in P
  BY <1>1, EverySubset
<1> QED
  BY <1>2 DEF P

\* The sum over two sets without a common element is that of their sums.
LEMMA SumOfUnion ==
  ASSUME NEW S, IsFiniteSet(S), NEW f \in [S -> Int], NEW A, AddsUp(A, S, f),
         NEW s \in SUBSET S, NEW r \in SUBSET S, s \cap r = {}
  PROVE  A[s \cup r] = A[s] + A[r]
<1> DEFINE P == {v \in SUBSET r : A[s \cup v] = A[s] + A[v]}
<1>1. IsFiniteSet(r)
  BY FS_Subset
<1>2. ASSUME NEW v \in SUBSET r, \A x \in v : v \ {x} \in P PROVE v \in P
  <2>1. A[s] \in Int /\ A[{}] = 0
    BY DEF AddsUp
  <2>2. CASE v = {}
    <3>1. s \cup v = s
      BY <2>2
    <3> QED
      BY <2>1, <2>2, <3>1
  <2>3. CASE v # {}
    <3>1. PICK x \in v : TRUE
      BY <2>3
    <3> DEFINE w == v \ {x}
    <3>2. A[s \cup w] = A[s] + A[w]
      BY <1>2, <3>1
    <3>3. w \in SUBSET S /\ x \in S \ w /\ s \cup w \in SUBSET S /\ x \in S \ (s \cup w)
      BY <3>1
    <3>4. w \cup {x} = v /\ (s \cup w) \cup {x} = s \cup v
      BY <3>1
    <3>5. A[w \cup {x}] = A[w] + f[x] /\ A[(s \cup w) \cup {x}] = A[s \cup w] + f[x]
      BY <3>3 DEF AddsUp
    <3>6. A[w] \in Int /\ f[x] \in Int
      BY <3>3 DEF AddsUp
    <3>7. A[v] = A[w] + f[x] /\ A[s \cup v] = A[s \cup w] + f[x]
      BY <3>4, <3>5
    <3>8. A[s \cup v] = A[s] + A[v]
      <4> HIDE DEF w
      <4> QED
        BY ONLY <2>1, <3>2, <3>6, <3>7
    <3> QED
      BY <3>8
  <2> QED
    BY <2>2, <2>3
<1> HIDE DEF P
<1>3. \A v \in SUBSET r : v \in P
  BY <1>1, <1>2, EverySubset
<1> QED
  BY <1>3 DEF P

\* The sum of some entries: MapThenSumSet takes them in whatever order.
LEMMA SumOfIs ==
  ASSUME NEW S, IsFiniteSet(S), \A e \in S : e.amount \in Int,
         NEW A, AddsUp(A, S, [e \in S |-> e.amount])
  PROVE  SumOf(S) = A[S]
<1> DEFINE f == [e \in S |-> e.amount]
           x(s) == CHOOSE e \in s : TRUE
           next(g) == [s \in SUBSET S |-> IF s = {} THEN 0 ELSE x(s).amount + g[s \ {x(s)}]]
           t == CHOOSE g : g = next(g)
<1>1. SumOf(S) = t[S]
  BY DEF SumOf, MapThenSumSet, MapThenFoldSet
<1>2. \A s \in SUBSET S : s # {} => x(s) \in s
  OBVIOUS
<1> HIDE DEF x
<1>3. A \in [SUBSET S -> Int] /\ A[{}] = 0
  BY DEF AddsUp
<1>4. ASSUME NEW s \in SUBSET S, s # {} PROVE A[s] = x(s).amount + A[s \ {x(s)}]
  <2>1. x(s) \in s /\ x(s) \in S \ (s \ {x(s)}) /\ s \ {x(s)} \in SUBSET S
    BY <1>2, <1>4
  <2>2. A[(s \ {x(s)}) \cup {x(s)}] = A[s \ {x(s)}] + f[x(s)]
    BY <2>1 DEF AddsUp
  <2>3. (s \ {x(s)}) \cup {x(s)} = s /\ f[x(s)] = x(s).amount /\ x(s).amount \in Int
    BY <2>1
  <2>4. A[s \ {x(s)}] \in Int
    BY <1>3, <2>1
  <2> HIDE DEF f
  <2>5. A[s] = A[s \ {x(s)}] + x(s).amount
    BY <2>2, <2>3
  <2> QED
    BY ONLY <2>3, <2>4, <2>5
<1>5. A = next(A)
  <2>1. \A s \in SUBSET S : A[s] = IF s = {} THEN 0 ELSE x(s).amount + A[s \ {x(s)}]
    BY <1>3, <1>4
  <2>2. A = [s \in SUBSET S |-> A[s]]
    BY <1>3
  <2> QED
    BY <2>1, <2>2
<1>6. t = next(t)
  <2> HIDE DEF next, t
  <2>1. t = CHOOSE g : g = next(g)
    BY DEF t
  <2> QED
    BY <1>5, <2>1
<1> HIDE DEF t
<1>7. Unfolds(t, S, f)
  <2>1. t[{}] = 0
    BY <1>6
  <2>2. ASSUME NEW s \in SUBSET S, s # {} PROVE \E e \in s : t[s] = f[e] + t[s \ {e}]
    <3>1. t[s] = x(s).amount + t[s \ {x(s)}] /\ x(s) \in s
      BY <1>2, <1>6, <2>2
    <3>2. f[x(s)] = x(s).amount
      BY <3>1
    <3> HIDE DEF f
    <3> QED
      BY <3>1, <3>2
  <2> HIDE DEF f
  <2> QED
    BY <2>1, <2>2 DEF Unfolds
<1>8. f \in [S -> Int]
  OBVIOUS
<1>9. AddsUp(A, S, f)
  OBVIOUS
<1> HIDE DEF f
<1> QED
  BY <1>1, <1>7, <1>8, <1>9, SumIsUnique

\* The totals that reduce computes: of the rows of a group, and of the groups.
AmountOfRows(items) == FoldLeft(LAMBDA sum, e : sum + e.amount, 0, items)
TotalOfGroups(items) == FoldLeft(LAMBDA sum, g : sum + g.total, 0, items)

\* FoldLeft takes the last index first.
LastIndex(s) == CHOOSE i \in s : \A j \in s : i >= j

LEMMA LastIndexIs ==
  ASSUME NEW n \in Nat, NEW s \in SUBSET (1..n), s # {}
  PROVE  LastIndex(s) \in s
BY GreatestExists DEF LastIndex

\* A sum that is taken from the last index on.
TakesLast(t, n, f) ==
  t = [s \in SUBSET (1..n) |-> IF s = {} THEN 0 ELSE t[s \ {LastIndex(s)}] + f[LastIndex(s)]]

LEMMA LastFirst ==
  ASSUME NEW n \in Nat, NEW f \in [1..n -> Int], NEW A, AddsUp(A, 1..n, f)
  PROVE  TakesLast(A, n, f)
<1>1. A \in [SUBSET (1..n) -> Int] /\ A[{}] = 0
  BY DEF AddsUp
<1>2. ASSUME NEW s \in SUBSET (1..n), s # {} PROVE A[s] = A[s \ {LastIndex(s)}] + f[LastIndex(s)]
  <2> DEFINE i == LastIndex(s)
  <2>1. i \in s
    BY <1>2, LastIndexIs
  <2> HIDE DEF i
  <2>2. A[(s \ {i}) \cup {i}] = A[s \ {i}] + f[i] /\ (s \ {i}) \cup {i} = s
    BY <2>1 DEF AddsUp
  <2> QED
    BY <2>2 DEF i
<1>3. \A s \in SUBSET (1..n) :
        A[s] = IF s = {} THEN 0 ELSE A[s \ {LastIndex(s)}] + f[LastIndex(s)]
  BY <1>1, <1>2
<1>4. A = [s \in SUBSET (1..n) |-> A[s]]
  BY <1>1
<1> QED
  BY <1>3, <1>4 DEF TakesLast

LEMMA LastFirstIsSum ==
  ASSUME NEW n \in Nat, NEW f \in [1..n -> Int], NEW A, AddsUp(A, 1..n, f),
         NEW t, TakesLast(t, n, f)
  PROVE  t[1..n] = A[1..n]
<1>1. IsFiniteSet(1..n)
  BY FS_Interval
<1>2. t[{}] = 0
  BY DEF TakesLast
<1>3. ASSUME NEW s \in SUBSET (1..n), s # {} PROVE \E i \in s : t[s] = f[i] + t[s \ {i}]
  <2> DEFINE P == {u \in SUBSET (1..n) : t[u] \in Int}
  <2>1. ASSUME NEW u \in SUBSET (1..n), \A i \in u : u \ {i} \in P PROVE u \in P
    <3>1. CASE u = {}
      BY <1>2, <3>1
    <3>2. CASE u # {}
      <4>1. LastIndex(u) \in u
        BY <3>2, LastIndexIs
      <4>2. t[u] = t[u \ {LastIndex(u)}] + f[LastIndex(u)]
        BY <3>2 DEF TakesLast
      <4>3. t[u \ {LastIndex(u)}] \in Int /\ f[LastIndex(u)] \in Int
        BY <2>1, <4>1
      <4>4. t[u] \in Int
        BY ONLY <4>2, <4>3
      <4> QED
        BY <4>4
    <3> QED
      BY <3>1, <3>2
  <2> HIDE DEF P
  <2>2. \A u \in SUBSET (1..n) : u \in P
    BY <1>1, <2>1, EverySubset
  <2>3. LastIndex(s) \in s
    BY <1>3, LastIndexIs
  <2>4. t[s] = t[s \ {LastIndex(s)}] + f[LastIndex(s)]
    BY <1>3 DEF TakesLast
  <2>5. t[s \ {LastIndex(s)}] \in Int /\ f[LastIndex(s)] \in Int
    BY <2>2, <2>3 DEF P
  <2>6. t[s] = f[LastIndex(s)] + t[s \ {LastIndex(s)}]
    BY ONLY <2>4, <2>5
  <2> QED
    BY <2>3, <2>6
<1>4. Unfolds(t, 1..n, f)
  BY <1>2, <1>3 DEF Unfolds
<1> QED
  BY <1>1, <1>4, SumIsUnique

LEMMA AmountOfRowsIs ==
  ASSUME NEW n \in Nat, NEW items, DOMAIN items = 1..n, \A i \in 1..n : items[i].amount \in Int,
         NEW A, AddsUp(A, 1..n, [i \in 1..n |-> items[i].amount])
  PROVE  AmountOfRows(items) = A[1..n]
<1> DEFINE f == [i \in 1..n |-> items[i].amount]
           next(g) == [s \in SUBSET (1..n) |-> IF s = {} THEN 0
                                               ELSE g[s \ {LastIndex(s)}] + items[LastIndex(s)].amount]
           t == CHOOSE g : g = next(g)
<1>1. AmountOfRows(items) = t[1..n]
  BY DEF AmountOfRows, FoldLeft, MapThenFoldSet, Max, LastIndex
<1>2. ASSUME NEW g, NEW s \in SUBSET (1..n), s # {}
      PROVE  items[LastIndex(s)].amount = f[LastIndex(s)]
  BY <1>2, LastIndexIs
<1>3. \A g : next(g) = [s \in SUBSET (1..n) |-> IF s = {} THEN 0
                                                ELSE g[s \ {LastIndex(s)}] + f[LastIndex(s)]]
  BY <1>2
<1>4. f \in [1..n -> Int] /\ AddsUp(A, 1..n, f)
  OBVIOUS
<1> HIDE DEF f
<1>5. A = next(A)
  <2> HIDE DEF next
  <2> QED
    BY <1>3, <1>4, LastFirst DEF TakesLast
<1>6. t = next(t)
  <2> HIDE DEF next, t
  <2>1. t = CHOOSE g : g = next(g)
    BY DEF t
  <2> QED
    BY <1>5, <2>1
<1> HIDE DEF t, next
<1>7. TakesLast(t, n, f)
  BY <1>3, <1>6 DEF TakesLast
<1> QED
  BY <1>1, <1>4, <1>7, LastFirstIsSum

LEMMA TotalOfGroupsIs ==
  ASSUME NEW n \in Nat, NEW items, DOMAIN items = 1..n, \A i \in 1..n : items[i].total \in Int,
         NEW A, AddsUp(A, 1..n, [i \in 1..n |-> items[i].total])
  PROVE  TotalOfGroups(items) = A[1..n]
<1> DEFINE f == [i \in 1..n |-> items[i].total]
           next(g) == [s \in SUBSET (1..n) |-> IF s = {} THEN 0
                                               ELSE g[s \ {LastIndex(s)}] + items[LastIndex(s)].total]
           t == CHOOSE g : g = next(g)
<1>1. TotalOfGroups(items) = t[1..n]
  BY DEF TotalOfGroups, FoldLeft, MapThenFoldSet, Max, LastIndex
<1>2. ASSUME NEW g, NEW s \in SUBSET (1..n), s # {}
      PROVE  items[LastIndex(s)].total = f[LastIndex(s)]
  BY <1>2, LastIndexIs
<1>3. \A g : next(g) = [s \in SUBSET (1..n) |-> IF s = {} THEN 0
                                                ELSE g[s \ {LastIndex(s)}] + f[LastIndex(s)]]
  BY <1>2
<1>4. f \in [1..n -> Int] /\ AddsUp(A, 1..n, f)
  OBVIOUS
<1> HIDE DEF f
<1>5. A = next(A)
  <2> HIDE DEF next
  <2> QED
    BY <1>3, <1>4, LastFirst DEF TakesLast
<1>6. t = next(t)
  <2> HIDE DEF next, t
  <2>1. t = CHOOSE g : g = next(g)
    BY DEF t
  <2> QED
    BY <1>5, <2>1
<1> HIDE DEF t, next
<1>7. TakesLast(t, n, f)
  BY <1>3, <1>6 DEF TakesLast
<1> QED
  BY <1>1, <1>4, <1>7, LastFirstIsSum

\* A list that has every element of a set once.
Lists(items, n, s) ==
  /\ n \in Nat /\ items \in [1..n -> s]
  /\ \A i, j \in 1..n : i # j => items[i] # items[j]
  /\ \A e \in s : \E i \in 1..n : items[i] = e

LEMMA ListAddsUp ==
  ASSUME NEW S, IsFiniteSet(S), \A e \in S : e.amount \in Int,
         NEW A, AddsUp(A, S, [e \in S |-> e.amount]),
         NEW s \in SUBSET S, NEW n, NEW items, Lists(items, n, s)
  PROVE  AmountOfRows(items) = A[s]
<1> DEFINE f == [e \in S |-> e.amount]
           g == [i \in 1..n |-> items[i].amount]
           image(I) == {items[i] : i \in I}
           B == [I \in SUBSET (1..n) |-> A[image(I)]]
<1>1. /\ n \in Nat /\ DOMAIN items = 1..n /\ \A i \in 1..n : items[i] \in s /\ items[i] \in S
  BY DEF Lists
<1>2. \A i \in 1..n : items[i].amount \in Int /\ f[items[i]] = g[i]
  BY <1>1
<1>3. A \in [SUBSET S -> Int] /\ A[{}] = 0 /\ f \in [S -> Int] /\ AddsUp(A, S, f)
  BY DEF AddsUp
<1> HIDE DEF f, g
<1>4. \A I \in SUBSET (1..n) : image(I) \in SUBSET S
  BY <1>1
<1>5. B \in [SUBSET (1..n) -> Int] /\ B[{}] = 0
  BY <1>3, <1>4
<1>6. ASSUME NEW I \in SUBSET (1..n), NEW i \in (1..n) \ I PROVE B[I \cup {i}] = B[I] + g[i]
  <2>1. items[i] \in S \ image(I) /\ image(I) \in SUBSET S
    BY <1>1, <1>6 DEF Lists
  <2>2. image(I \cup {i}) = image(I) \cup {items[i]}
    OBVIOUS
  <2>3. A[image(I) \cup {items[i]}] = A[image(I)] + f[items[i]]
    <3> HIDE DEF image
    <3> QED
      BY <1>3, <2>1 DEF AddsUp
  <2>4. B[I \cup {i}] = A[image(I \cup {i})] /\ B[I] = A[image(I)]
    OBVIOUS
  <2> HIDE DEF image, B
  <2> QED
    BY <1>2, <2>2, <2>3, <2>4
<1>7. AddsUp(B, 1..n, g)
  <2> HIDE DEF B
  <2> QED
    BY <1>5, <1>6 DEF AddsUp
<1>8. AmountOfRows(items) = B[1..n]
  <2> HIDE DEF B
  <2> QED
    BY <1>1, <1>2, <1>7, AmountOfRowsIs DEF g
<1>9. image(1..n) = s
  BY <1>1 DEF Lists
<1> QED
  BY <1>8, <1>9

\* The totals of groups without a common entry add up to that of all their entries.
SumParts(A, S, f, parts, items, m) ==
  /\ IsFiniteSet(S) /\ f \in [S -> Int] /\ AddsUp(A, S, f)
  /\ m \in Nat /\ parts \in [1..m -> SUBSET S]
  /\ \A i, j \in 1..m : i # j => parts[i] \cap parts[j] = {}
  /\ DOMAIN items = 1..m /\ \A i \in 1..m : items[i].total = A[parts[i]]

Together(parts, m) == UNION {parts[i] : i \in 1..m}

LEMMA GroupTotalsAddUp ==
  ASSUME NEW S, NEW f, NEW A, NEW m, NEW parts, NEW items,
         SumParts(A, S, f, parts, items, m)
  PROVE  TotalOfGroups(items) = A[Together(parts, m)]
<1> DEFINE g == [i \in 1..m |-> items[i].total]
           of(I) == UNION {parts[i] : i \in I}
           B == [I \in SUBSET (1..m) |-> A[of(I)]]
<1>1. /\ A \in [SUBSET S -> Int] /\ A[{}] = 0 /\ IsFiniteSet(S) /\ f \in [S -> Int]
      /\ AddsUp(A, S, f) /\ m \in Nat /\ parts \in [1..m -> SUBSET S]
  BY DEF AddsUp, SumParts
<1>2. \A i \in 1..m : items[i].total \in Int /\ g[i] = A[parts[i]]
  BY <1>1 DEF SumParts
<1>3. \A I \in SUBSET (1..m) : of(I) \in SUBSET S
  BY <1>1
<1>4. B \in [SUBSET (1..m) -> Int]
  <2> HIDE DEF of
  <2> QED
    BY <1>1, <1>3
<1>5. B[{}] = 0
  <2>1. of({}) = {}
    OBVIOUS
  <2> QED
    BY <1>1, <2>1
<1>6. ASSUME NEW I \in SUBSET (1..m), NEW i \in (1..m) \ I PROVE B[I \cup {i}] = B[I] + g[i]
  <2>1. of(I) \cap parts[i] = {} /\ of(I) \in SUBSET S /\ parts[i] \in SUBSET S
    <3>1. \A j \in I : j # i /\ j \in 1..m
      OBVIOUS
    <3>2. \A j \in I : parts[j] \cap parts[i] = {}
      BY <3>1 DEF SumParts
    <3> QED
      BY <1>1, <3>2
  <2>2. of(I \cup {i}) = of(I) \cup parts[i]
    OBVIOUS
  <2>3. B[I \cup {i}] = A[of(I \cup {i})] /\ B[I] = A[of(I)]
    OBVIOUS
  <2> HIDE DEF of, B, g
  <2>4. A[of(I) \cup parts[i]] = A[of(I)] + A[parts[i]]
    <3> DEFINE u == of(I)
               v == parts[i]
    <3>1. u \in SUBSET S /\ v \in SUBSET S /\ u \cap v = {}
      BY <2>1
    <3> HIDE DEF u, v
    <3>2. A[u \cup v] = A[u] + A[v]
      BY <1>1, <3>1, SumOfUnion
    <3> QED
      BY <3>2 DEF u, v
  <2> QED
    BY <1>2, <2>2, <2>3, <2>4
<1> HIDE DEF B
<1>7. AddsUp(B, 1..m, g)
  BY <1>4, <1>5, <1>6 DEF AddsUp
<1>8. TotalOfGroups(items) = B[1..m]
  BY <1>1, <1>2, <1>7, TotalOfGroupsIs DEF SumParts
<1> QED
  BY <1>8 DEF B, Together

-----------------------------------------------------------------------------
(* The order of the entries *)

\* The entries of a history are of one kind; no two of a kind have the same time.
IsHistory(s) ==
  /\ IsFiniteSet(s)
  /\ \E kind \in HistoryKind : s \subseteq EntryOf(kind)
  /\ \A e, f \in s : e.at = f.at /\ e.kind = f.kind => e = f

\* A number for each day and kind, the greater one first.
EntryKey(e) == 2 * DayKey(e) + (IF e.kind = "additional_profiles" THEN 1 ELSE 0)

LEMMA EntryTypes ==
  ASSUME NEW kind \in HistoryKind, NEW e \in EntryOf(kind)
  PROVE  /\ DayKey(e) \in 1..HistoryDays /\ e.at \in Int /\ e.amount \in Int
         /\ e.at = 24 * DayKey(e) + (IF kind = "top-ups" THEN 9 ELSE -3)
         /\ e.kind \in (IF kind = "charges" THEN ChargeKind ELSE {kind})
         /\ \A d \in 1..HistoryDays : e.at \in {Stamp(d, 0), Stamp(d, 12)} => DayKey(e) = d
<1>1. PICK d \in 1..HistoryDays : e.at = Stamp(d, IF kind = "top-ups" THEN 12 ELSE 0)
  BY DEF EntryOf
<1>2. e.kind \in (IF kind = "charges" THEN ChargeKind ELSE {kind}) /\ e.amount \in Int
  BY HistoryAssumption DEF EntryOf
<1>3. e.at = 24 * d + (IF kind = "top-ups" THEN 9 ELSE -3) /\ d \in Int
  BY <1>1, HistoryAssumption DEF Stamp
<1>4. DayKey(e) = d
  BY <1>3 DEF DayKey
<1>5. \A c \in 1..HistoryDays : e.at \in {Stamp(c, 0), Stamp(c, 12)} => DayKey(e) = c
  BY <1>3, <1>4, HistoryAssumption DEF Stamp
<1> QED
  BY <1>2, <1>3, <1>4, <1>5

LEMMA EntryKeys ==
  ASSUME NEW kind \in HistoryKind, NEW e \in EntryOf(kind), NEW f \in EntryOf(kind)
  PROVE  /\ EntryKey(e) \in Int /\ EntryKey(f) \in Int
         /\ Before(e, f) <=> EntryKey(e) > EntryKey(f)
         /\ EntryKey(e) = EntryKey(f) => e.at = f.at /\ e.kind = f.kind
         /\ EntryKey(e) >= EntryKey(f) => DayKey(e) >= DayKey(f)
<1>1. /\ DayKey(e) \in Int /\ DayKey(f) \in Int
      /\ (DayKey(e) = DayKey(f) <=> e.at = f.at)
      /\ (DayKey(e) = DayKey(f) => ~(e.at > f.at))
  <2> DEFINE c == IF kind = "top-ups" THEN 9 ELSE -3
  <2>1. /\ DayKey(e) \in 1..HistoryDays /\ e.at = 24 * DayKey(e) + c /\ e.at \in Int
        /\ DayKey(f) \in 1..HistoryDays /\ f.at = 24 * DayKey(f) + c /\ f.at \in Int
    BY EntryTypes
  <2>2. c \in Int
    OBVIOUS
  <2> HIDE DEF c
  <2> QED
    BY <2>1, <2>2, HistoryAssumption
<1>2. /\ e.kind # f.kind => (e.kind = "additional_profiles" <=> f.kind # "additional_profiles")
  <2>1. /\ e.kind \in (IF kind = "charges" THEN ChargeKind ELSE {kind})
        /\ f.kind \in (IF kind = "charges" THEN ChargeKind ELSE {kind})
    BY EntryTypes
  <2> QED
    BY <2>1 DEF ChargeKind
<1> QED
  BY <1>1, <1>2 DEF Before, EntryKey

\* What comes before an entry of a set.
Preceding(s) == [e \in s |-> {f \in s : Before(f, e)}]

LEMMA EntriesOrder ==
  ASSUME NEW s, IsHistory(s)
  PROVE  IsOrder(s, Preceding(s))
<1>1. PICK kind \in HistoryKind : s \subseteq EntryOf(kind)
  BY DEF IsHistory
<1>2. /\ \A e \in s : EntryKey(e) \in Int
      /\ \A e, f \in s : (Before(e, f) <=> EntryKey(e) > EntryKey(f))
      /\ \A e, f \in s : EntryKey(e) = EntryKey(f) => e = f
  BY <1>1, EntryKeys DEF IsHistory
<1>3. \A e \in s : ~Before(e, e)
  BY <1>2
<1>4. \A e, f \in s : e # f => Before(e, f) \/ Before(f, e)
  BY <1>2
<1>5. \A e, f, g \in s : Before(g, f) /\ Before(f, e) => Before(g, e)
  BY <1>2
<1> QED
  BY <1>3, <1>4, <1>5 DEF IsOrder, Preceding

\* The list has every entry once; its n-th entry has n - 1 entries before it.
LEMMA OrderedLists ==
  ASSUME NEW s, IsHistory(s)
  PROVE  /\ Cardinality(s) \in Nat /\ Lists(Ordered(s), Cardinality(s), s)
         /\ \A n \in 1..Cardinality(s) : Cardinality({f \in s : Before(f, Ordered(s)[n])}) = n - 1
         /\ \A i, j \in 1..Cardinality(s) : i < j => Before(Ordered(s)[i], Ordered(s)[j])
<1> DEFINE c == Cardinality(s)
           o == Ordered(s)
<1>1. IsFiniteSet(s) /\ c \in Nat /\ IsOrder(s, Preceding(s))
  BY EntriesOrder, FS_CardinalityType DEF IsHistory
<1>2. \A e \in s : Preceding(s)[e] = {f \in s : Before(f, e)}
  BY DEF Preceding
<1>3. o = [n \in 1..c |-> CHOOSE e \in s : Cardinality({f \in s : Before(f, e)}) = n - 1]
  BY DEF Ordered
<1>4. ASSUME NEW n \in 1..c PROVE o[n] \in s /\ Cardinality({f \in s : Before(f, o[n])}) = n - 1
  <2>1. PICK e \in s : Cardinality(Preceding(s)[e]) = n - 1
    BY <1>1, RanksCover
  <2>2. Cardinality({f \in s : Before(f, e)}) = n - 1
    BY <1>2, <2>1
  <2>3. o[n] = CHOOSE x \in s : Cardinality({f \in s : Before(f, x)}) = n - 1
    BY <1>3
  <2> HIDE DEF o
  <2> QED
    BY <2>2, <2>3
<1> HIDE DEF o
<1>5. ASSUME NEW i \in 1..c, NEW j \in 1..c, i < j PROVE Before(o[i], o[j])
  <2>1. /\ o[i] \in s /\ Cardinality(Preceding(s)[o[i]]) = i - 1
        /\ o[j] \in s /\ Cardinality(Preceding(s)[o[j]]) = j - 1
    BY <1>2, <1>4
  <2>2. o[i] # o[j]
    BY <1>1, <1>5, <2>1
  <2>3. o[j] \notin Preceding(s)[o[i]]
    <3>1. SUFFICES ASSUME o[j] \in Preceding(s)[o[i]] PROVE FALSE
      OBVIOUS
    <3>2. Cardinality(Preceding(s)[o[j]]) < Cardinality(Preceding(s)[o[i]])
      BY <1>1, <2>1, <3>1, RanksIncrease
    <3> QED
      BY <1>1, <1>5, <2>1, <3>2
  <2>4. o[i] \in Preceding(s)[o[j]]
    BY <1>1, <2>1, <2>2, <2>3 DEF IsOrder
  <2> QED
    BY <1>2, <2>1, <2>4
<1>6. ASSUME NEW e \in s PROVE \E n \in 1..c : o[n] = e
  <2> DEFINE r == Cardinality(Preceding(s)[e])
  <2>1. Preceding(s)[e] \in SUBSET s /\ e \notin Preceding(s)[e]
    BY <1>1 DEF IsOrder
  <2>2. r \in Nat /\ r <= c /\ (c = r => s = Preceding(s)[e])
    BY <1>1, <2>1, FS_Subset, FS_CardinalityType
  <2>3. r # c
    BY <2>1, <2>2
  <2>4. r + 1 \in 1..c
    <3> HIDE DEF r, c
    <3> QED
      BY <1>1, <2>2, <2>3
  <2>5. o[r + 1] \in s /\ Cardinality(Preceding(s)[o[r + 1]]) = r
    <3>1. Cardinality({f \in s : Before(f, o[r + 1])}) = (r + 1) - 1 /\ o[r + 1] \in s
      BY <1>4, <2>4
    <3>2. (r + 1) - 1 = r
      BY <2>2
    <3>3. Preceding(s)[o[r + 1]] = {f \in s : Before(f, o[r + 1])}
      BY <1>2, <3>1
    <3> HIDE DEF r
    <3> QED
      BY <3>1, <3>2, <3>3
  <2>6. o[r + 1] = e
    <3>1. CASE o[r + 1] \in Preceding(s)[e]
      BY <1>1, <2>5, <3>1, RanksIncrease
    <3>2. CASE e \in Preceding(s)[o[r + 1]]
      BY <1>1, <2>5, <3>2, RanksIncrease
    <3> QED
      BY <1>1, <2>5, <3>1, <3>2 DEF IsOrder
  <2> QED
    BY <2>4, <2>6
<1>7. \A i, j \in 1..c : i # j => o[i] # o[j]
  <2>1. ASSUME NEW i \in 1..c, NEW j \in 1..c, i # j PROVE o[i] # o[j]
    <3>1. Cardinality({f \in s : Before(f, o[i])}) = i - 1
          /\ Cardinality({f \in s : Before(f, o[j])}) = j - 1
      BY <1>4
    <3>2. i - 1 # j - 1
      BY <1>1, <2>1
    <3> QED
      BY <3>1, <3>2
  <2> QED
    BY <2>1
<1>8. o \in [1..c -> s]
  BY <1>3, <1>4
<1>9. Lists(o, c, s)
  BY <1>1, <1>6, <1>7, <1>8 DEF Lists
<1> QED
  BY <1>1, <1>4, <1>5, <1>9 DEF o

\* The place of an entry is given by the number of entries before it.
LEMMA PlaceOfEntry ==
  ASSUME NEW s, IsHistory(s), NEW e \in s, NEW n \in 1..Cardinality(s),
         Cardinality({f \in s : Before(f, e)}) = n - 1
  PROVE  Ordered(s)[n] = e
<1> DEFINE o == Ordered(s)[n]
<1>1. o \in s /\ Cardinality({f \in s : Before(f, o)}) = n - 1
  BY OrderedLists DEF Lists
<1>2. IsFiniteSet(s) /\ IsOrder(s, Preceding(s))
  BY EntriesOrder DEF IsHistory
<1> HIDE DEF o
<1>3. Cardinality(Preceding(s)[o]) = n - 1 /\ Cardinality(Preceding(s)[e]) = n - 1
  BY <1>1 DEF Preceding
<1>4. ~(n - 1 < n - 1)
  OBVIOUS
<1>5. CASE o \in Preceding(s)[e]
  BY <1>1, <1>2, <1>3, <1>4, <1>5, RanksIncrease
<1>6. CASE e \in Preceding(s)[o]
  BY <1>1, <1>2, <1>3, <1>4, <1>6, RanksIncrease
<1> QED
  BY <1>1, <1>2, <1>5, <1>6 DEF IsOrder, o

LEMMA PartOfHistory ==
  ASSUME NEW s, IsHistory(s), NEW r \in SUBSET s
  PROVE  IsHistory(r)
<1>1. IsFiniteSet(r)
  BY FS_Subset DEF IsHistory
<1>2. PICK kind \in HistoryKind : s \subseteq EntryOf(kind)
  BY DEF IsHistory
<1> QED
  BY <1>1, <1>2 DEF IsHistory

\* Entries that all come before the others make the beginning of the list.
LEMMA OrderedParts ==
  ASSUME NEW s, IsHistory(s), NEW u, NEW v, u \cup v = s, u \cap v = {},
         \A e \in u, f \in v : Before(e, f)
  PROVE  Ordered(s) = Ordered(u) \o Ordered(v)
<1>1. u \in SUBSET s /\ v \in SUBSET s
  OBVIOUS
<1>2. IsHistory(u) /\ IsHistory(v)
  BY <1>1, PartOfHistory
<1> DEFINE c == Cardinality(s)
           a == Cardinality(u)
           b == Cardinality(v)
<1>3. a \in Nat /\ b \in Nat /\ c \in Nat /\ c = a + b
  <2>1. IsFiniteSet(u) /\ IsFiniteSet(v) /\ Cardinality(u \cap v) = 0
    BY <1>2, FS_EmptySet DEF IsHistory
  <2>2. a \in Nat /\ b \in Nat /\ Cardinality(s) = a + b - Cardinality(u \cap v)
    BY <2>1, FS_CardinalityType, FS_Union
  <2> QED
    BY <2>1, <2>2
<1>4. \A e, f \in s : Before(e, f) => ~Before(f, e)
  <2>1. IsOrder(s, Preceding(s))
    BY EntriesOrder
  <2> QED
    BY <2>1 DEF IsOrder, Preceding
<1>5. /\ Ordered(u) \in [1..a -> u] /\ Ordered(v) \in [1..b -> v] /\ Ordered(s) \in [1..c -> s]
      /\ \A n \in 1..a : Cardinality({f \in u : Before(f, Ordered(u)[n])}) = n - 1
      /\ \A n \in 1..b : Cardinality({f \in v : Before(f, Ordered(v)[n])}) = n - 1
  BY <1>2, OrderedLists DEF Lists
<1> HIDE DEF a, b, c
<1>6. ASSUME NEW n \in 1..a PROVE Ordered(s)[n] = Ordered(u)[n]
  <2> DEFINE e == Ordered(u)[n]
  <2>1. e \in u /\ n \in 1..c
    BY <1>3, <1>5
  <2>2. Cardinality({f \in u : Before(f, e)}) = n - 1
    BY <1>5
  <2> HIDE DEF e
  <2>3. {f \in s : Before(f, e)} = {f \in u : Before(f, e)}
    BY <1>1, <1>4, <2>1
  <2>4. Cardinality({f \in s : Before(f, e)}) = n - 1
    BY <2>2, <2>3
  <2>5. e \in s
    BY <1>1, <2>1
  <2>6. Ordered(s)[n] = e
    BY <2>1, <2>4, <2>5, PlaceOfEntry DEF c
  <2> QED
    BY <2>6 DEF e
<1>7. ASSUME NEW n \in 1..b PROVE Ordered(s)[a + n] = Ordered(v)[n]
  <2> DEFINE e == Ordered(v)[n]
             r == {f \in v : Before(f, e)}
  <2>1. e \in v /\ a + n \in 1..c /\ Cardinality(r) = n - 1
    BY <1>3, <1>5
  <2> HIDE DEF e
  <2>2. {f \in s : Before(f, e)} = u \cup r /\ u \cap r = {} /\ r \in SUBSET v
    BY <1>1, <1>4, <2>1
  <2>3. Cardinality(u \cup r) = (a + n) - 1
    <3>1. IsFiniteSet(u) /\ IsFiniteSet(r)
      BY <1>2, <2>2, FS_Subset DEF IsHistory
    <3>2. Cardinality(u \cup r) = Cardinality(u) + Cardinality(r) - Cardinality(u \cap r)
      BY <3>1, FS_Union
    <3>3. Cardinality(u \cap r) = 0
      BY <2>2, FS_EmptySet
    <3> QED
      BY <1>3, <2>1, <3>2, <3>3 DEF a
  <2>4. e \in s /\ Cardinality({f \in s : Before(f, e)}) = (a + n) - 1
    BY <1>1, <2>1, <2>2, <2>3
  <2>5. Ordered(s)[a + n] = e
    BY <2>1, <2>4, PlaceOfEntry DEF c
  <2> QED
    BY <2>5 DEF e
<1>8. /\ Ordered(u) \in Seq(s) /\ Len(Ordered(u)) = a /\ Ordered(v) \in Seq(s)
      /\ Len(Ordered(v)) = b /\ Ordered(s) \in Seq(s) /\ Len(Ordered(s)) = c
  <2>1. Ordered(u) \in [1..a -> s] /\ Ordered(v) \in [1..b -> s]
    BY <1>1, <1>5
  <2> QED
    BY <1>3, <1>5, <2>1
<1> DEFINE w == Ordered(u) \o Ordered(v)
<1>9. w \in Seq(s) /\ Len(w) = c
  BY <1>3, <1>8, ConcatProperties
<1>10. \A n \in 1..(a + b) : w[n] = IF n <= a THEN Ordered(u)[n] ELSE Ordered(v)[n - a]
  BY <1>8, ConcatProperties
<1>11. ASSUME NEW n \in 1..c PROVE w[n] = Ordered(s)[n]
  <2>1. CASE n <= a
    <3> HIDE DEF w
    <3>1. n \in 1..a
      BY <1>3, <2>1
    <3>2. w[n] = Ordered(u)[n]
      BY <1>3, <1>10, <3>1
    <3> QED
      BY <1>6, <3>1, <3>2
  <2>2. CASE n > a
    <3> HIDE DEF w
    <3>1. n - a \in 1..b /\ a + (n - a) = n
      BY <1>3, <2>2
    <3>2. w[n] = Ordered(v)[n - a]
      BY <1>3, <1>10, <2>2, <3>1
    <3>3. Ordered(s)[a + (n - a)] = Ordered(v)[n - a]
      BY <1>7, <3>1
    <3> QED
      BY <3>1, <3>2, <3>3
  <2>3. n <= a \/ n > a
    BY <1>3
  <2> QED
    BY ONLY <2>1, <2>2, <2>3
<1> HIDE DEF w
<1>12. w = Ordered(s)
  BY <1>3, <1>8, <1>9, <1>11, SeqEqual
<1> QED
  BY <1>12 DEF w

\* Later days are in the same or a later month.
LEMMA QuotientGrows ==
  ASSUME NEW a \in Int, NEW b \in Int, a <= b, NEW k \in Nat \ {0}
  PROVE  a \div k \in Int /\ b \div k \in Int /\ a \div k <= b \div k
OBVIOUS

LEMMA MonthsDescend ==
  ASSUME NEW kind \in HistoryKind, NEW e \in EntryOf(kind), NEW f \in EntryOf(kind)
  PROVE  /\ MonthKey(e) \in Int /\ MonthKey(f) \in Int
         /\ Before(e, f) => MonthKey(e) >= MonthKey(f)
         /\ MonthKey(e) > MonthKey(f) => Before(e, f)
<1>1. DayKey(e) \in Int /\ DayKey(f) \in Int /\ DaysPerMonth \in Nat \ {0}
  <2>1. DayKey(e) \in 1..HistoryDays /\ DayKey(f) \in 1..HistoryDays
    BY EntryTypes
  <2> QED
    BY <2>1, HistoryAssumption
<1>2. /\ MonthKey(e) \in Int /\ MonthKey(f) \in Int
      /\ DayKey(e) >= DayKey(f) => MonthKey(e) >= MonthKey(f)
      /\ DayKey(f) >= DayKey(e) => MonthKey(f) >= MonthKey(e)
  BY <1>1, QuotientGrows DEF MonthKey
<1>3. Before(e, f) => DayKey(e) >= DayKey(f)
  BY EntryKeys
<1>4. MonthKey(e) > MonthKey(f) => DayKey(e) > DayKey(f)
  BY <1>1, <1>2
<1> QED
  BY <1>1, <1>2, <1>3, <1>4 DEF Before

-----------------------------------------------------------------------------
(* The months *)

InMonth(s, key) == {e \in s : MonthKey(e) = key}

\* The months of some entries, latest first, each once.
MonthsOf(ks, m, s) ==
  /\ m \in Nat /\ ks \in [1..m -> Int]
  /\ \A i, j \in 1..m : i < j => ks[i] > ks[j]
  /\ \A e \in s : \E i \in 1..m : ks[i] = MonthKey(e)

\* Where each number of a sequence appears first; these places, in their order.
FirstPlaces(ks) == {i \in DOMAIN ks : \A j \in 1..(i - 1) : ks[j] # ks[i]}
Smaller(first) == [i \in first |-> {j \in first : j < i}]

LEMMA SmallerIsOrder ==
  ASSUME NEW c \in Nat, NEW first \in SUBSET (1..c)
  PROVE  /\ IsFiniteSet(first) /\ Cardinality(first) \in Nat /\ IsOrder(first, Smaller(first))
         /\ \A i \in first : Cardinality({j \in first : j <= i}) = Cardinality(Smaller(first)[i]) + 1
<1>1. IsFiniteSet(first) /\ Cardinality(first) \in Nat
  <2>1. IsFiniteSet(1..c)
    BY FS_Interval
  <2> QED
    BY <2>1, FS_Subset, FS_CardinalityType
<1>2. IsOrder(first, Smaller(first))
  BY DEF IsOrder, Smaller
<1>3. ASSUME NEW i \in first
      PROVE  Cardinality({j \in first : j <= i}) = Cardinality(Smaller(first)[i]) + 1
  <2> DEFINE r == {j \in first : j < i}
  <2>1. {j \in first : j <= i} = r \cup {i} /\ i \notin r /\ r \in SUBSET first
    <3>1. \A j \in first : j \in Int
      OBVIOUS
    <3>2. \A j \in first : j <= i <=> j < i \/ j = i
      BY <3>1
    <3>3. ~(i < i)
      BY <3>1
    <3> QED
      BY <3>2, <3>3
  <2>2. IsFiniteSet(r)
    BY <1>1, <2>1, FS_Subset
  <2>3. Cardinality(r \cup {i}) = Cardinality(r) + 1
    BY <2>1, <2>2, FS_AddElement
  <2> QED
    BY <2>1, <2>3 DEF Smaller
<1> QED
  BY <1>1, <1>2, <1>3

\* A number of a sequence appears first somewhere.
LEMMA FirstPlaceExists ==
  ASSUME NEW c \in Nat, NEW ks, DOMAIN ks = 1..c, NEW i \in 1..c
  PROVE  \E j \in FirstPlaces(ks) : ks[j] = ks[i]
<1> DEFINE same == {j \in 1..c : ks[j] = ks[i]}
<1>1. same \in SUBSET Nat /\ same # {}
  OBVIOUS
<1>2. PICK j \in same : \A k \in same : j <= k
  BY <1>1, LeastExists
<1>3. \A k \in 1..(j - 1) : ks[k] # ks[j]
  BY <1>2
<1> QED
  BY <1>2, <1>3 DEF FirstPlaces

\* groupCharges: the months in which something was charged or paid, latest first.
LEMMA GroupKeysAre ==
  ASSUME NEW s, IsHistory(s)
  PROVE  \E m : MonthsOf(GroupKeys(Ordered(s)), m, s)
<1> DEFINE o == Ordered(s)
           c == Cardinality(s)
           ks == Months(o)
           first == FirstPlaces(ks)
           m == Cardinality(first)
           at(n) == CHOOSE i \in first : Cardinality({j \in first : j <= i}) = n
           gs == GroupKeys(o)
<1>1. PICK kind \in HistoryKind : s \subseteq EntryOf(kind)
  BY DEF IsHistory
<1>2. /\ c \in Nat /\ o \in [1..c -> s] /\ \A e \in s : \E i \in 1..c : o[i] = e
      /\ \A i, j \in 1..c : i < j => Before(o[i], o[j])
  BY OrderedLists DEF Lists
<1>3. gs = [n \in 1..m |-> ks[at(n)]]
  BY DEF GroupKeys, FirstPlaces
<1>4. DOMAIN ks = 1..c /\ \A i \in 1..c : ks[i] = MonthKey(o[i])
  BY <1>2 DEF Months
<1> HIDE DEF o, c, ks, gs
<1>5. first \in SUBSET (1..c) /\ \A i \in first : \A j \in 1..(i - 1) : ks[j] # ks[i]
  BY <1>4 DEF FirstPlaces
<1>6. \A i \in 1..c : ks[i] \in Int
  BY <1>1, <1>2, <1>4, MonthsDescend
<1>7. \A i, j \in 1..c : i < j => ks[i] >= ks[j]
  BY <1>1, <1>2, <1>4, MonthsDescend
<1> HIDE DEF first
<1>8. /\ IsFiniteSet(first) /\ m \in Nat /\ IsOrder(first, Smaller(first))
      /\ \A i \in first : Cardinality({j \in first : j <= i}) = Cardinality(Smaller(first)[i]) + 1
  BY <1>2, <1>5, SmallerIsOrder
<1> HIDE DEF m
<1>9. ASSUME NEW n \in 1..m
      PROVE  at(n) \in first /\ Cardinality(Smaller(first)[at(n)]) = n - 1
  <2>1. PICK i \in first : Cardinality(Smaller(first)[i]) = n - 1
    BY <1>8, RanksCover DEF m
  <2>2. Cardinality({j \in first : j <= i}) = n
    BY <1>8, <2>1
  <2>3. at(n) \in first /\ Cardinality({j \in first : j <= at(n)}) = n
    BY <2>2
  <2> HIDE DEF at
  <2>4. Cardinality(Smaller(first)[at(n)]) + 1 = n
    BY <1>8, <2>3
  <2>5. Smaller(first)[at(n)] \in SUBSET first
    BY <1>8, <2>3 DEF IsOrder
  <2>6. Cardinality(Smaller(first)[at(n)]) \in Nat
    BY <1>8, <2>5, FS_Subset, FS_CardinalityType
  <2> QED
    BY <2>3, <2>4, <2>6
<1> HIDE DEF at
<1>10. ASSUME NEW k \in 1..m, NEW n \in 1..m, k < n PROVE gs[k] > gs[n]
  <2>1. at(k) \in first /\ at(n) \in first /\ at(k) \in 1..c /\ at(n) \in 1..c
    BY <1>5, <1>9
  <2>2. ~(at(n) \in Smaller(first)[at(k)])
    <3>1. SUFFICES ASSUME at(n) \in Smaller(first)[at(k)] PROVE FALSE
      OBVIOUS
    <3>2. Cardinality(Smaller(first)[at(n)]) < Cardinality(Smaller(first)[at(k)])
      BY <1>8, <2>1, <3>1, RanksIncrease
    <3> QED
      BY <1>8, <1>9, <1>10, <3>2
  <2>3. at(n) # at(k)
    BY <1>9, <1>10
  <2>4. at(k) < at(n)
    BY <2>1, <2>2, <2>3 DEF Smaller
  <2>5. ks[at(k)] # ks[at(n)]
    BY <1>5, <2>1, <2>4
  <2>6. ks[at(k)] > ks[at(n)]
    BY <1>6, <1>7, <2>1, <2>4, <2>5
  <2> QED
    BY <1>3, <2>6
<1>11. ASSUME NEW e \in s PROVE \E n \in 1..m : gs[n] = MonthKey(e)
  <2>1. PICK i \in 1..c : o[i] = e
    BY <1>2
  <2>2. PICK j \in first : ks[j] = ks[i]
    BY <1>2, <1>4, FirstPlaceExists DEF first
  <2> DEFINE n == Cardinality(Smaller(first)[j]) + 1
  <2>3. n \in 1..m
    <3> DEFINE before == Smaller(first)[j]
    <3>1. before \in SUBSET first /\ j \notin before
      BY <1>8 DEF IsOrder
    <3>2. /\ Cardinality(before) \in Nat /\ Cardinality(before) <= m
          /\ (m = Cardinality(before) => first = before)
      BY <1>8, <3>1, FS_Subset, FS_CardinalityType DEF m
    <3>3. Cardinality(before) # m
      BY <3>1, <3>2
    <3> HIDE DEF before
    <3>4. Cardinality(before) + 1 \in 1..m
      BY <1>8, <3>2, <3>3
    <3> QED
      BY <3>4 DEF before
  <2>4. at(n) = j
    <3>1. at(n) \in first /\ Cardinality(Smaller(first)[at(n)]) = n - 1
      BY <1>9, <2>3
    <3>2. Smaller(first)[j] \in SUBSET first
      BY <1>8 DEF IsOrder
    <3>3. Cardinality(Smaller(first)[j]) \in Nat
      BY <1>8, <3>2, FS_Subset, FS_CardinalityType
    <3>4. Cardinality(Smaller(first)[at(n)]) = Cardinality(Smaller(first)[j])
      BY <3>1, <3>3
    <3> HIDE DEF n
    <3>5. CASE at(n) \in Smaller(first)[j]
      BY <1>8, <3>1, <3>3, <3>4, <3>5, RanksIncrease
    <3>6. CASE j \in Smaller(first)[at(n)]
      BY <1>8, <3>1, <3>3, <3>4, <3>6, RanksIncrease
    <3> QED
      BY <1>8, <3>1, <3>5, <3>6 DEF IsOrder
  <2>5. gs[n] = ks[j]
    BY <1>3, <2>3, <2>4
  <2> HIDE DEF n
  <2> QED
    BY <1>4, <2>1, <2>2, <2>3, <2>5
<1>12. gs \in [1..m -> Int]
  <2>1. \A n \in 1..m : ks[at(n)] \in Int
    BY <1>5, <1>6, <1>9
  <2> QED
    BY <1>3, <2>1
<1>13. MonthsOf(gs, m, s)
  BY <1>8, <1>10, <1>11, <1>12 DEF MonthsOf
<1> QED
  BY <1>13 DEF gs, o

-----------------------------------------------------------------------------
(* The groups one after the other *)

\* FlattenSeq appends one sequence after the other.
Appends(g, seqs, m) ==
  g[1] = seqs[1] /\ Len(seqs) = m /\ \A i \in 2..m : g[i] = g[i - 1] \o seqs[i]

LEMMA FlattenIs ==
  ASSUME NEW m \in Nat \ {0}, NEW seqs, NEW T, NEW g \in [1..m -> T], Appends(g, seqs, m)
  PROVE  FlattenSeq(seqs) = g[m]
<1> DEFINE next(f) == [i \in 1..m |-> IF i = 1 THEN seqs[i] ELSE f[i - 1] \o seqs[i]]
           t == CHOOSE f : f = next(f)
<1>1. FlattenSeq(seqs) = t[m]
  BY DEF FlattenSeq, Appends
<1>2. g = [i \in 1..m |-> g[i]]
  OBVIOUS
<1>3. \A i \in 1..m : g[i] = IF i = 1 THEN seqs[i] ELSE g[i - 1] \o seqs[i]
  <2>1. ASSUME NEW i \in 1..m PROVE g[i] = IF i = 1 THEN seqs[i] ELSE g[i - 1] \o seqs[i]
    <3>1. CASE i = 1
      BY <3>1 DEF Appends
    <3>2. CASE i # 1
      <4>1. i \in 2..m
        BY <3>2
      <4>2. g[i] = g[i - 1] \o seqs[i]
        BY <4>1 DEF Appends
      <4> QED
        BY ONLY <3>2, <4>2
    <3> QED
      BY <3>1, <3>2
  <2> QED
    BY <2>1
<1>4. g = next(g)
  <2> DEFINE e(i) == IF i = 1 THEN seqs[i] ELSE g[i - 1] \o seqs[i]
  <2>1. next(g) = [i \in 1..m |-> e(i)]
    OBVIOUS
  <2>2. \A i \in 1..m : g[i] = e(i)
    BY <1>3
  <2> HIDE DEF e, next
  <2>3. [i \in 1..m |-> g[i]] = [i \in 1..m |-> e(i)]
    BY <2>2
  <2> QED
    BY <1>2, <2>1, <2>3
<1>5. t = next(t)
  <2> HIDE DEF next, t
  <2>1. t = CHOOSE f : f = next(f)
    BY DEF t
  <2> QED
    BY <1>4, <2>1
<1> HIDE DEF t
<1>6. \A i \in 1..m : t[i] = IF i = 1 THEN seqs[i] ELSE t[i - 1] \o seqs[i]
  BY <1>5
<1> DEFINE Wrong == {i \in 1..m : t[i] # g[i]}
<1>7. Wrong = {}
  <2>1. SUFFICES ASSUME Wrong # {} PROVE FALSE
    OBVIOUS
  <2>2. Wrong \in SUBSET Nat
    OBVIOUS
  <2> HIDE DEF Wrong
  <2>3. PICK i \in Wrong : \A j \in Wrong : i <= j
    BY <2>1, <2>2, LeastExists
  <2>4. i \in 1..m /\ t[i] # g[i]
    BY <2>3 DEF Wrong
  <2>5. i # 1
    BY <1>3, <1>6, <2>4
  <2>6. i - 1 \in 1..m /\ i - 1 \notin Wrong
    BY <2>3, <2>4, <2>5
  <2>7. t[i - 1] = g[i - 1]
    BY <2>6 DEF Wrong
  <2>8. t[i] = t[i - 1] \o seqs[i] /\ g[i] = g[i - 1] \o seqs[i]
    BY <1>3, <1>6, <2>4, <2>5
  <2> QED
    BY <2>4, <2>7, <2>8
<1>8. t[m] = g[m]
  <2>1. m \in 1..m
    OBVIOUS
  <2> QED
    BY <1>7, <2>1
<1> QED
  BY <1>1, <1>8

\* A group for each month, with its entries in order and their total.
LEMMA GroupsAre ==
  ASSUME NEW s, NEW m, NEW ks, ks = GroupKeys(Ordered(s)), MonthsOf(ks, m, s)
  PROVE  /\ DOMAIN Groups(s) = 1..m
         /\ \A n \in 1..m : /\ Groups(s)[n].key = ks[n]
                            /\ Groups(s)[n].rows = Ordered(InMonth(s, ks[n]))
                            /\ Groups(s)[n].total = AmountOfRows(Ordered(InMonth(s, ks[n])))
<1>1. DOMAIN ks = 1..m
  BY DEF MonthsOf
<1>2. Groups(s) = [n \in 1..m |-> [key |-> ks[n], rows |-> Ordered(InMonth(s, ks[n])),
                                  total |-> AmountOfRows(Ordered(InMonth(s, ks[n])))]]
  BY <1>1 DEF Groups, AmountOfRows, InMonth
<1> QED
  BY <1>2

\* The rows of the groups, one group after the other, are the whole list.
LEMMA RowsOfGroups ==
  ASSUME NEW s, IsHistory(s), NEW m, NEW ks, MonthsOf(ks, m, s),
         NEW seqs, DOMAIN seqs = 1..m, Len(seqs) = m,
         \A n \in 1..m : seqs[n] = Ordered(InMonth(s, ks[n]))
  PROVE  /\ Len(FlattenSeq(seqs)) = Cardinality(s) /\ ToSet(FlattenSeq(seqs)) = s
<1>1. m \in Nat /\ ks \in [1..m -> Int]
  BY DEF MonthsOf
<1>2. CASE m = 0
  <2>1. s = {}
    BY <1>2 DEF MonthsOf
  <2>2. FlattenSeq(seqs) = seqs
    BY <1>2 DEF FlattenSeq
  <2>3. Cardinality(s) = 0
    BY <2>1, FS_EmptySet
  <2> QED
    BY <1>2, <2>1, <2>2, <2>3 DEF ToSet
<1>3. CASE m # 0
  <2> DEFINE upTo(i) == {e \in s : \E j \in 1..i : MonthKey(e) = ks[j]}
             g == [i \in 1..m |-> Ordered(upTo(i))]
             T == {Ordered(u) : u \in SUBSET s}
  <2>1. g \in [1..m -> T]
    OBVIOUS
  <2>2. g[1] = seqs[1]
    <3>1. upTo(1) = InMonth(s, ks[1])
      BY DEF InMonth
    <3>2. 1 \in 1..m
      BY <1>1, <1>3
    <3> QED
      BY <3>1, <3>2
  <2>3. ASSUME NEW i \in 2..m PROVE g[i] = g[i - 1] \o seqs[i]
    <3> DEFINE u == upTo(i)
               v == upTo(i - 1)
               w == InMonth(s, ks[i])
    <3>1. i \in 1..m /\ i - 1 \in 1..m /\ \A j \in 1..i : j = i \/ j \in 1..(i - 1)
      BY <1>1
    <3>2. v \cup w = u
      BY <3>1 DEF InMonth
    <3>3. \A e \in v, f \in w : MonthKey(e) > MonthKey(f)
      <4>1. ASSUME NEW e \in v, NEW f \in w PROVE MonthKey(e) > MonthKey(f)
        <5>1. PICK j \in 1..(i - 1) : MonthKey(e) = ks[j]
          OBVIOUS
        <5>2. MonthKey(f) = ks[i]
          BY DEF InMonth
        <5>3. j \in 1..m /\ j < i
          BY <3>1
        <5>4. ks[j] > ks[i]
          BY <3>1, <5>3 DEF MonthsOf
        <5> QED
          BY <5>1, <5>2, <5>4
      <4> QED
        BY <4>1
    <3>4. u \in SUBSET s /\ v \in SUBSET s /\ w \in SUBSET s
      BY DEF InMonth
    <3> HIDE DEF u, v, w
    <3>5. \A e \in s : MonthKey(e) \in Int
      <4>1. PICK kind \in HistoryKind : s \subseteq EntryOf(kind)
        BY DEF IsHistory
      <4> QED
        BY <4>1, MonthsDescend
    <3>6. v \cap w = {}
      <4>1. \A e \in v : ~(MonthKey(e) > MonthKey(e))
        BY <3>4, <3>5
      <4> QED
        BY <3>3, <4>1
    <3>7. \A e \in v, f \in w : Before(e, f)
      <4>1. PICK kind \in HistoryKind : s \subseteq EntryOf(kind)
        BY DEF IsHistory
      <4>2. \A e \in v, f \in w : e \in EntryOf(kind) /\ f \in EntryOf(kind)
        BY <3>4, <4>1
      <4> QED
        BY <3>3, <4>2, MonthsDescend
    <3>8. IsHistory(u)
      BY <3>4, PartOfHistory
    <3>9. Ordered(u) = Ordered(v) \o Ordered(w)
      BY <3>2, <3>6, <3>7, <3>8, OrderedParts
    <3> QED
      BY <3>1, <3>9 DEF u, v, w
  <2>4. FlattenSeq(seqs) = g[m]
    <3> HIDE DEF g, T
    <3>1. m \in Nat \ {0}
      BY <1>1, <1>3
    <3>2. \A i \in 2..m : g[i] = g[i - 1] \o seqs[i]
      BY <2>3
    <3>3. Appends(g, seqs, m)
      BY <2>2, <3>2 DEF Appends
    <3> QED
      BY <2>1, <3>1, <3>3, FlattenIs
  <2>5. upTo(m) = s
    BY DEF MonthsOf
  <2>6. FlattenSeq(seqs) = Ordered(s)
    BY <1>1, <1>3, <2>4, <2>5
  <2> DEFINE o == Ordered(s)
             c == Cardinality(s)
  <2>7. c \in Nat /\ o \in [1..c -> s] /\ \A e \in s : \E i \in 1..c : o[i] = e
    BY OrderedLists DEF Lists
  <2>8. FlattenSeq(seqs) = o
    BY <2>6
  <2> HIDE DEF o, c
  <2>9. Len(o) = c /\ ToSet(o) = s
    BY <2>7 DEF ToSet
  <2> QED
    BY <2>8, <2>9 DEF c
<1> QED
  BY <1>2, <1>3

\* The totals of the groups add up to the sum of the entries.
LEMMA TotalsOfGroups ==
  ASSUME NEW s, IsHistory(s), NEW m, NEW ks, MonthsOf(ks, m, s),
         NEW gs, DOMAIN gs = 1..m,
         \A n \in 1..m : gs[n].total = AmountOfRows(Ordered(InMonth(s, ks[n])))
  PROVE  TotalOfGroups(gs) = SumOf(s)
<1> DEFINE f == [e \in s |-> e.amount]
           parts == [n \in 1..m |-> InMonth(s, ks[n])]
<1>1. m \in Nat /\ ks \in [1..m -> Int] /\ IsFiniteSet(s)
  BY DEF MonthsOf, IsHistory
<1>2. \A e \in s : e.amount \in Int
  <2>1. PICK kind \in HistoryKind : s \subseteq EntryOf(kind)
    BY DEF IsHistory
  <2> QED
    BY <2>1, EntryTypes
<1>3. f \in [s -> Int]
  BY <1>2
<1> HIDE DEF f
<1>4. PICK A : AddsUp(A, s, f)
  BY <1>1, <1>3, SumExists
<1>5. SumOf(s) = A[s]
  BY <1>1, <1>2, <1>4, SumOfIs DEF f
<1>6. parts \in [1..m -> SUBSET s]
  BY DEF InMonth
<1>7. ASSUME NEW i \in 1..m, NEW j \in 1..m, i # j PROVE parts[i] \cap parts[j] = {}
  <2>1. ks[i] # ks[j]
    <3>1. i < j \/ j < i
      BY <1>1, <1>7
    <3>2. ks[i] \in Int /\ ks[j] \in Int /\ (ks[i] > ks[j] \/ ks[j] > ks[i])
      BY <1>1, <3>1 DEF MonthsOf
    <3> QED
      BY <3>2
  <2> QED
    BY <2>1 DEF InMonth
<1>8. ASSUME NEW n \in 1..m PROVE gs[n].total = A[parts[n]]
  <2> DEFINE p == InMonth(s, ks[n])
             c == Cardinality(p)
             o == Ordered(p)
  <2>1. p \in SUBSET s /\ parts[n] = p
    BY DEF InMonth
  <2> HIDE DEF p
  <2>2. IsHistory(p)
    BY <2>1, PartOfHistory
  <2>3. Lists(o, c, p)
    BY <2>2, OrderedLists
  <2>4. gs[n].total = AmountOfRows(o)
    BY DEF p
  <2> HIDE DEF o, c, parts
  <2>5. AddsUp(A, s, [e \in s |-> e.amount])
    BY <1>4 DEF f
  <2>6. AmountOfRows(o) = A[p]
    BY <1>1, <1>2, <2>1, <2>3, <2>5, ListAddsUp
  <2> QED
    BY <2>1, <2>4, <2>6
<1> HIDE DEF parts
<1>9. TotalOfGroups(gs) = A[Together(parts, m)]
  <2>1. \A i, j \in 1..m : i # j => parts[i] \cap parts[j] = {}
    BY <1>7
  <2>2. \A n \in 1..m : gs[n].total = A[parts[n]]
    BY <1>8
  <2>3. m \in Nat
    BY <1>1
  <2>4. SumParts(A, s, f, parts, gs, m)
    BY <1>1, <1>3, <1>4, <1>6, <2>1, <2>2, <2>3 DEF SumParts
  <2> QED
    BY <2>4, GroupTotalsAddUp
<1>10. Together(parts, m) = s
  <2>1. \A e \in s : \E n \in 1..m : e \in parts[n]
    BY DEF MonthsOf, parts, InMonth
  <2> QED
    BY <1>6, <2>1 DEF Together
<1> QED
  BY <1>5, <1>9, <1>10

-----------------------------------------------------------------------------
(* The histories and the VPN panel *)

HistoryEntry == UNION {EntryOf(kind) : kind \in HistoryKind}
HistoryState ==
  [kind: HistoryKind \cup {"closed"}, mode: {"self", "admin"}, total: {history.total},
   loaded: BOOLEAN, failed: BOOLEAN, fetching: BOOLEAN, data: SUBSET HistoryEntry,
   group: {"default", "none"} \cup {ToString(m) : m \in 0..HistoryDays}]
\* What is shown is of the history that the server has, and may be older.
HistoryInv ==
  IsHistory(entries) /\ history.data \subseteq entries /\ history \in HistoryState

LEMMA HistorySteps == HistoryInv /\ [HistoryNext]_historyVars => HistoryInv'
<1> SUFFICES ASSUME HistoryInv, [HistoryNext]_historyVars PROVE HistoryInv'
  OBVIOUS
<1>1. IsHistory(entries) /\ history.data \subseteq entries /\ history \in HistoryState
  BY DEF HistoryInv
<1>2. entries \subseteq HistoryEntry
  BY <1>1 DEF IsHistory, HistoryEntry
<1>3. ASSUME NEW kind \in HistoryKind, Write(kind) PROVE HistoryInv'
  <2>1. PICK e \in EntryOf(kind) : /\ \A f \in entries : f.at # e.at \/ f.kind # e.kind
                                  /\ entries' = entries \cup {e}
    BY <1>3 DEF Write
  <2>2. IsFiniteSet(entries')
    BY <1>1, <2>1, FS_AddElement DEF IsHistory
  <2>3. entries' \subseteq EntryOf(kind)
    BY <1>3, <2>1 DEF Write
  <2>4. \A f, g \in entries' : f.at = g.at /\ f.kind = g.kind => f = g
    BY <1>1, <2>1 DEF IsHistory
  <2>5. IsHistory(entries)'
    BY <2>2, <2>3, <2>4 DEF IsHistory
  <2>6. history' = history /\ history \in HistoryState'
    BY <1>1, <1>3 DEF Write, HistoryState
  <2> QED
    BY <1>1, <2>1, <2>5, <2>6 DEF HistoryInv
<1>4. ASSUME NEW kind \in HistoryKind, NEW mode \in {"self", "admin"}, OpenHistory(kind, mode)
      PROVE  HistoryInv'
  <2>1. PICK total : history' = [NotOpen EXCEPT !.kind = kind, !.mode = mode, !.fetching = TRUE,
                                   !.total = total]
    BY <1>4 DEF OpenHistory
  <2>2. history' \in HistoryState' /\ history'.data = {}
    BY <2>1 DEF NotOpen, HistoryState
  <2> QED
    BY <1>1, <1>4, <2>2 DEF OpenHistory, HistoryInv
<1>5. CASE CloseHistory
  <2>1. history' \in HistoryState' /\ history'.data = {} /\ entries' = entries
    BY <1>5 DEF CloseHistory, NotOpen, HistoryState
  <2> QED
    BY <1>1, <2>1 DEF HistoryInv
<1>6. ASSUME NEW ok \in BOOLEAN, HistoryArrives(ok) PROVE HistoryInv'
  <2>1. CASE ok
    <3>1. history' = [history EXCEPT !.fetching = FALSE, !.loaded = TRUE, !.failed = FALSE,
                                     !.data = entries]
      BY <1>6, <2>1 DEF HistoryArrives
    <3>2. history' \in HistoryState' /\ history'.data = entries
      BY <1>1, <1>2, <3>1 DEF HistoryState
    <3> QED
      BY <1>1, <1>6, <3>2 DEF HistoryArrives, HistoryInv
  <2>2. CASE ~ok
    <3>1. history' = [history EXCEPT !.fetching = FALSE, !.failed = TRUE, !.group = "default"]
      BY <1>6, <2>2 DEF HistoryArrives
    <3>2. history' \in HistoryState' /\ history'.data = history.data
      BY <1>1, <3>1 DEF HistoryState
    <3> QED
      BY <1>1, <1>6, <3>2 DEF HistoryArrives, HistoryInv
  <2> QED
    BY <2>1, <2>2
<1>7. CASE FetchHistory
  <2>1. history' \in HistoryState' /\ history'.data = history.data
    BY <1>1, <1>7 DEF FetchHistory, HistoryState
  <2> QED
    BY <1>1, <1>7, <2>1 DEF FetchHistory, HistoryInv
<1>8. ASSUME NEW key \in 0..HistoryDays, Toggle(key) PROVE HistoryInv'
  <2>1. PICK group \in {"none", ToString(key)} : history' = [history EXCEPT !.group = group]
    BY <1>8 DEF Toggle
  <2>2. history' \in HistoryState' /\ history'.data = history.data
    BY <1>1, <2>1 DEF HistoryState
  <2> QED
    BY <1>1, <1>8, <2>2 DEF Toggle, HistoryInv
<1>9. CASE UNCHANGED historyVars
  BY <1>1, <1>9 DEF historyVars, HistoryInv, HistoryState
<1> QED
  BY <1>3, <1>4, <1>5, <1>6, <1>7, <1>8, <1>9 DEF HistoryNext

LEMMA HistoryStart == HistoryInit => HistoryInv
<1> SUFFICES ASSUME HistoryInit PROVE HistoryInv
  OBVIOUS
<1>1. history \in HistoryState /\ history.data = {} /\ entries = {}
  BY DEF HistoryInit, NotOpen, HistoryState
<1>2. IsHistory({})
  BY FS_EmptySet DEF IsHistory, HistoryKind
<1> QED
  BY <1>1, <1>2 DEF HistoryInv

\* A history with its groups, as it is shown.
LEMMA ShownHistory == HistoryInv => HistoryAddsUp
<1> SUFFICES ASSUME HistoryInv PROVE HistoryAddsUp
  OBVIOUS
<1> DEFINE s == history.data
           ks == GroupKeys(Ordered(s))
           gs == Groups(s)
           seqs == [n \in DOMAIN gs |-> gs[n].rows]
<1>1. IsHistory(s)
  BY PartOfHistory DEF HistoryInv
<1>2. PICK m : MonthsOf(ks, m, s)
  BY <1>1, GroupKeysAre
<1>3. /\ DOMAIN gs = 1..m
      /\ \A n \in 1..m : /\ gs[n].key = ks[n] /\ gs[n].rows = Ordered(InMonth(s, ks[n]))
                         /\ gs[n].total = AmountOfRows(Ordered(InMonth(s, ks[n])))
  BY <1>2, GroupsAre
<1> HIDE DEF ks, gs, s
<1>4. m \in Nat /\ \A i, j \in 1..m : i < j => ks[i] > ks[j]
  BY <1>2 DEF MonthsOf
<1>5. Len(FlattenSeq(seqs)) = Cardinality(s) /\ ToSet(FlattenSeq(seqs)) = s
  <2>1. seqs = [n \in 1..m |-> gs[n].rows]
    BY <1>3
  <2>2. DOMAIN seqs = 1..m /\ Len(seqs) = m /\ \A n \in 1..m : seqs[n] = gs[n].rows
    BY <1>4, <2>1
  <2> HIDE DEF seqs
  <2>3. \A n \in 1..m : seqs[n] = Ordered(InMonth(s, ks[n]))
    BY <1>3, <2>2
  <2> QED
    BY <1>1, <1>2, <2>2, <2>3, RowsOfGroups
<1>6. ASSUME NEW n \in 1..m, NEW d \in 1..HistoryDays, NEW i \in DOMAIN gs[n].rows,
             gs[n].rows[i].at \in {Stamp(d, 0), Stamp(d, 12)}
      PROVE  gs[n].key = (d - 1) \div DaysPerMonth
  <2> DEFINE r == InMonth(s, ks[n])
             e == gs[n].rows[i]
  <2>1. r \in SUBSET s /\ \A f \in r : MonthKey(f) = ks[n]
    BY DEF InMonth
  <2> HIDE DEF r
  <2>2. IsHistory(r) /\ gs[n].rows = Ordered(r)
    BY <1>1, <1>3, <2>1, PartOfHistory DEF r
  <2>3. Ordered(r) \in [1..Cardinality(r) -> r]
    BY <2>2, OrderedLists DEF Lists
  <2>4. e \in r
    BY <2>2, <2>3
  <2> HIDE DEF e
  <2>5. PICK kind \in HistoryKind : e \in EntryOf(kind)
    BY <2>2, <2>4 DEF IsHistory
  <2>6. DayKey(e) = d
    BY <1>6, <2>5, EntryTypes DEF e
  <2> QED
    BY <1>3, <2>1, <2>4, <2>6 DEF MonthKey
<1>7. TotalOfGroups(gs) = SumOf(s)
  <2>1. \A n \in 1..m : gs[n].total = AmountOfRows(Ordered(InMonth(s, ks[n])))
    BY <1>3
  <2>2. DOMAIN gs = 1..m
    BY <1>3
  <2> QED
    BY <1>1, <1>2, <2>1, <2>2, TotalsOfGroups
<1>8. (history.mode = "admin" => history.total = SumOf(s)) => TotalOfGroups(gs) = HistoryTotal
  BY <1>7 DEF HistoryTotal, s
<1>9. \A i, j \in DOMAIN gs : i < j => gs[i].key > gs[j].key
  BY <1>3, <1>4
<1>10. \A n \in DOMAIN gs, d \in 1..HistoryDays : \A i \in DOMAIN gs[n].rows :
         gs[n].rows[i].at \in {Stamp(d, 0), Stamp(d, 12)} => gs[n].key = (d - 1) \div DaysPerMonth
  BY <1>3, <1>6
<1> QED
  BY <1>5, <1>8, <1>9, <1>10 DEF HistoryAddsUp, TotalOfGroups, gs, s

\* The history that is shown is of the one that the server has (ChargeHistoryModal,
\* TopUpHistoryModal, TariffPlanBillingHistoryModal).
THEOREM HistoryInvariance == HistorySpec => []HistoryInv
  BY HistoryStart, HistorySteps, PTL DEF HistorySpec

\* Every charge, payment or run is in the group of its month, and the groups add up to the
\* heading, for any number of entries, days and amounts.
THEOREM GroupsAddUp == HistorySpec => []HistoryAddsUp
  BY HistoryInvariance, ShownHistory, PTL

\* The tab that is shown is that of a profile, also when the arrows go round.
LEMMA PanelSteps == PanelTypeOK /\ [PanelNext]_panelVars => PanelTypeOK'
<1> SUFFICES ASSUME PanelTypeOK, [PanelNext]_panelVars PROVE PanelTypeOK'
  OBVIOUS
<1>1. /\ active \in BOOLEAN
      /\ access \in [state: {"pending", "loaded", "failed"}, profiles: AccessLists]
      /\ preferred \in Profile \cup {NoProfile}
      /\ qr \in [of: Profile, link: {"subscription", "connection"}] \cup {NoQr}
  BY DEF PanelTypeOK
<1>2. /\ Len(access.profiles) \in Nat /\ DOMAIN access.profiles = 1..Len(access.profiles)
      /\ \A i \in DOMAIN access.profiles : access.profiles[i] \in Profile
  <2>1. access.profiles \in AccessLists
    BY <1>1
  <2>2. PICK n \in 0..2 : access.profiles \in [1..n -> Profile]
    BY <2>1 DEF AccessLists
  <2> QED
    BY <2>2
<1>3. SelectedProfile \in Profile \cup {NoProfile}
  BY <1>1, <1>2, EmptySeq DEF SelectedProfile
<1>4. CASE AccessArrives
  <2>1. CASE \E items \in AccessLists : access' = [state |-> "loaded", profiles |-> items]
    BY <1>1, <1>4, <2>1 DEF AccessArrives, PanelTypeOK
  <2>2. CASE access' = [access EXCEPT !.state = "failed"]
    BY <1>1, <1>4, <2>2 DEF AccessArrives, PanelTypeOK
  <2> QED
    BY <1>4, <2>1, <2>2 DEF AccessArrives
<1>5. CASE StatusArrives
  BY <1>1, <1>5 DEF StatusArrives, PanelTypeOK
<1>6. CASE CloseQr
  BY <1>1, <1>6 DEF CloseQr, PanelTypeOK
<1>7. ASSUME NEW p \in Profile, ClickTab(p) PROVE PanelTypeOK'
  BY <1>1, <1>7 DEF ClickTab, Selects, PanelTypeOK
<1>8. ASSUME NEW step \in {1, -1}, ArrowKey(step) PROVE PanelTypeOK'
  <2>1. PICK i \in DOMAIN access.profiles : Selects(TabAt(i + step))
    BY <1>8 DEF ArrowKey
  <2> DEFINE n == Len(access.profiles)
             tab == ((i + step + n - 1) % n) + 1
  <2>2. n \in Nat /\ n > 1 /\ i \in 1..n
    BY <1>2, <1>8 DEF ArrowKey
  <2>3. tab \in 1..n
    <3>1. i + step + n - 1 \in Int
      BY <2>2
    <3> HIDE DEF n
    <3> QED
      BY <2>2, <3>1
  <2>4. TabAt(i + step) = access.profiles[tab]
    BY DEF TabAt
  <2>5. preferred' \in Profile /\ qr' = NoQr
    <3> HIDE DEF n, tab
    <3> QED
      BY <1>2, <2>1, <2>3, <2>4 DEF Selects, n
  <2> QED
    BY <1>1, <1>8, <2>5 DEF ArrowKey, PanelTypeOK
<1>9. ASSUME NEW link \in {"subscription", "connection"}, ShowQr(link) PROVE PanelTypeOK'
  BY <1>1, <1>3, <1>9 DEF ShowQr, PanelShown, PanelTypeOK
<1>10. CASE UNCHANGED panelVars
  BY <1>1, <1>10 DEF panelVars, PanelTypeOK
<1> QED
  BY <1>4, <1>5, <1>6, <1>7, <1>8, <1>9, <1>10 DEF PanelNext

LEMMA PanelStart == PanelInit => PanelTypeOK
<1>1. <<>> \in AccessLists
  <2>1. <<>> \in [1..0 -> Profile]
    OBVIOUS
  <2>2. 0 \in 0..2 /\ <<>> \in UNION {[1..n -> Profile] : n \in 0..2}
    BY <2>1
  <2> QED
    BY <2>2 DEF AccessLists
<1> QED
  BY <1>1 DEF PanelInit, PanelTypeOK

-----------------------------------------------------------------------------
(* The parts side by side: each is left alone while another one moves, and *)
(* what is proved of a part on its own holds of it among the others.       *)

\* The dialogs of Pages behave like those of DialogStack, whichever part is looked at.
THEOREM PagesKeepDialogs == Spec => StackSpec
<1>1. Init => StackInit
  BY DEF Init
<1>2. [Next]_vars => [StackNext]_stackVars
  BY DEF Next, vars
<1> QED
  BY <1>1, <1>2, PTL DEF Spec, StackSpec

\* The top-up dialog of Pages behaves like that of TopUpForm.
THEOREM PagesKeepTopUps == Spec => TopUpSpec
<1>1. Init => TopUpInit
  BY DEF Init
<1>2. [Next]_vars => [TopUpNext]_topUpVars
  BY DEF Next, vars
<1> QED
  BY <1>1, <1>2, PTL DEF Spec, TopUpSpec

\* The select field of Pages behaves like that of FieldSelect.
THEOREM PagesKeepSelects == Spec => SelectSpec
<1>1. Init => SelectInit
  BY DEF Init
<1>2. [Next]_vars => [SelectNext]_selectVars
  BY DEF Next, vars
<1> QED
  BY <1>1, <1>2, PTL DEF Spec, SelectSpec

\* The copy buttons of Pages behave like those of CopyFeedback.
THEOREM PagesKeepCopies == Spec => CopySpec
<1>1. Init => CopyInit
  BY DEF Init
<1>2. [Next]_vars => [CopyNext]_copyVars
  BY DEF Next, vars
<1> QED
  BY <1>1, <1>2, PTL DEF Spec, CopySpec

\* The page of users of Pages behaves like that of UsersPage, without its fairness.
THEOREM PagesKeepUsers == Spec => UsersSpec
<1>1. Init => UsersInit
  BY DEF Init
<1>2. [Next]_vars => [UsersNext]_usersVars
  BY DEF Next, vars
<1> QED
  BY <1>1, <1>2, PTL DEF Spec, UsersSpec

\* The page of tariff plans of Pages behaves like that of TariffPlansPage.
THEOREM PagesKeepPlans == Spec => PlansSpec
<1>1. Init => PlansInit
  BY DEF Init
<1>2. [Next]_vars => [PlansNext]_plansVars
  BY DEF Next, vars
<1> QED
  BY <1>1, <1>2, PTL DEF Spec, PlansSpec

\* The journal of payments of Pages behaves like that of TopUpsPage.
THEOREM PagesKeepJournal == Spec => TopUpsSpec
<1>1. Init => TopUpsInit
  BY DEF Init
<1>2. [Next]_vars => [TopUpsNext]_topUpsVars
  BY DEF Next, vars
<1> QED
  BY <1>1, <1>2, PTL DEF Spec, TopUpsSpec

\* The histories of Pages behave like those of Histories.
THEOREM PagesKeepHistories == Spec => HistorySpec
<1>1. Init => HistoryInit
  BY DEF Init
<1>2. [Next]_vars => [HistoryNext]_historyVars
  BY DEF Next, vars
<1> QED
  BY <1>1, <1>2, PTL DEF Spec, HistorySpec

\* The VPN panel of Pages keeps its types.
LEMMA PagesKeepPanel == Spec => []PanelTypeOK
<1>1. Init => PanelTypeOK
  BY PanelStart DEF Init
<1>2. [Next]_vars => [PanelNext]_panelVars
  BY DEF Next, vars
<1> QED
  BY <1>1, <1>2, PanelSteps, PTL DEF Spec

LEMMA TypesOfInvariants ==
  /\ StackInv => StackTypeOK
  /\ SelectInv => SelectTypeOK
  /\ PlansInv => PlansTypeOK
  /\ HistoryInv => HistoryTypeOK
  /\ CopyInv => CopyTypeOK
  /\ TopUpInv => TopUpTypeOK
<1>1. ASSUME PlansInv PROVE PlansTypeOK
  <2>1. /\ plans \in PlanTable /\ planList.plans \in PlanTable
        /\ today \in Day /\ form.start \in Day \cup {NoDate} /\ saves \in 0..MaxSaves
    BY <1>1 DEF PlansInv, PlansTypes, FormState
  <2>2. save.phase \in {"none", "sent", "saved", "refreshing"}
    BY <1>1 DEF PlansInv, PlansTypes, SaveState, NoSave
  <2> QED
    BY <2>1, <2>2, PlanTables DEF PlansTypeOK
<1>2. ASSUME HistoryInv PROVE HistoryTypeOK
  BY <1>2 DEF HistoryInv, HistoryState, HistoryEntry, HistoryTypeOK
<1> QED
  BY <1>1, <1>2 DEF StackInv, SelectInv, CopyInv, TopUpInv

\* The parts of TypeOK, kept by what each part does on its own.
THEOREM PagesTypes == Spec => []TypeOK
<1>1. UsersInv => UsersTypeOK
  BY UsersConsequences
<1>2. TopUpsInv => TopUpsTypeOK
  BY TopUpsConsequences
<1>3. UsersTypeOK /\ StackTypeOK /\ SelectTypeOK /\ PlansTypeOK /\ HistoryTypeOK
        /\ PanelTypeOK /\ CopyTypeOK /\ TopUpTypeOK /\ TopUpsTypeOK => TypeOK
  BY DEF TypeOK
<1> QED
  BY <1>1, <1>2, <1>3, TypesOfInvariants, PagesKeepHistories, PagesKeepPanel, PagesKeepPlans, PagesKeepJournal,
     PagesKeepDialogs, PagesKeepTopUps, PagesKeepSelects, PagesKeepCopies, PagesKeepUsers,
     StackInvariance, SelectInvariance, PlansInvariance, CopyInvariance, TopUpInvariance,
     TopUpsInvariance, UsersInvariance, HistoryInvariance, PTL

\* On a page the body scrolls again once its dialogs are closed, the checkout is the one
\* of the last request, a list can be chosen from and is in view, the mark of a copy stays
\* its time, the users that are shown are those of the server, the journal is complete, the
\* groups of a history add up, and every day has its plan.
THEOREM PagesAreSound ==
  Spec => [](/\ PageScrollsAgain /\ PaysWhatWasSubmitted /\ HighlightUsable /\ PopupInView
             /\ CopiedLasts /\ ListShowsSaves /\ TableComplete /\ HistoryAddsUp /\ OnePlanPerDay)
BY PagesKeepDialogs, PagesKeepTopUps, PagesKeepSelects, PagesKeepCopies, PagesKeepUsers,
   PagesKeepPlans, PagesKeepJournal, PagesKeepHistories, GroupsAddUp, PageIsGivenBack, CheckoutIsLastRequest, EnterChooses,
   PopupStaysInView, MarkLastsItsTime, ListKeepsUp, TableIsComplete, EveryDayHasItsPlan, PTL

\* The end that the form of a plan shows is the end the plan is given, on this page too.
THEOREM PagesKeepPreviews == Spec => PreviewKept
BY PagesKeepPlans, PreviewIsKept, PTL
=============================================================================
