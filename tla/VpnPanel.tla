------------------------------ MODULE VpnPanel ------------------------------
(***************************************************************************)
(* The panel with the VPN profiles of the user: the tabs, the list of      *)
(* connections, and the QR code over it.  The profiles are fetched anew    *)
(* while the user looks at them, and the account may lose its access.      *)
(***************************************************************************)
EXTENDS Integers, Sequences

CONSTANTS
  Profile,       \* the e-mails of the profiles
  NoProfile

VARIABLES
  active,      \* the status of the account in the store is active
  access,      \* accessQuery: the profiles in the order of the server
  preferred,   \* the tab the user has chosen
  qr           \* the profile whose link the QR code shows, and which link
panelVars == <<active, access, preferred, qr>>

AccessLists == {list \in UNION {[1..n -> Profile] : n \in 0..2} :
                  \A i, j \in DOMAIN list : i # j => list[i] # list[j]}
NoQr == [of |-> NoProfile, link |-> "none"]

PanelInit ==
  /\ active = TRUE
  /\ access = [state |-> "pending", profiles |-> <<>>]
  /\ preferred = NoProfile /\ qr = NoQr

\* The tab that is shown: the chosen one if it is there, otherwise the first.
SelectedProfile ==
  LET list == access.profiles IN
  IF \E i \in DOMAIN list : list[i] = preferred THEN preferred
  ELSE IF list = <<>> THEN NoProfile ELSE list[1]
\* The other states of the panel return before anything is rendered that can be clicked.
PanelShown == active /\ access.state = "loaded" /\ SelectedProfile # NoProfile

\* The query of an active account; an error replaces the panel, not its state.
AccessArrives ==
  /\ active
  /\ \/ \E list \in AccessLists : access' = [state |-> "loaded", profiles |-> list]
     \/ access' = [access EXCEPT !.state = "failed"]
  /\ UNCHANGED <<active, preferred, qr>>
\* The store takes over another status: without access there is no panel, nor its dialog.
StatusArrives == active' = ~active /\ UNCHANGED <<access, preferred, qr>>

Selects(p) == preferred' = p /\ qr' = NoQr
\* A click on a tab, or the arrows, Home and End on the row of tabs.
ClickTab(p) ==
  /\ PanelShown /\ Len(access.profiles) > 1
  /\ \E i \in DOMAIN access.profiles : access.profiles[i] = p
  /\ Selects(p)
  /\ UNCHANGED <<active, access>>
TabAt(index) ==
  LET n == Len(access.profiles) IN access.profiles[((index + n - 1) % n) + 1]
ArrowKey(step) ==
  /\ PanelShown /\ Len(access.profiles) > 1
  /\ \E i \in DOMAIN access.profiles : /\ access.profiles[i] = SelectedProfile
                                       /\ Selects(TabAt(i + step))
  /\ UNCHANGED <<active, access>>

\* The QR of the subscription, or of one of the connections of the profile.
ShowQr(link) ==
  /\ PanelShown /\ qr' = [of |-> SelectedProfile, link |-> link]
  /\ UNCHANGED <<active, access, preferred>>
CloseQr == qr # NoQr /\ qr' = NoQr /\ UNCHANGED <<active, access, preferred>>

PanelNext ==
  \/ AccessArrives \/ StatusArrives \/ CloseQr
  \/ \E p \in Profile : ClickTab(p)
  \/ \E step \in {1, -1} : ArrowKey(step)
  \/ \E link \in {"subscription", "connection"} : ShowQr(link)

-----------------------------------------------------------------------------
(* Properties. *)

PanelTypeOK ==
  /\ active \in BOOLEAN
  /\ access \in [state: {"pending", "loaded", "failed"}, profiles: AccessLists]
  /\ preferred \in Profile \cup {NoProfile}
  /\ qr \in [of: Profile, link: {"subscription", "connection"}] \cup {NoQr}
=============================================================================
