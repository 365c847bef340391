-------------------------------- MODULE Pages -------------------------------
(***************************************************************************)
(* The pages and widgets of the frontend side by side: each has its state, *)
(* which lives while it is on the screen, and none touches that of another *)
(* one.  One of them is looked at; the others stay as they were rendered.  *)
(***************************************************************************)
EXTENDS UsersPage, DialogStack, FieldSelect, TariffPlansPage, Histories, VpnPanel, CopyFeedback,
        TopUpForm, TopUpsPage

CONSTANT Part       \* the parts to look at

VARIABLE part

Init ==
  /\ part \in Part
  /\ UsersInit /\ (part # "users" => rows = [p \in Person |-> NewRow])
  /\ visit.shown = (part = "users")
  /\ StackInit /\ SelectInit /\ PlansInit /\ HistoryInit /\ PanelInit /\ CopyInit
  /\ TopUpInit /\ TopUpsInit

Next ==
  /\ UNCHANGED part
  /\ \/ /\ part = "users" /\ UsersNext
        /\ UNCHANGED <<stackVars, selectVars, plansVars, historyVars, panelVars, copyVars,
                      topUpVars, topUpsVars>>
     \/ /\ part = "dialogs" /\ StackNext
        /\ UNCHANGED <<usersVars, selectVars, plansVars, historyVars, panelVars, copyVars,
                      topUpVars, topUpsVars>>
     \/ /\ part = "select" /\ SelectNext
        /\ UNCHANGED <<usersVars, stackVars, plansVars, historyVars, panelVars, copyVars,
                      topUpVars, topUpsVars>>
     \/ /\ part = "plans" /\ PlansNext
        /\ UNCHANGED <<usersVars, stackVars, selectVars, historyVars, panelVars, copyVars,
                      topUpVars, topUpsVars>>
     \/ /\ part = "history" /\ HistoryNext
        /\ UNCHANGED <<usersVars, stackVars, selectVars, plansVars, panelVars, copyVars,
                      topUpVars, topUpsVars>>
     \/ /\ part = "vpn" /\ PanelNext
        /\ UNCHANGED <<usersVars, stackVars, selectVars, plansVars, historyVars, copyVars,
                      topUpVars, topUpsVars>>
     \/ /\ part = "copy" /\ CopyNext
        /\ UNCHANGED <<usersVars, stackVars, selectVars, plansVars, historyVars, panelVars,
                      topUpVars, topUpsVars>>
     \/ /\ part = "topup" /\ TopUpNext
        /\ UNCHANGED <<usersVars, stackVars, selectVars, plansVars, historyVars, panelVars,
                      copyVars, topUpsVars>>
     \/ /\ part = "journal" /\ TopUpsNext
        /\ UNCHANGED <<usersVars, stackVars, selectVars, plansVars, historyVars, panelVars,
                      copyVars, topUpVars>>

vars == <<part, usersVars, stackVars, selectVars, plansVars, historyVars, panelVars, copyVars,
          topUpVars, topUpsVars>>
\* Only the page of users waits for answers that matter to its liveness.
Spec == Init /\ [][Next]_vars /\ UsersFairness

\* The types of every part.
TypeOK ==
  /\ UsersTypeOK /\ StackTypeOK /\ SelectTypeOK /\ PlansTypeOK /\ HistoryTypeOK
  /\ PanelTypeOK /\ CopyTypeOK /\ TopUpTypeOK /\ TopUpsTypeOK
=============================================================================
