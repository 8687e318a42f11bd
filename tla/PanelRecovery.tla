---------------------------- MODULE PanelRecovery ----------------------------
(***************************************************************************)
(* Panel implements Recovery.  The abstract session is Panel.session while *)
(* it is active; it is up as long as its last run has not been collected,  *)
(* and waiting afterwards.                                                 *)
(***************************************************************************)
EXTENDS Panel

InSession == session # 0 /\ active[session]
HasRun == run # 0 /\ sessionOf[run] = session /\ ~exited[run]

AbstractMode == IF ~InSession THEN "off" ELSE IF HasRun THEN "up" ELSE "waiting"

Abstract == INSTANCE Recovery WITH
    mode <- AbstractMode,
    auto <- InSession /\ enabled[session],
    ready <- InSession /\ armed[session],
    spent <- IF InSession THEN attempts[session] ELSE 0

\* Every behaviour of the panel is, for the session, one that Recovery allows:
\* Panel._schedule_restart and Panel._restart spend the budget, and whatever
\* cancels a session ends it for good.
ImplementsRecovery == Abstract!RecoverySpec
=============================================================================
