------------------------------ MODULE Recovery ------------------------------
(***************************************************************************)
(* What the panel promises about the recovery of one encoding session      *)
(* (webpanel/CONTRACT.md, "Recupero dopo crash e diagnostica"), without    *)
(* threads, locks or processes: a session that was started by hand is up;  *)
(* if it was armed by a first confirmation and allows it, a crash leaves   *)
(* it waiting for a restart; every restart spends one attempt of a budget  *)
(* that nothing renews; and a session can be over at any moment, after     *)
(* which only a new start by hand brings the encoder up again.             *)
(***************************************************************************)
EXTENDS Naturals

CONSTANT MaxAttempts

VARIABLES
    mode,   \* "off": no session; "up": it has a run; "waiting": for a restart
    auto,   \* the session was started with automatic restart
    ready,  \* the session is armed
    spent   \* restarts attempted

recoveryVars == <<mode, auto, ready, spent>>

RecoveryTypeOK ==
    /\ mode \in {"off", "up", "waiting"}
    /\ auto \in BOOLEAN /\ ready \in BOOLEAN
    /\ spent \in 0..MaxAttempts

Off == mode = "off" /\ auto = FALSE /\ ready = FALSE /\ spent = 0

Begin ==
    /\ mode = "off" /\ mode' = "up"
    /\ auto' \in BOOLEAN /\ ready' = FALSE /\ spent' = 0

Confirm ==
    /\ mode = "up" /\ ready' = TRUE
    /\ UNCHANGED <<mode, auto, spent>>

Crash ==
    /\ mode = "up" /\ auto /\ ready /\ spent < MaxAttempts
    /\ mode' = "waiting"
    /\ UNCHANGED <<auto, ready, spent>>

\* The restart creates a process, or cannot and waits for the next attempt.
Again ==
    /\ mode = "waiting" /\ spent < MaxAttempts
    /\ spent' = spent + 1
    /\ \/ mode' = "up"
       \/ mode' = "waiting" /\ spent' < MaxAttempts
    /\ UNCHANGED <<auto, ready>>

Over == mode # "off" /\ Off'

RecoveryNext == Begin \/ Confirm \/ Crash \/ Again \/ Over
RecoverySpec == Off /\ [][RecoveryNext]_recoveryVars
=============================================================================
