----------------------------- MODULE MCKeyboard -----------------------------
(***************************************************************************)
(* Keyboard with all four mode buttons, one direction key, a queue that    *)
(* holds one event (a press waits until the one before it was taken), and  *)
(* a few posted events.                                                    *)
(***************************************************************************)
EXTENDS Keyboard
=============================================================================
