---------------------------- MODULE WorkerService ----------------------------
(***************************************************************************)
(* What a module of the samples promises its host, however its loop is     *)
(* posted and stopped: it acts only while it is on; once it is told to     *)
(* stop it begins at most one more act; and when Shutdown waits for the    *)
(* loop, nothing acts any more after Shutdown has returned.                *)
(***************************************************************************)
EXTENDS Naturals

VARIABLES
    waits,      \* does Shutdown wait for the loop?
    phase,      \* "off", "on", "closing" or "closed"
    acting,     \* an act (a message, a call, a line) is under way
    overdue     \* how many acts have begun since the module was told to stop

wvars == <<waits, phase, acting, overdue>>

Init ==
    /\ waits \in BOOLEAN
    /\ phase = "off"
    /\ acting = FALSE
    /\ overdue = 0

Open == phase = "off" /\ phase' = "on" /\ UNCHANGED <<waits, acting, overdue>>

BeginAct ==
    /\ ~acting
    /\ acting' = TRUE
    /\ \/ phase = "on" /\ UNCHANGED overdue
       \/ /\ phase = "closing" \/ (phase = "closed" /\ ~waits)
          /\ overdue = 0
          /\ overdue' = 1
    /\ UNCHANGED <<waits, phase>>

EndAct == acting /\ acting' = FALSE /\ UNCHANGED <<waits, phase, overdue>>

Close == phase = "on" /\ phase' = "closing" /\ UNCHANGED <<waits, acting, overdue>>

Closed ==
    /\ phase \in {"on", "closing"}
    /\ waits => ~acting
    /\ phase' = "closed"
    /\ UNCHANGED <<waits, acting, overdue>>

Next == Open \/ BeginAct \/ EndAct \/ Close \/ Closed

Spec == Init /\ [][Next]_wvars
=============================================================================
