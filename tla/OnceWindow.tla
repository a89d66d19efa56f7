----------------------------- MODULE OnceWindow -----------------------------
(***************************************************************************)
(* What sems_ble_advertising_once promises (sensor_handler.h:36-41), as    *)
(* seen from outside: a report goes on the air, survives one timeout of    *)
(* the 2 s timer and is taken off by the next.  The age of the reports is  *)
(* the number of timeouts that have counted them, and at 2 nothing will    *)
(* take them off any more.  A late report is one that comes while a        *)
(* timeout is being served; it is what the code promises nothing about.    *)
(***************************************************************************)
EXTENDS Naturals

VARIABLES
    on_air,   \* some report is in the scan response
    age,      \* timeouts the reports have lived through: 0, 1 or 2
    late,     \* the last report came while a timeout was being served
    listed    \* the advertising list is in use; it shares the scan response

wvars == <<on_air, age, late, listed>>

Init == on_air = FALSE /\ age = 2 /\ late = FALSE /\ listed = FALSE

Report == age' = 0 /\ late' \in BOOLEAN /\ UNCHANGED <<on_air, listed>>

\* An update shows the queued reports, or the advertising list in their place.
Show     == age = 0 /\ ~listed /\ on_air' = TRUE /\ UNCHANGED <<age, late, listed>>
Override == listed /\ on_air' = FALSE /\ UNCHANGED <<age, late, listed>>

\* The first timeout counts the reports; it may miss a late one.
FirstTimeout == /\ age = 0
                /\ age' = 1 \/ (late /\ age' = 2)
                /\ UNCHANGED <<on_air, late, listed>>

\* The second takes them off, and then forgets them. A late one may go at once.
Erase  == /\ age = 1 \/ (late /\ age = 0)
          /\ on_air' = FALSE
          /\ UNCHANGED <<age, late, listed>>
Forget == age = 1 /\ ~on_air /\ age' = 2 /\ UNCHANGED <<on_air, late, listed>>

List == listed' \in BOOLEAN /\ UNCHANGED <<on_air, age, late>>

Next == Report \/ Show \/ Override \/ FirstTimeout \/ Erase \/ Forget \/ List

Spec == Init /\ [][Next]_wvars

\* Reports on the air will be taken off by a timeout, unless one came late.
NothingForgotten == (on_air /\ ~late) => age < 2

=============================================================================
