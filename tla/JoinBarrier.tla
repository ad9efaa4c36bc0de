---------------------------- MODULE JoinBarrier ----------------------------
(***************************************************************************)
(* What the controller may rely on when it uses its child threads: threads *)
(* are started only by the main thread while it is not waiting, a thread   *)
(* that runs comes to an end once the main thread waits for it, and the    *)
(* wait (Controller::waitForChildThreads) returns only when none is left.  *)
(***************************************************************************)
CONSTANT Threads

VARIABLES running,   \* the threads that have been started and still run
          joining    \* TRUE while the main thread is in waitForChildThreads

vars == <<running, joining>>

TypeOK == running \subseteq Threads /\ joining \in BOOLEAN

Init == running = {} /\ joining = FALSE

Start(t) ==
    /\ ~joining
    /\ t \notin running
    /\ running' = running \cup {t}
    /\ UNCHANGED joining

End(t) ==
    /\ t \in running
    /\ running' = running \ {t}
    /\ UNCHANGED joining

BeginJoin == ~joining /\ joining' = TRUE /\ UNCHANGED running

EndJoin == joining /\ running = {} /\ joining' = FALSE /\ UNCHANGED running

Next == BeginJoin \/ EndJoin \/ \E t \in Threads : Start(t) \/ End(t)

Safety == Init /\ [][Next]_vars

(* A join that has begun comes back. *)
JoinReturns == joining ~> ~joining

Spec == Safety /\ JoinReturns
=============================================================================
