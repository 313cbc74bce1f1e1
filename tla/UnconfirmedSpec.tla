--------------------------- MODULE UnconfirmedSpec ---------------------------
(***************************************************************************)
(* What the table of unconfirmed proofs (worker/unconfirmed.go) promises   *)
(* the mining round, stated without peers, thresholds or timers.           *)
(*                                                                         *)
(* A work whose proof was broadcast is inserted into the table.  While the *)
(* table runs, each inserted work is eventually handed to FinalMine on     *)
(* confirmCh, exactly once, as confirmed or not.  Stopping the miner drops *)
(* the open entries; only the one entry a timeout scan has already loaded  *)
(* may still be handed after the stop.  A work inserted into a stopped     *)
(* table is dropped at once.  A crash of the process drops everything.    *)
(***************************************************************************)
EXTENDS Naturals, FiniteSets

CONSTANT WorkIds

VARIABLES
    status,    \* status[w]: "none", "open", "handed" or "dropped"
    handoffs,  \* handoffs[w]: how many times w was handed to FinalMine
    running,   \* the table's RoutineLoop is running
    up         \* the process has not crashed

avars == <<status, handoffs, running, up>>

TypeOK ==
    /\ status \in [WorkIds -> {"none", "open", "handed", "dropped"}]
    /\ handoffs \in [WorkIds -> Nat]
    /\ running \in BOOLEAN
    /\ up \in BOOLEAN

Init ==
    /\ status = [w \in WorkIds |-> "none"]
    /\ handoffs = [w \in WorkIds |-> 0]
    /\ running = TRUE
    /\ up = TRUE

OpenWorks == {w \in WorkIds : status[w] = "open"}

\* A work enters the table; a stopped table never hands it on.
Insert(w) ==
    /\ up
    /\ status[w] = "none"
    /\ status' = [status EXCEPT ![w] = IF running THEN "open" ELSE "dropped"]
    /\ UNCHANGED <<handoffs, running, up>>

\* An open work is handed to FinalMine, for the first and only time.
Hand(w) ==
    /\ up
    /\ status[w] = "open"
    /\ status' = [status EXCEPT ![w] = "handed"]
    /\ handoffs' = [handoffs EXCEPT ![w] = @ + 1]
    /\ UNCHANGED <<running, up>>

\* The table stops: every open work is dropped except those in keep, at
\* most one, which a timeout scan is already handing on.
Stop(keep) ==
    /\ up
    /\ running
    /\ keep \subseteq OpenWorks
    /\ Cardinality(keep) <= 1
    /\ running' = FALSE
    /\ status' = [w \in WorkIds |->
                    IF w \in OpenWorks \ keep THEN "dropped" ELSE status[w]]
    /\ UNCHANGED <<handoffs, up>>

\* A new table runs; what the old one dropped stays dropped.
Start ==
    /\ up
    /\ ~running
    /\ running' = TRUE
    /\ UNCHANGED <<status, handoffs, up>>

\* The process dies: nothing open is ever handed on.
Crash ==
    /\ up
    /\ up' = FALSE
    /\ running' = FALSE
    /\ status' = [w \in WorkIds |->
                    IF status[w] = "open" THEN "dropped" ELSE status[w]]
    /\ UNCHANGED handoffs

Next ==
    \/ \E w \in WorkIds : Insert(w) \/ Hand(w)
    \/ \E keep \in SUBSET OpenWorks : Stop(keep)
    \/ Start
    \/ Crash

SafetySpec == Init /\ [][Next]_avars

\* An open work is eventually handed on, unless it is dropped first.
Spec == SafetySpec /\ \A w \in WorkIds : WF_avars(Hand(w))

====
