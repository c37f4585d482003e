-------------------------------- MODULE Imports --------------------------------
(***************************************************************************)
(* What the synchronization with the DGCP portal promises, however many    *)
(* schedulers and users run it at once: a run happens at one moment, for   *)
(* all of its tenants or for none.  It imports processes that are open and *)
(* not there yet, counts each of them once, and puts off the next run of   *)
(* the tenants whose synchronization was completed, and only of those.     *)
(***************************************************************************)
EXTENDS Integers, FiniteSets

CONSTANTS Tenants, Codes,
          Expired     \* codes whose deadline has passed

VARIABLES stored,     \* codes of the opportunities of each tenant
          counted,    \* how many were counted as created
          schedule,   \* none yet, waiting, or due
          enabled

portal == <<stored, counted, schedule, enabled>>

Init ==
  /\ stored = [t \in Tenants |-> {}] /\ counted = [t \in Tenants |-> 0]
  /\ schedule = [t \in Tenants |-> "none"]
  /\ enabled = [t \in Tenants |-> TRUE]

(* A user looks at the schedule, or changes it. *)
Settle(t) ==
  /\ enabled' \in {[enabled EXCEPT ![t] = on] : on \in BOOLEAN}
  /\ schedule' \in {schedule, [schedule EXCEPT ![t] = "waiting"]}
  /\ schedule'[t] # "none"
  /\ UNCHANGED <<stored, counted>>

Elapse(t) ==
  /\ schedule[t] = "waiting"
  /\ schedule' = [schedule EXCEPT ![t] = "due"]
  /\ UNCHANGED <<stored, counted, enabled>>

Import(new, completed) ==
  /\ \A t \in Tenants : new[t] \cap stored[t] = {}
  /\ stored' = [t \in Tenants |-> stored[t] \cup new[t]]
  /\ counted' = [t \in Tenants |-> counted[t] + Cardinality(new[t])]
  /\ schedule' = [t \in Tenants |-> IF t \in completed THEN "waiting"
                                                       ELSE schedule[t]]
  /\ UNCHANGED enabled

Next ==
  \/ \E t \in Tenants : Settle(t) \/ Elapse(t)
  \/ \E new \in [Tenants -> SUBSET (Codes \ Expired)],
        completed \in SUBSET Tenants : Import(new, completed)

Spec == Init /\ [][Next]_portal
=============================================================================
