---------------------------- MODULE ClusterLedger ----------------------------
(***************************************************************************)
(* What the two files of the cluster promise: a registry of nodes and a    *)
(* ledger of tasks that no operation forgets.  Nodes come, change their    *)
(* status and are removed one at a time; a task enters the ledger once, as *)
(* running or as the record of a migration, ends once and is never changed *)
(* again.                                                                  *)
(***************************************************************************)
CONSTANTS Nodes, Sessions, Tasks, Absent

VARIABLES registry,  \* the status of each node
          ledger     \* the entry of each task

Init ==
    /\ registry = [n \in Nodes |-> Absent]
    /\ ledger = [t \in Tasks |-> Absent]

Ended == {"completed", "failed"}

Remove(n) ==
    /\ registry[n] # Absent
    /\ registry' = [registry EXCEPT ![n] = Absent]
    /\ UNCHANGED ledger

\* New nodes are online.
Register ==
    /\ registry' \in [Nodes -> {"online", "offline", Absent}]
    /\ \A n \in Nodes : registry'[n] # registry[n] =>
           registry[n] = Absent /\ registry'[n] = "online"
    /\ UNCHANGED ledger

\* A health check may change the status of every known node.
Check ==
    /\ registry' \in [Nodes -> {"online", "offline", Absent}]
    /\ \A n \in Nodes : registry'[n] = Absent <=> registry[n] = Absent
    /\ UNCHANGED ledger

\* Tasks of one session, each on a known node of its own.
Enter(s) ==
    /\ LET entered == {t \in Tasks : ledger[t] = Absent /\ ledger'[t] # Absent}
       IN /\ \A t \in Tasks \ entered : ledger'[t] = ledger[t]
          /\ \A t \in entered : /\ ledger'[t].session = s
                                /\ ledger'[t].status = "running"
                                /\ registry[ledger'[t].target] # Absent
          /\ \A t, u \in entered : ledger'[t].target = ledger'[u].target => t = u
    /\ UNCHANGED registry

Migrate(t) ==
    /\ ledger[t] = Absent
    /\ \E s \in Sessions, n \in Nodes :
         /\ registry[n] # Absent
         /\ ledger' = [ledger EXCEPT ![t] =
                [session |-> s, target |-> n, status |-> "migrated"]]
    /\ UNCHANGED registry

End(t) ==
    /\ ledger[t] # Absent
    /\ ledger[t].status = "running"
    /\ \E e \in Ended : ledger' = [ledger EXCEPT ![t].status = e]
    /\ UNCHANGED registry

Next ==
    \/ Register
    \/ Check
    \/ \E n \in Nodes : Remove(n)
    \/ \E s \in Sessions : Enter(s)
    \/ \E t \in Tasks : Migrate(t) \/ End(t)

Spec == Init /\ [][Next]_<<registry, ledger>>
=============================================================================
