---------------------------- MODULE ClusterPhase ----------------------------
(***************************************************************************)
(* What the pending reconciler promises about one cluster, whatever the    *)
(* order of its steps, its failures and its retries: while the cluster is  *)
(* Pending its control-plane resources appear one at a time and stay      *)
(* (only the resources in Replaceable may be removed again); it becomes   *)
(* Launching only once every needed resource is there, or it becomes       *)
(* Failed; and it never goes back to Pending.                              *)
(***************************************************************************)
CONSTANTS
  Clusters,      \* cluster names
  Resources,     \* everything the reconciler provisions for a cluster
  Needed,        \* [Clusters -> SUBSET Resources]: required for Launching
  Replaceable    \* resources the reconciler may delete and create again

VARIABLES
  phase,         \* the phase of each cluster
  created        \* the resources provisioned for each cluster

Init ==
  /\ phase = [c \in Clusters |-> "Pending"]
  /\ created = [c \in Clusters |-> {}]

Provision(c, r) ==
  /\ phase[c] = "Pending"
  /\ created' = [created EXCEPT ![c] = @ \cup {r}]
  /\ UNCHANGED phase

Replace(c, r) ==
  /\ phase[c] = "Pending"
  /\ r \in Replaceable
  /\ created' = [created EXCEPT ![c] = @ \ {r}]
  /\ UNCHANGED phase

Launch(c) ==
  /\ phase[c] = "Pending"
  /\ Needed[c] \subseteq created[c]
  /\ phase' = [phase EXCEPT ![c] = "Launching"]
  /\ UNCHANGED created

Fail(c) ==
  /\ phase[c] = "Pending"
  /\ phase' = [phase EXCEPT ![c] = "Failed"]
  /\ UNCHANGED created

Next ==
  \E c \in Clusters :
    \/ \E r \in Resources : Provision(c, r) \/ Replace(c, r)
    \/ Launch(c)
    \/ Fail(c)

Spec == Init /\ [][Next]_<<phase, created>>
=============================================================================
