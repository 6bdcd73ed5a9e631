------------------------- MODULE NodePortAllocator -------------------------
(***************************************************************************)
(* The NodePort allocator of the pending reconciler:                       *)
(* clusterController.GetFreeNodePort in src/controller/cluster/pending.go. *)
(* It collects every non-zero NodePort of every service in the service     *)
(* cache and scans [minAPIServerPort, maxAPIServerPort] upwards for the    *)
(* first port not in that list.                                            *)
(*                                                                         *)
(* A service is abstracted to the set of the NodePorts of its port         *)
(* entries (0 meaning "no NodePort"); the cache's list is a set of them.   *)
(***************************************************************************)
EXTENDS Integers

LOCAL INSTANCE FiniteSetsExt

CONSTANTS
  minAPIServerPort,   \* cc.minAPIServerPort
  maxAPIServerPort    \* cc.maxAPIServerPort

ASSUME minAPIServerPort \in Nat /\ maxAPIServerPort \in Nat

\* The result (port, err) of GetFreeNodePort.
Allocated(port) == [port |-> port, err |-> FALSE]

\* The error result: 0 with "no free NodePort available within the given
\* range".
NoFreePort == [port |-> 0, err |-> TRUE]

\* The usedPorts slice: every NodePort of every service, zero entries skipped.
UsedPorts(services) == {p \in UNION services : p # 0}

\* Mutant of FirstFree: the loop condition written `port < maxAPIServerPort`,
\* so the last port of the range is never handed out.
RECURSIVE FirstFreeBelowMax(_, _)
FirstFreeBelowMax(port, usedPorts) ==
  IF port >= maxAPIServerPort THEN NoFreePort
  ELSE IF port \in usedPorts THEN FirstFreeBelowMax(port + 1, usedPorts)
  ELSE Allocated(port)

\* Mutant of FirstFree: the loop condition written
\* `port <= maxAPIServerPort + 1`, so one port past the range is handed out.
RECURSIVE FirstFreePastMax(_, _)
FirstFreePastMax(port, usedPorts) ==
  IF port > maxAPIServerPort + 1 THEN NoFreePort
  ELSE IF port \in usedPorts THEN FirstFreePastMax(port + 1, usedPorts)
  ELSE Allocated(port)

\* The scan loop: from port upwards, skip ports that isIn reports as taken.
RECURSIVE FirstFree(_, _)
FirstFree(port, usedPorts) ==
  IF port > maxAPIServerPort THEN NoFreePort
  ELSE IF port \in usedPorts THEN FirstFree(port + 1, usedPorts)
  ELSE Allocated(port)

GetFreeNodePort(services) == FirstFree(minAPIServerPort, UsedPorts(services))

\* Reference definition: the smallest port of the range that no service
\* holds as a NodePort, or the error when the range is exhausted.
SmallestFreePort(services) ==
  LET free == {p \in minAPIServerPort..maxAPIServerPort :
                 \A s \in services : p \notin s \/ p = 0}
  IN  IF free = {} THEN NoFreePort ELSE Allocated(Min(free))
=============================================================================
