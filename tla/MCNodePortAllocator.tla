------------------------ MODULE MCNodePortAllocator ------------------------
(***************************************************************************)
(* Checks GetFreeNodePort against its reference definition for every      *)
(* service cache built from a small pool of services: single-port          *)
(* services on every port below, inside and above the range, a service    *)
(* without NodePort (0), and one whose second port entry has none.         *)
(***************************************************************************)
EXTENDS NodePortAllocator

\* Largest NodePort a cached service may hold; above maxAPIServerPort.
MaxProbePort == maxAPIServerPort + 1

ServicePool == {{p} : p \in 0..MaxProbePort} \cup {{0, MaxProbePort}}

VARIABLE services   \* the service cache's list, each service as its NodePorts

Init == services \in SUBSET ServicePool

\* The allocator is a pure function of the cache: the cache does not move.
Next == UNCHANGED services

Spec == Init /\ [][Next]_services

\* GetFreeNodePort returns the smallest port of [min, max] not held as a
\* NodePort by any cached service, and the error exactly when there is none.
GetFreeNodePortIsSmallestFree ==
  GetFreeNodePort(services) = SmallestFreePort(services)

=============================================================================
