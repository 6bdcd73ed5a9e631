---------------------------- MODULE HetznerSizes ----------------------------
(***************************************************************************)
(* The Hetzner size handler: HetznerSizeWithClusterCredentialsEndpoint and *)
(* HetznerSize in src/pkg/handler/common/provider/hetzner.go.              *)
(*                                                                         *)
(* The endpoint looks up the cluster, checks its cloud spec and the        *)
(* cluster provider, reads the Hetzner token, and then lists the server    *)
(* types of one page and sorts each one, in list order, into the standard *)
(* list (name matches ^cx) or the dedicated list (name matches ^ccx).      *)
(*                                                                         *)
(* A server type is abstracted to its name, a sequence of characters: the  *)
(* classification depends on the name's prefix only, and the other fields *)
(* are copied unchanged into the apiv1.HetznerSize.                        *)
(***************************************************************************)
EXTENDS Integers, Sequences

LOCAL INSTANCE SequencesExt

CONSTANTS
  PerPage   \* ListOpts.PerPage of the server-type list call

ASSUME PerPage \in Nat \ {0}

\* Mutant of IsStandardSize: reStandardSize written "(cx)", without the
\* anchor, so any name containing "cx" matches.
IsStandardSizeUnanchored(name) ==
  \E i \in 1..(Len(name) - 1) : SubSeq(name, i, i + 1) = <<"c", "x">>

\* reStandardSize.MatchString: the name starts with "cx".
IsStandardSize(name) == IsPrefix(<<"c", "x">>, name)

\* reDedicatedSize.MatchString: the name starts with "ccx".
IsDedicatedSize(name) == IsPrefix(<<"c", "c", "x">>, name)

EmptySizeList == [standard |-> <<>>, dedicated |-> <<>>]

\* client.ServerType.List with Page 1: the first PerPage server types only.
ListFirstPage(serverTypes) ==
  SubSeq(serverTypes, 1, IF Len(serverTypes) < PerPage
                         THEN Len(serverTypes) ELSE PerPage)

\* One iteration of the loop over the listed sizes: the first matching case
\* of the switch appends the size; a size matching neither is dropped.
AddSize(sizeList, name) ==
  IF IsStandardSize(name)
  THEN [sizeList EXCEPT !.standard = Append(@, name)]
  ELSE IF IsDedicatedSize(name)
       THEN [sizeList EXCEPT !.dedicated = Append(@, name)]
       ELSE sizeList

\* A response: the error returned (or "none") and the size list.
Response(err, sizeList) == [err |-> err, sizes |-> sizeList]

\* HetznerSize: list one page, or return an empty list with the error;
\* then classify the listed sizes in order.
HetznerSize(serverTypes, listFails) ==
  IF listFails THEN Response("listSizes", EmptySizeList)
  ELSE Response("none", FoldLeft(AddSize, EmptySizeList,
                                 ListFirstPage(serverTypes)))

\* The checks of HetznerSizeWithClusterCredentialsEndpoint that return
\* early, in the order the code makes them.
Failures == <<"getCluster", "noHetznerSpec", "assertProvider", "credentials">>

\* The first of the failing checks, in code order.
FirstFailure(failing) ==
  Failures[CHOOSE i \in DOMAIN Failures :
             /\ Failures[i] \in failing
             /\ \A j \in 1..(i - 1) : Failures[j] \notin failing]

\* HetznerSizeWithClusterCredentialsEndpoint: the first failing check ends
\* the request with its error and no sizes; otherwise the result is
\* HetznerSize's. `failing` is the set of calls that would fail.
HetznerSizeWithClusterCredentialsEndpoint(failing, serverTypes) ==
  IF \E i \in DOMAIN Failures : Failures[i] \in failing
  THEN Response(FirstFailure(failing), EmptySizeList)
  ELSE HetznerSize(serverTypes, "listSizes" \in failing)
=============================================================================
