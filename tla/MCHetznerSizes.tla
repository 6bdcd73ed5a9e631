--------------------------- MODULE MCHetznerSizes ---------------------------
(***************************************************************************)
(* Checks the Hetzner size handler on every catalogue of up to three       *)
(* server types drawn from a few names (two standard, one dedicated, one  *)
(* shared "cpx" type that matches neither, and a one-letter name shorter   *)
(* than both prefixes) and every combination of failing calls.            *)
(***************************************************************************)
EXTENDS HetznerSizes

LOCAL INSTANCE SequencesExt

\* cx11, cx21, ccx11, cpx11 and "c", abstracted to their leading letters.
Names == {<<"c", "x", "1">>, <<"c", "x", "2">>, <<"c", "c", "x">>,
          <<"c", "p", "x">>, <<"c">>}

\* Longest catalogue the provider returns; one more than a page.
MaxServerTypes == PerPage + 1

VARIABLES
  serverTypes,   \* the provider's server types, in the order it lists them
  failing        \* the calls of the request that fail

vars == <<serverTypes, failing>>

Init ==
  /\ serverTypes \in BoundedSeq(Names, MaxServerTypes)
  /\ failing \in SUBSET ({Failures[i] : i \in DOMAIN Failures} \cup {"listSizes"})

\* The handler is a function of its inputs: they do not move.
Next == UNCHANGED vars

Spec == Init /\ [][Next]_vars

Result == HetznerSizeWithClusterCredentialsEndpoint(failing, serverTypes)

\* Reference: the server types of the first page, in listed order.
FirstPage ==
  [i \in 1..(IF Len(serverTypes) < PerPage THEN Len(serverTypes) ELSE PerPage)
     |-> serverTypes[i]]

\* When every call succeeds, the standard list is exactly the listed types
\* whose name begins with "cx" and the dedicated list exactly those whose
\* name begins with "ccx", each in the provider's order: the switch in
\* HetznerSize's loop neither reorders, duplicates nor misfiles a size.
SizesClassifiedByPrefix ==
  failing = {} =>
    Result = [err |-> "none",
              sizes |-> [standard |->
                           SelectSeq(FirstPage, LAMBDA n :
                             Len(n) >= 2 /\ n[1] = "c" /\ n[2] = "x"),
                         dedicated |->
                           SelectSeq(FirstPage, LAMBDA n :
                             Len(n) >= 3 /\ n[1] = "c" /\ n[2] = "c"
                                         /\ n[3] = "x")]]

=============================================================================
