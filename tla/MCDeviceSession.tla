--------------------------- MODULE MCDeviceSession ---------------------------
(***************************************************************************)
(* Model checking of DeviceSession: the symmetries of its model values,    *)
(* and which calls run beside each other. Two grants, devices or calls are *)
(* interchangeable in the specification, in the sets of offers below and   *)
(* in every safety property; the runs of liveness use no symmetry.         *)
(***************************************************************************)
EXTENDS DeviceSession, TLC

Symmetry == Permutations(Grants) \union Permutations(Devices) \union Permutations(Calls)

Kinds == {"device_info", "cluster_status", "setup_cluster", "logout"}

\* Every call may be of any kind.
AnyCalls == {[c \in Calls |-> Kinds]}

\* Calls of different kinds beside each other, each made again and again, or
\* logouts beside each other, since the button for them stays clickable.
UnlikeCalls ==
    {[c \in Calls |-> {kind[c]}] : kind \in
        {k \in [Calls -> Kinds] : \A b, c \in Calls : k[b] = k[c] => b = c \/ k[b] = "logout"}}

\* Defaults saved and logouts, the calls that write what the heartbeat reads.
WritingCalls == {[c \in Calls |-> {"cluster_status", "logout"}]}
=============================================================================
