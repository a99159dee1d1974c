------------------------------ MODULE MCRouter ------------------------------
(* Instances of Router for TLC: the O-chain and one chain in a subnet. *)
EXTENDS Router, TLC

CONSTANTS me, other, o, x, primary, subnet

MCSubnetID == (o :> primary) @@ (x :> subnet)
Network(sybil, only, mine, theirs) ==
    [sybilProtectionEnabled |-> sybil, validatorOnly |-> only, AllowedNodes |-> {},
     tracked |-> (me :> mine) @@ (other :> theirs)]
MCNetworks == {Network(TRUE, {}, {subnet}, {subnet}), Network(TRUE, {subnet}, {subnet}, {}),
               Network(FALSE, {}, {subnet}, {})}
MCRequests == {[node |-> other, chain |-> o, op |-> "frontier"], [node |-> other, chain |-> x, op |-> "query"]}
=============================================================================
