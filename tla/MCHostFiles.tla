----------------------------- MODULE MCHostFiles -----------------------------
(* HostFiles with two pairs of agent and action, and packages for two pets:  *)
(* two sound ones of the first, one that is not, and one of the second.      *)
EXTENDS HostFiles

CONSTANTS cat, dog

MCPairs == <<"claude_code", "opencode">>

MCPackages ==
    {[pet |-> cat, edition |-> e, sound |-> e # 3] : e \in 1 .. 3}
    \cup {[pet |-> dog, edition |-> 1, sound |-> TRUE]}

=============================================================================
