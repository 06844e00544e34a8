-------------------------- MODULE MCTunnelGateway --------------------------
(* Instance of TunnelGateway for TLC.                                      *)
EXTENDS TunnelGateway, TLC

Symmetry == Permutations(Tunnels) \cup Permutations(Agents) \cup Permutations(Requests)
                \cup Permutations(Handlers)
=============================================================================
