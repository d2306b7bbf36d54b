------------------------------ MODULE Topology ------------------------------
(***************************************************************************)
(* Communication policy of a group (group/topology.rs,                     *)
(* topology_router.rs): which worker may address which worker on which     *)
(* channel.  A policy is an ordered list of allowing edges and a default.  *)
(***************************************************************************)
EXTENDS Naturals, Sequences

CONSTANTS Everyone,     \* Endpoint::All
          NoPolicy      \* the group has no policy row

Matches(end, w) == end = Everyone \/ end = w
Covering(edge, from, to, channel) ==
  /\ edge.channels = {} \/ channel \in edge.channels
  /\ Matches(edge.from, from)
  /\ Matches(edge.to, to)

\* the decision and why: the position of the first edge that covers the pair
Evaluate(policy, from, to, channel) ==
  LET open == {i \in DOMAIN policy.edges :
                 Covering(policy.edges[i], from, to, channel)}
  IN  IF from = to THEN [allow |-> TRUE, edge |-> 0]
      ELSE IF open # {}
        THEN [allow |-> TRUE, edge |-> CHOOSE i \in open : \A j \in open : i <= j]
        ELSE [allow |-> policy.default, edge |-> 0]

\* a sender that is no worker of a group bypasses the policy; a group whose
\* policy cannot be read denies
MayReach(policy, insider, from, to, channel) ==
  ~insider \/ (policy # NoPolicy /\ Evaluate(policy, from, to, channel).allow)

\* a member can always be mentioned, anyone else only by policy
MayMention(policy, members, outside, w) ==
  w \in members \/ (policy # NoPolicy /\ Evaluate(policy, outside, w, "Mention").allow)
=============================================================================
