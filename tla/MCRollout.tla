----------------------------- MODULE MCRollout -----------------------------
(***************************************************************************)
(* Rollout from an adapter without YIPYAP_MODE, whose sessions follow the  *)
(* server's hint (as a ContainerSource runs it), to one pinned to poll.    *)
(* The adapter of a YipYapSource has a pinned mode (see SourceConfig): its *)
(* behaviours are those in which the old pod keeps to one of the two.      *)
(***************************************************************************)
EXTENDS Rollout

AutoThenPoll == [p \in 1..NumPods |-> IF p = NumPods THEN {"poll"} ELSE {"poll", "stream"}]
=============================================================================
