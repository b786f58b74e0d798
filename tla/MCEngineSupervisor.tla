------------------------- MODULE MCEngineSupervisor -------------------------
(* Two descendants: one that stays in the group without the pipes, and one *)
(* that leaves it with them.  Two commits: one between listing and         *)
(* fetching, and one after.                                                *)
EXTENDS EngineSupervisor
=============================================================================
