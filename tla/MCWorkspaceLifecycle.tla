------------------------ MODULE MCWorkspaceLifecycle ------------------------
(* An instance of the workspace for TLC: an elastic and a stable project, and *)
(* resources of two rank groups, some of them short of a capability.          *)
EXTENDS WorkspaceLifecycle

MCProjects == {[mode |-> "elastic_delta", backend |-> "volunteer_peft", peft |-> TRUE],
               [mode |-> "stable_sharded", backend |-> "accelerate_fsdp2", peft |-> FALSE]}
Gpu(n, f, g, caps) ==
    [type |-> "cuda", devices |-> n, free |-> f, stable |-> TRUE, group |-> g, caps |-> caps]
MCOffers ==
    {Gpu(n, f, g, DiscoveredCaps("cuda") \ cut) :
        n \in {1, 2}, f \in {0, 1}, g \in {1, 2}, cut \in {{}, {"stable_sharded"}}}
    \cup {[Gpu(2, 1, 0, DiscoveredCaps("cuda")) EXCEPT !.stable = FALSE],
          [Gpu(1, 0, 1, DiscoveredCaps("cpu")) EXCEPT !.type = "cpu"]}
=============================================================================
