------------------------- MODULE MCProviderRouting -------------------------
(* The providers build_provider_routing_service registers: the local one    *)
(* with a small context and two remote ones.                                     *)
EXTENDS ProviderRouting

MCProfile ==
    << [trust_level |-> "LOCAL", capabilities |-> {"chat", "tools"},
        context_limit |-> 8],
       [trust_level |-> "TRUSTED_REMOTE",
        capabilities |-> {"chat", "tools", "vision"}, context_limit |-> 128],
       [trust_level |-> "TRUSTED_REMOTE", capabilities |-> {"chat", "tools"},
        context_limit |-> 128] >>

Req(caps, size, local, attempts) ==
    [required_capabilities |-> caps, context_size_estimate |-> size,
     require_local_only |-> local, max_attempts |-> attempts]

\* The default, a local-only service, one that outgrows the local context, and
\* one with a budget of two attempts.
MCRequirements ==
    {Req({"chat"}, 0, FALSE, 0), Req({"chat"}, 0, TRUE, 0),
     Req({"chat"}, 9, FALSE, 0), Req({"chat"}, 0, FALSE, 2)}

\* No preference, the last provider, both remote ones.
MCPreferences == {{}, {3}, {2, 3}}
=============================================================================
