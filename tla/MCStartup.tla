----------------------------- MODULE MCStartup -----------------------------
(* Instances of Startup for TLC.                                           *)
EXTENDS Startup

\* Every installation; sqlite's file takes every statement, and whether the
\* start validates matters only where it comes to a check.
AllConfigs ==
    {c \in Config : /\ c.denied \in {{}, {"own"}}
                    /\ ~c.validate => c.backup /\ c.key
                    /\ ~c.pooled => c.denied = {} /\ ~c.canCreate /\ ~c.badDsn}

Plain == [backup |-> FALSE, key |-> TRUE, validate |-> TRUE, pooled |-> TRUE, badDsn |-> FALSE,
          denied |-> {}, canCreate |-> TRUE]

JustPrimary == {Plain}
=============================================================================
