------------------------------- MODULE Names -------------------------------
(***************************************************************************)
(* Tenant-space and cluster-space names (package rewrite, rewrite.go).     *)
(*                                                                         *)
(* A name -- a topic, a consumer group, a transactional id -- is a finite  *)
(* sequence of characters; what a character is does not matter.  A tenant  *)
(* uses short names; the shared cluster stores prefix \o name.             *)
(***************************************************************************)
EXTENDS Naturals, Sequences

\* strings.HasPrefix
HasPrefix(name, prefix) ==
    Len(prefix) <= Len(name) /\ SubSeq(name, 1, Len(prefix)) = prefix

\* strings.TrimPrefix: drops one leading occurrence of prefix, if there is one.
TrimPrefix(name, prefix) ==
    IF HasPrefix(name, prefix) THEN SubSeq(name, Len(prefix) + 1, Len(name))
                              ELSE name

\* Tenant space to cluster space.  An empty name is left empty.
PrefixIn(prefix, name) ==
    IF prefix = << >> \/ name = << >> THEN name ELSE prefix \o name

\* Cluster space to tenant space.
StripOut(prefix, name) ==
    IF prefix = << >> THEN name ELSE TrimPrefix(name, prefix)

\* Whether a response entry is part of the tenant's slice of the cluster.
BelongsToTenant(prefix, name) == prefix = << >> \/ HasPrefix(name, prefix)

-----------------------------------------------------------------------------
\* Neither prefix is an initial segment of the other.
Incomparable(p, q) == ~HasPrefix(q, p) /\ ~HasPrefix(p, q)
=============================================================================
