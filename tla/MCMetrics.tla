----------------------------- MODULE MCMetrics -----------------------------
\* Two connections, one tenant that comes and goes and an unknown user;
\* Produce, and a key that Kafka does not have.
EXTENDS Metrics, TLC

CONSTANTS c1, c2

MCConn == {c1, c2}
\* The connections are alike.
Alike == Permutations(MCConn)
MCTenantID == {"t1"}
MCMech == {"PLAIN", "SCRAM-SHA-256", "GSSAPI"}
MCKey == {"Produce", "9999"}
=============================================================================
