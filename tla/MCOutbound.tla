----------------------------- MODULE MCOutbound -----------------------------
EXTENDS Outbound

\* All links get their mail the same way.
Alike == {[l \in Links |-> m] : m \in {"box", "attach", "flow"}}
=============================================================================
