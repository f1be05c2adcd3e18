----------------------------- MODULE MCLinkMcmq -----------------------------
\* Instances of LinkMcmq for model checking.
EXTENDS LinkMcmq

\* Reads around a write that rings a doorbell, as reset() issues them.
MCProgram == <<"read", "write", "read", "write">>
=============================================================================
