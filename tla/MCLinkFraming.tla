---------------------------- MODULE MCLinkFraming ----------------------------
\* Instances of LinkFraming for model checking.
EXTENDS LinkFraming

MCMessages == { <<0, DEV_READY>>,
                <<0, IRQ, 0, 1>>,
                <<0, READ_COMP, 0, 0, 0, 9, 7>>,
                <<0, RESULT, 0, 2, 8, 8>> }

\* Every sequence of up to five messages.
MCStreams == UNION {[1 .. k -> MCMessages] : k \in 0 .. 5}
=============================================================================
