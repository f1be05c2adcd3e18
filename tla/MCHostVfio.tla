----------------------------- MODULE MCHostVfio -----------------------------
\* Instances of HostVfio for model checking.
EXTENDS HostVfio

\* The capacity of a chip is past 32 bits (U32): the threads are told of 8
\* sectors where there are 272.  The namespaces have 32 and 8 of them.
MCFlash == [dies |-> 17, planes |-> 1, blocks |-> 1, pages |-> 64,
            page_capacity |-> 128]
MCNamespaces == << [channels |-> 4, chips |-> 1], [channels |-> 1, chips |-> 1] >>

\* Three flows of aligned requests, of two blocks, of one and of one and a half,
\* and one as the defaults have it.
MCFlow(ns, size, alignment) ==
  [nsid |-> ns, size |-> size, alignment |-> alignment]
MCFlows ==
  << MCFlow(1, 16, 16), MCFlow(2, 8, 8), MCFlow(2, 8, 0), MCFlow(1, 12, 16) >>

\* A device with enough vectors at its second index, and one without.
MCIrqCounts == { <<1, 4, 1>>, <<1, 3>> }
=============================================================================
