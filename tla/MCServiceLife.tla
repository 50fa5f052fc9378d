---------------------------- MODULE MCServiceLife ----------------------------
(* Three services one after the other, the third with the process id of the *)
(* first.                                                                   *)
EXTENDS ServiceLife

MCPid      == [i \in Instances |-> i % 2]
MCBuilds   == {<<<<"k", "x">>, <<"ro.k", "x">>>>, <<<<"k", "long">>>>}
MCRequests == {<<"ro.k", "y">>, <<"k", "y">>}
==============================================================================
