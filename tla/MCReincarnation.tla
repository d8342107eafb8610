--------------------------- MODULE MCReincarnation ---------------------------
EXTENDS Reincarnation

CONSTANTS n1, n2, n3, n4, n5, n6

MCFive == <<n1, n2, n3, n4, n5>>
MCUnit == [i \in 1 .. 5 |-> [node |-> <<MCFive[i], 0>>, weight |-> 1]]

MCPlan == {[initial |-> MCUnit,
            steps |-> <<<<[op |-> "Join", node |-> <<n6, 0>>, position |-> 5]>>,
                        <<Inc(<<n6, 0>>)>>>>]}

=============================================================================
