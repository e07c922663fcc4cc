-------------------------- MODULE MCQueryInsights --------------------------
EXTENDS QueryInsights, RegressionScenarios

\* The labelled scenarios are detected without a miss (README.md:108).
ASSUME EvaluationIsPerfect == Perfect

PlainText == [operator |-> FALSE, where |-> TRUE, shape |-> TRUE, vector |-> FALSE]
VectorText == [operator |-> TRUE, where |-> FALSE, shape |-> FALSE, vector |-> FALSE]
MCTexts == {PlainText, VectorText}

Node(type, act, est, cost, parent) ==
    [type |-> type, act |-> act, est |-> est, cost |-> cost,
     temp |-> 0, sort |-> 0, batches |-> 0, parent |-> parent]

\* A fast plan on an index that was to return no row; a slow one on the table,
\* with a row estimate far off and a spilling sort; a nested loop, explained but
\* not run, whose inner side is on the table; a capture whose EXPLAIN failed.
OnAnIndex == [metric |-> [calls |-> 5, mean |-> 10, rows |-> 10, temp |-> 0],
              tree |-> <<Node("Index Scan", 30, 0, 10, 0)>>]
OnTheTable == [metric |-> [calls |-> 9, mean |-> 40, rows |-> 2000, temp |-> 1500],
               tree |-> <<[Node("Sort", 2000, 50, 60, 0) EXCEPT !.sort = 2048],
                          Node("Seq Scan", 2000, 50, 50, 1)>>]
Joined == [metric |-> [calls |-> 10, mean |-> 80, rows |-> 10, temp |-> 0],
           tree |-> <<Node("Nested Loop", Unknown, 10, 90, 0),
                      Node("Index Scan", Unknown, 10, 10, 1),
                      Node("Seq Scan", Unknown, 20, 20, 1)>>]
Failed == [metric |-> [calls |-> 12, mean |-> 85, rows |-> 2000, temp |-> 0], tree |-> NoPlan]
MCCaptures == {OnAnIndex, OnTheTable, Joined, Failed}
=============================================================================
