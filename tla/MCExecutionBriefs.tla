--------------------------- MODULE MCExecutionBriefs ---------------------------
EXTENDS ExecutionBriefs, TLC
CONSTANTS p1, p2, w1, w2, s1, s2, b1
Unrestricted == {[project |-> p, workspace |-> NoWorkspace] : p \in Projects}
Symmetric == {f @@ g @@ h : f \in Permutations(Sessions), g \in Permutations(Projects),
                            h \in Permutations(Workspaces)}
=============================================================================
