---- MODULE MCPersistence ----
EXTENDS Persistence, TLC

MCRepoOf == [s \in Sessions |-> "r1"]
MCRepoStart == [r \in Repos |-> None]
MCStored == [s \in Sessions |-> IF s = "s1" THEN [mode |-> "active", lease |-> "s1", form |-> "reviewChild"] ELSE NoEntry]
MCLogsLeft == {<<>>, <<[key |-> "r1", mode |-> "active", at |-> 1]>>}
Symmetry == Permutations(Procs)
====
