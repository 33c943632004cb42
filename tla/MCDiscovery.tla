------------------------------ MODULE MCDiscovery ------------------------------
EXTENDS Discovery, TLC

\* A tree with a circle of branches (a, b), one that a root closes (a, b, f), a
\* root that leads to itself (e), a record that is within reach at once (r2) and
\* one of a peer that does not help (r1).
MCEntryType ==
    "d" :> "root" @@ "a" :> "branch" @@ "b" :> "branch" @@ "r1" :> "record"
    @@ "r2" :> "record" @@ "x" :> "other" @@ "e" :> "root" @@ "f" :> "root"
MCChildren ==
    "d" :> {"a"} @@ "a" :> {"b", "a", "r2"} @@ "b" :> {"r1", "a", "x", "e", "f"}
    @@ "r1" :> {} @@ "r2" :> {} @@ "x" :> {} @@ "e" :> {"e"} @@ "f" :> {"a"}
MCNodeOf == [s \in Subdomains |-> IF s = "r1" THEN 1 ELSE 2]
MCCapabilities == 1 :> {"relay"} @@ 2 :> {"store", "relay"}
MCWanted == [c \in {"relay", "store", "filter", "lightPush"} |->
               IF c = "store" THEN 1 ELSE 0]

MCRecords == {[peer |-> 1, addresses |-> 1, shards |-> 0],
              [peer |-> 1, addresses |-> 2, shards |-> 2]}
=============================================================================
