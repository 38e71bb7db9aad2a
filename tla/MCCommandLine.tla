--------------------------- MODULE MCCommandLine ---------------------------
(* Numbers on both sides of every width, and the ways a lane can be wrong. *)
EXTENDS CommandLine

MCNumbers == {-1, 0, 1, W32 - 1, W32, W32 + 1, W64}

Good(commas) == [commas |-> commas, lastEmpty |-> FALSE, name |-> "nic",
                 port |-> 1, tls |-> "tcp", weight |-> W32 + 1]
Another(commas) == [Good(commas) EXCEPT !.port = 2, !.weight = 3]

MCLaneTexts ==
    LET goods == {Good(4), Good(5)}
    IN  goods \cup {Another(4), Another(5)}
        \cup {[g EXCEPT !.lastEmpty = TRUE] : g \in goods}
        \cup {[g EXCEPT !.name = ""] : g \in goods}
        \cup {[g EXCEPT !.tls = ""] : g \in goods}
        \cup {[g EXCEPT !.port = p] : g \in goods, p \in {-1, 0, W64}}
        \cup {[g EXCEPT !.weight = w] : g \in goods, w \in {0, W32, W64}}

MCStrings == [source |-> {"file", "zero", "other"}, input |-> {"", "path"},
              output |-> {"", "path"}, verify |-> {"none", "file", "other"},
              engine |-> {"tag", "rma", "other"}]
=============================================================================
