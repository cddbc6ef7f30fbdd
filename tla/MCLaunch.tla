------------------------------ MODULE MCLaunch ------------------------------
(* Small instances of Launch for TLC. *)
EXTENDS Launch

\* Two variables and two values, one of each not ASCII; the caller has both, the
\* dotenv file of its directory has it too, and the file of the other
\* directory has both, one of them twice.
MCParent == <<[key |-> "A", value |-> "1"], [key |-> "B", value |-> "2"]>>
MCDotenv == [p \in Place |->
               IF p = "work" THEN <<[key |-> "A", value |-> "1"], [key |-> "A", value |-> "2"],
                                    [key |-> "B", value |-> "1"]>>
               ELSE <<[key |-> "A", value |-> "2"]>>]
MCPath   == <<"bin1", "bin2">>

\* One argument of up to two characters, one of three quotes and backslashes,
\* or two of up to one that have to do with quoting.
MCArgument(chars, n) == UNION {[1..k -> chars] : k \in 0..n}
MCArgLists == [1..1 -> MCArgument(Char, 2) \cup [1..3 -> {Quote, Backslash}]]
              \cup [1..2 -> MCArgument({Space, Quote, Backslash}, 1)]

\* Two of the four extensions of Windows.
MCExtensions == [unix |-> <<"">>, windows |-> <<"", "exe">>]
=============================================================================
