--------------------------- MODULE MCAuthSessions ---------------------------
(* TLC instances of AuthSessions: all ids are interchangeable model values, and a   *)
(* behaviour draws fewer of them than there are, in any mix.                        *)
EXTENDS AuthSessions, TLC

CONSTANT MaxDrawn  \* bound: the ids drawn in one behaviour

BoundedSpec == Init /\ [][Next /\ Cardinality(minted') <= MaxDrawn]_vars

IdSymmetry == Permutations(User) \cup Permutations(Device)
                \cup Permutations(Family) \cup Permutations(Token)
                \cup Permutations(Access) \cup Permutations(Request)
=============================================================================
