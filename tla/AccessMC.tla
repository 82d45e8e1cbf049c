------------------------------ MODULE AccessMC ------------------------------
EXTENDS Access, TLC
CONSTANTS cook, chef, boss, spare, ann, bob, east, p1, p2, p3, p4, a1, a2, a3

MCNeeds == [h \in Handlers |-> IF h = "serve" THEN "view" ELSE "all"]
MCCovers == [p \in {"view", "all"} |-> IF p = "all" THEN {"all", "view"} ELSE {p}]

\* Ann is a cook of one branch, Bob the boss of all.  The parents: a line of
\* three, a circle of two below the boss, and a circle of all.
Parents ==
  {cook :> chef @@ chef :> boss @@ boss :> None,
   cook :> chef @@ chef :> cook @@ boss :> None, cook :> chef @@ chef :> boss @@ boss :> cook}
Row(r, p, deny, s) == [role |-> r, perm |-> p, deny |-> deny, scope |-> s, live |-> TRUE]
MCStarts ==
  {[role |-> [r \in Roles |-> IF r = spare THEN [state |-> "ABSENT", parent |-> None]
                              ELSE [state |-> "LIVE", parent |-> parents[r]]],
    row |-> p1 :> Row(boss, "all", FALSE, 2) @@ p2 :> Row(cook, "view", FALSE, s)
            @@ p3 :> (IF s = 1 THEN Row(chef, "all", FALSE, 2) ELSE Row(cook, "view", TRUE, 2))
            @@ p4 :> [role |-> None, perm |-> None, deny |-> FALSE, scope |-> 0, live |-> FALSE],
    assigned |-> a1 :> [user |-> ann, role |-> cook, branch |-> east, live |-> TRUE]
                 @@ a2 :> [user |-> bob, role |-> boss, branch |-> None, live |-> TRUE]
                 @@ a3 :> [user |-> None, role |-> None, branch |-> None, live |-> FALSE]] :
   parents \in Parents, s \in {1, 2}}
MCSymmetry == Permutations(Requests)
=============================================================================
