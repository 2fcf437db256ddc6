------------------------- MODULE MCOutlineGroupSync -------------------------
(***************************************************************************)
(* Two LDAP groups, one person, and an Outline that holds, at first, one   *)
(* of: nothing; a local group; a group this sync owns, under an old name;  *)
(* one owned by another source; one owned by an external provider.         *)
(***************************************************************************)
EXTENDS OutlineGroupSync
CONSTANTS g1, g2, A, B, u1, o1, o2, o3, o4, o5

MCPks   == {g1, g2}
MCNames == {A, B}
MCUsers == {u1}
MCIds   == {o1, o2, o3, o4, o5}

MCGroup(n, e, p, m) == [name |-> n, ext |-> e, prov |-> p, members |-> m]

MCStarts ==
    {<<d, [o \in MCIds |-> IF o = o1 THEN g ELSE Absent]>> :
        d \in {[p \in MCPks |-> IF p = g1 THEN [name |-> A, members |-> {u1}] ELSE Gone]},
        g \in {MCGroup(A, Local, FALSE, {u1}), MCGroup(B, g1, FALSE, {u1}),
               MCGroup(B, g2, FALSE, {u1}), MCGroup(A, Other, FALSE, {}),
               MCGroup(A, Local, TRUE, {})}}
=============================================================================
