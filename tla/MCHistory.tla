----------------------------- MODULE MCHistory ------------------------------
(***************************************************************************)
(* Instances of History for TLC: two members and an administrator; two     *)
(* refs recorded at any of the first ticks, two calls that record more     *)
(* while a walk goes on.  A second has four ticks: two binary digits.      *)
(***************************************************************************)
EXTENDS History, TLC

CONSTANTS m1, m2, adm, a1, a2

MCMembers == {m1, m2}
MCAdmins == {adm}
MCAttempts == {a1, a2}
MCRefs == {1, 2, 3}
MCLoaded == {1, 2}
MCLoadedOwner == [r \in MCLoaded |-> m1]

(* A new ref, by its owner or another one; a duplicate; an account that is *)
(* not found.                                                              *)
MCRequests ==
    { [ref |-> 3, owner |-> m1], [ref |-> 3, owner |-> m2], [ref |-> 2, owner |-> m1],
      [ref |-> 1, owner |-> NoOwner] }

Walk(u, size, cursor) == [user |-> u, size |-> size, cursor |-> cursor]

(* One row to a page, the default, a clamped size; a negative one, and a   *)
(* cursor that is none.                                                    *)
MCWalkRequests ==
    { Walk(m1, 1, NoCursor), Walk(adm, 1, NoCursor), Walk(adm, 0, NoCursor),
      Walk(m1, 5, NoCursor), Walk(adm, -1, NoCursor), Walk(adm, 1, BadCursor) }

Symmetry == Permutations(MCAttempts)
=============================================================================
