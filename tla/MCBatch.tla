------------------------------ MODULE MCBatch -------------------------------
(***************************************************************************)
(* Instances of Batch for TLC: one account, two runs of the command, and   *)
(* files that meet each case of the CLI.                                   *)
(***************************************************************************)
EXTENDS Batch, TLC

CONSTANTS m1, adm, acc1, r1, r2, r3

MCUsers == {m1, adm}
MCAdmins == {adm}
MCAccountIDs == {acc1}
MCOwner == acc1 :> m1
MCRefs == {r1, r2, r3}
MCInitBalance == acc1 :> 0
MCRuns == {1, 2}
MaxLines == 4
MCAttempts == (MCRuns \X (1..MaxLines))

Row(ref, kind, points, at) ==
    [ref |-> ref, account |-> acc1, kind |-> kind, points |-> points, at |-> at,
     wellFormed |-> TRUE]
Garbled == [Row(r1, "other", 0, 0) EXCEPT !.wellFormed = FALSE]
File(rows) == [header |-> TRUE, records |-> rows]

(* The spend stands before the earn that funds it, in the same second. *)
SpendFirst == File(<<Garbled, Row(r2, "spend", 2, 5), Row(r1, "earn", 2, 4)>>)
(* One ref twice, once without a time, and a row the server refuses. *)
RepeatedRef == File(<<Row(r1, "spend", 1, 0), Row(r3, "other", 1, 2), Row(r1, "earn", 1, 4)>>)
TooLong == File(<<Row(r1, "earn", 1, 4), Row(r1, "earn", 1, 4), Row(r1, "earn", 1, 4),
                  Row(r1, "earn", 1, 4)>>)

MCFiles ==
    { SpendFirst, RepeatedRef, TooLong, File(<<>>), [header |-> FALSE, records |-> <<Garbled>>] }

MCRequests ==
    UNION {{Element(u, f.records[i]) : i \in DOMAIN f.records} : u \in MCAdmins, f \in MCFiles}
=============================================================================
