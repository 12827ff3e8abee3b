------------------------------ MODULE MCWallet ------------------------------
(***************************************************************************)
(* Instances of Wallet for TLC: two members, one administrator, an account *)
(* each for the members, two refs.  The configurations choose the requests *)
(* and the failures.                                                       *)
(***************************************************************************)
EXTENDS Wallet, TLC

CONSTANTS m1, m2, adm, acc1, acc2, r1, r2

MCUsers == {m1, m2, adm}
MCAdmins == {adm}
MCAccountIDs == {acc1, acc2}
MCOwner == acc1 :> m1 @@ acc2 :> m2
MCRefs == {r1, r2}
MCInitAccounts == {acc1}
MCInitBalance == acc1 :> 2 @@ acc2 :> 0

Request(u, r, acc, kind, n) ==
    [user |-> u, ref |-> r, account |-> acc, kind |-> kind, points |-> n]

(* Contention: the same ref twice, two spends that together overdraw, an   *)
(* earn that overflows or funds a spend, another owner's ref and account,  *)
(* adjustments both ways, invalid requests.                                *)
ContentionRequests ==
    { Request(m1, r1, acc1, "spend", 2),
      Request(m1, r2, acc1, "spend", 1),
      Request(m1, r2, acc1, "earn", 2),
      Request(m2, r1, acc2, "earn", 1),
      Request(m2, r1, acc1, "spend", 1),
      Request(adm, r1, acc1, "earn", 0),
      Request(adm, r2, acc1, "adjust", -1) }

(* The same calls without the ones that never wait. *)
WaitingRequests ==
    { Request(m1, r1, acc1, "spend", 2),
      Request(m1, r2, acc1, "spend", 1),
      Request(adm, r2, acc1, "adjust", 1) }

(* No adjustment was ever made: balances start at zero. *)
MCZeroBalance == [acc \in MCAccountIDs |-> 0]
AdjustRequests == { Request(m1, r1, acc1, "earn", 1), Request(adm, r1, acc1, "adjust", 1) }

Symmetry == Permutations(Attempts)
=============================================================================
