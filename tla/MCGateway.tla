----------------------------- MODULE MCGateway ------------------------------
(***************************************************************************)
(* Instances of Gateway for TLC: two servers; logins from one address and  *)
(* a registration from another one; calls of a member and of an            *)
(* administrator, one that the member may not make; a missing and a bad    *)
(* token, an unknown method, a body that cannot be read.                   *)
(***************************************************************************)
EXTENDS Gateway, TLC

CONSTANTS s1, s2, q1, q2, q3

MCServers == {s1, s2}
MCRequests == {q1, q2, q3}
MCTwoRequests == {q1, q2}

Offer(method, ip, token) == [method |-> method, ip |-> ip, token |-> token]
Member == [user |-> "mia", role |-> "member"]
Admin == [user |-> "ada", role |-> "admin"]

Metered ==
    { Offer("Login", "ip1", NoToken), Offer("Register", "ip2", NoToken),
      Offer("EarnPoints", "ip1", Member), Offer("UpdateAccountBalance", "ip1", Admin) }

Refused ==
    { Offer("UpdateAccountBalance", "ip1", Member), Offer("Logout", "ip1", NoToken),
      Offer("Logout", "ip1", BadToken), Offer("Unknown", "ip1", Admin),
      Offer(NoMethod, "ip1", NoToken) }

MCOffers == Metered \union Refused
MCBusyOffers ==
    { Offer("Login", "ip1", NoToken), Offer("Login", "ip2", NoToken),
      Offer("EarnPoints", "ip1", Member), Offer("EarnPoints", "ip1", Admin),
      Offer("UpdateAccountBalance", "ip1", Member) }

Symmetry == Permutations(MCRequests) \union Permutations(MCServers)
=============================================================================
