----------------------------- MODULE MCSessions -----------------------------
(***************************************************************************)
(* Instances of Sessions for TLC: the system user, one email free to be    *)
(* registered, and calls that register, log in, log out and use tokens.    *)
(***************************************************************************)
EXTENDS Sessions, TLC

CONSTANTS root, sysmail, mail, syspw, pw

MCEmails == {sysmail, mail}
MCPasswords == {syspw, pw}

Public(op, email, password) ==
    [op |-> op, email |-> email, password |-> password, token |-> NoToken]
WithToken(op, t) ==
    [op |-> op, email |-> mail, password |-> pw, token |-> t]

(* Registrations that race for an email (once for the system user's, after *)
(* a wipe), logins that succeed and that do not, operator calls, logouts,  *)
(* and a call without a token.                                             *)
AllRequests ==
    { Public("register", mail, pw), Public("register", sysmail, pw),
      Public("login", mail, pw), Public("login", sysmail, syspw),
      Public("read", mail, pw) }
    \union { WithToken(op, t) : op \in {"operate", "logout"}, t \in Calls }

Symmetry == Permutations(Calls)

(* The system user only. *)
RootRequests ==
    { Public("login", sysmail, syspw) }
    \union { WithToken(op, t) : op \in {"read", "logout"}, t \in Calls }
=============================================================================
