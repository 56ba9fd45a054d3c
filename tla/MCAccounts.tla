----------------------------- MODULE MCAccounts -----------------------------
(***************************************************************************)
(* Small instances of Accounts: ann has an account and one browser signed  *)
(* in; the address of bea is free.                                         *)
(***************************************************************************)
EXTENDS Accounts, TLC

CONSTANTS ann, bea, first, second

MCRegistered == [a \in {ann, bea} |-> IF a = ann THEN first ELSE None]
MCOpened == [s \in 1 .. 4 |-> IF s = 1 THEN ann ELSE None]

Blank == [op |-> "read", by |-> None, at |-> None, link |-> None, old |-> None, new |-> None]
With(op, s) == [Blank EXCEPT !.op = op, !.by = s]
Change(s, old) == [Blank EXCEPT !.op = "change", !.by = s, !.old = old, !.new = second]
SignIn(s, old) == [Blank EXCEPT !.op = "login", !.by = s, !.at = ann, !.old = old]
Forgot(a) == [Blank EXCEPT !.op = "forgot", !.at = a]
Follow1(l, new) == [Blank EXCEPT !.op = "reset", !.link = l, !.new = new]
Join(a) == [Blank EXCEPT !.op = "register", !.at = a, !.new = second]

AllRequests ==
    {With("read", 1), With("logout", 1), With("revoke_all", 1), With("revoke_all", 2),
     Change(1, first), Change(1, second), SignIn(None, first), SignIn(1, first),
     Forgot(ann), Forgot(bea), Join(ann), Join(bea), Follow1(1, second)}
=============================================================================
