----------------------------- MODULE MCConsole -----------------------------
(* Values for model checking Console.                                      *)
EXTENDS Console, TLC

CONSTANTS u1, u2, m1, m2

OneFile == {{}} \cup {{f} : f \in Files}

UpTo(n, ks) == [k \in Kinds |-> IF k \in ks THEN n[k] ELSE 0]

AtMost == [bill |-> 2, recipient |-> 2, contract |-> 1, customer |-> 1, signingEntity |-> 2]

(* One user with one token in one month, unless a scene says otherwise.      *)
Scene(page, expiry, forms, views, rows) ==
    [users |-> {u1}, rights |-> {TRUE}, tokens |-> 1, months |-> {m1}, page |-> page,
     expiry |-> expiry, forms |-> forms, views |-> views, rows |-> UpTo(AtMost, rows)]

(* Two users at one page, who also change the month; status changes of bills; *)
(* a form that makes and edits rows and uploads afterwards; a form that       *)
(* chooses rows of two kinds; the attachments of two bills.                   *)
FiveScenes ==
    {[Scene(1, TRUE, {}, {}, {}) EXCEPT
        !.users = {u1, u2}, !.rights = BOOLEAN, !.tokens = 2, !.months = {m1, m2},
        !.rows["bill"] = 1],
     Scene(2, FALSE, {"billStatus"}, {}, {"bill"}),
     Scene(2, TRUE, {"recipient"}, {}, {"recipient"}),
     Scene(2, FALSE, {"contract"}, {}, {"contract", "customer", "signingEntity"}),
     Scene(2, TRUE, {}, {"bill"}, {"bill"})}

ConsoleSymmetry == Permutations(Users) \cup Permutations(Tokens) \cup Permutations(Tasks)
=============================================================================
