------------------------------ MODULE MCUsers ------------------------------
(* Users on small sets of ids, forms, accounts and configurations. *)
EXTENDS Users, TLC

CONSTANTS ann, root, annMail, rootMail, p1, p2

Names(email, username) == [email |-> email, username |-> username,
                           password |-> NoPassword, provider |-> NoProvider]

(* A user of his own, one with the admin's e-mail, one who leaves his      *)
(* e-mail empty and takes the admin's name, and one who takes somebody     *)
(* else's e-mail for a name.                                               *)
MCForms ==
  { [Names(annMail, ann) EXCEPT !.password = p1],
    [Names(rootMail, ann) EXCEPT !.password = p2],
    [Names(Empty, root) EXCEPT !.password = p1],
    [Names(rootMail, annMail) EXCEPT !.password = p1] }

(* A GitHub user without an e-mail, and with the admin's name; a Google    *)
(* user, whose name is his e-mail.                                         *)
MCAccounts ==
  { [Names(Empty, root) EXCEPT !.provider = "github"],
    [Names(annMail, annMail) EXCEPT !.provider = "google"] }

(* An admin, the same with another name, and one without an e-mail. *)
MCConfigs ==
  { [Names(rootMail, root) EXCEPT !.password = p1],
    [Names(rootMail, ann) EXCEPT !.password = p2],
    [Names(Empty, root) EXCEPT !.password = p2] }

(* Ids and slots are only ever compared. *)
Symmetry == Permutations(Ids) \cup Permutations(Requests)
=============================================================================
