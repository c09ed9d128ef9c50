-------------------------- MODULE MCFederationHub --------------------------
(***************************************************************************)
(* Instances of FederationHub for TLC: faults, requests and files.          *)
(***************************************************************************)
EXTENDS FederationHub

CONSTANTS n1, n2, h1, h2, k1

\* A statement can be refused and its answer can be lost, a query just fails,
\* a process is killed.
AnyFault ==
  ({"attach", "rollback", "detach"} \X {"refused", "unanswered"})
    \cup {<<"query", "refused">>, <<"process", "killed">>}
DetachRefused == {<<"detach", "refused">>}
AttachRefused == {<<"attach", "refused">>}

Source(n, t, h) ==
  [name |-> n, type |-> t, target |-> h, secret |-> IF HasCollection(t) THEN k1 ELSE None]

\* The first name is given to databases and to a file, the second to a server only.
TwoNames == { Source(n1, "postgres", h1), Source(n1, "postgres", h2), Source(n1, "sqlite", h1),
              Source(n2, "mysql", h1) }
Edits == { << Source(n1, "sqlite", h1), Source(n2, "mysql", h2) >> }

OneName == { Source(n1, t, h1) : t \in {"postgres", "sqlite"} }
OneFile == { << Source(n1, "postgres", h1) >> }
NoFiles == {}
=============================================================================
