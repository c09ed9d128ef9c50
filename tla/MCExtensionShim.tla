--------------------------- MODULE MCExtensionShim ---------------------------
(***************************************************************************)
(* Instances of ExtensionShim for TLC.                                     *)
(***************************************************************************)
EXTENDS ExtensionShim

CONSTANTS n1, h1, h2, k1

NoFaults == {}
\* A CREATE is refused, a process is killed.
AnyOfTwo == {<<"attach", "refused">>, <<"process", "killed">>}

Source(t, h) ==
  [name |-> n1, type |-> t, target |-> h, secret |-> IF HasCollection(t) THEN k1 ELSE None]

SomeSources == { Source("postgres", h1), Source("sqlite", h2) }
NoFiles == {}
=============================================================================
