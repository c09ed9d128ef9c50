--------------------------- MODULE SourceRegistry ---------------------------
(***************************************************************************)
(* What `fedctl source add`, `source remove` and `apply` promise, with no  *)
(* statements, plans or catalogue in sight: a registry of sources by name. *)
(* An add or a remove takes effect at one instant between its request and  *)
(* its reply, or not at all; an apply adds those of its sources the        *)
(* registry lacks one by one.  "ok" is only the reply to a call that took  *)
(* effect.  An error says nothing of the effect: the caller has to look.   *)
(***************************************************************************)
CONSTANTS
  Clients, Names, Entries, None,
  Batches     \* what an apply may want, sets of pairs of a name and an entry

VARIABLES
  registry,     \* the entry of each attached source
  call          \* each client's current or last call

vars == <<registry, call>>

\* An add wants one entry and an apply several; a remove names one to be gone.
Calls == [state: {"idle", "pending", "done"},
          op: {"none", "add", "remove", "apply"},
          name: Names \cup {None},
          wants: SUBSET (Names \X Entries),
          reply: {"none", "ok", "SOURCE_EXISTS", "SOURCE_NOT_FOUND", "error"}]

NoCall == [state |-> "idle", op |-> "none", name |-> None, wants |-> {}, reply |-> "none"]

Init ==
  /\ registry = [n \in Names |-> None]
  /\ call = [c \in Clients |-> NoCall]

\* A call that is refused at once (the hub cannot be reached) is idle again
\* with an error.
Request(c, op, n, wants) ==
  /\ call[c].state = "idle"
  /\ \E outcome \in { [state |-> "pending", reply |-> "none"],
                      [state |-> "idle",    reply |-> "error"] } :
       call' = [call EXCEPT ![c] = [state |-> outcome.state, op |-> op, name |-> n,
                                    wants |-> wants, reply |-> outcome.reply]]
  /\ UNCHANGED registry

\* A source that is attached already is not changed, whatever is wanted of it.
Put(c) ==
  \E w \in call[c].wants :
    registry[w[1]] = None /\ registry' = [registry EXCEPT ![w[1]] = w[2]]

Take(c) ==
  LET n == call[c].name IN
    registry[n] # None /\ registry' = [registry EXCEPT ![n] = None]

Effect(c) ==
  /\ call[c].state = "pending"
  /\ \/ call[c].op = "add"    /\ Put(c)
     \/ call[c].op = "remove" /\ Take(c)

TakeEffect(c) == Effect(c) /\ call' = [call EXCEPT ![c].state = "done"]

\* The effect of a call whose acknowledgement is lost: it ends with an error.
TakeEffectUnheard(c) ==
  Effect(c) /\ call' = [call EXCEPT ![c].state = "idle", ![c].reply = "error"]

\* An apply at work.
Progress(c) ==
  /\ call[c].state = "pending" /\ call[c].op = "apply"
  /\ Put(c)
  /\ UNCHANGED call

Succeeded(c) ==
  \/ call[c].state = "done"
  \/ call[c].op = "apply" /\ \A w \in call[c].wants : registry[w[1]] # None

Reply(c, r) ==
  /\ call[c].state # "idle"
  /\ \/ r = "ok" /\ Succeeded(c)
     \/ /\ r = "SOURCE_EXISTS"
        /\ call[c].op = "add" /\ call[c].state = "pending"
        /\ \E w \in call[c].wants : registry[w[1]] # None
     \/ /\ r = "SOURCE_NOT_FOUND"
        /\ call[c].op = "remove" /\ call[c].state = "pending" /\ registry[call[c].name] = None
     \/ r = "error"
  /\ call' = [call EXCEPT ![c].state = "idle", ![c].reply = r]
  /\ UNCHANGED registry

Next ==
  \E c \in Clients :
    \/ \E n \in Names, e \in Entries : Request(c, "add", None, {<<n, e>>})
    \/ \E n \in Names : Request(c, "remove", n, {})
    \/ \E wants \in Batches : Request(c, "apply", None, wants)
    \/ TakeEffect(c)
    \/ TakeEffectUnheard(c)
    \/ Progress(c)
    \/ \E r \in {"ok", "SOURCE_EXISTS", "SOURCE_NOT_FOUND", "error"} : Reply(c, r)

Spec == Init /\ [][Next]_vars
=============================================================================
