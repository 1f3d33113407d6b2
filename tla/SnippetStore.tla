----------------------------- MODULE SnippetStore -----------------------------
(***************************************************************************)
(* What rename_snippets.py promises about the snippet files themselves,   *)
(* whatever it does to the markdown and the manifest: while it runs, a    *)
(* snippet only ever changes its name, to a name no snippet has (git mv   *)
(* without -f); while it is stopped, nothing changes; every start of it  *)
(* stops.  It may be started again over what an earlier run left.         *)
(***************************************************************************)
EXTENDS Functions

\* The names a snippet can have.
CONSTANT Names

VARIABLES
    store,    \* snippet name -> content
    active    \* the script is still running

Init == active = TRUE /\ IsInjective(store)

\* git mv old new: the content moves to a free name.
Move(old, new) ==
    /\ active
    /\ old \in DOMAIN store /\ new \notin DOMAIN store
    /\ store' = [n \in (DOMAIN store \ {old}) \cup {new} |->
                   IF n = new THEN store[old] ELSE store[n]]
    /\ UNCHANGED active

\* The script ends, completed or on an exception.
Stop ==
    /\ active
    /\ active' = FALSE
    /\ UNCHANGED store

\* The script is started again over the snippets as they are.
Start ==
    /\ ~active
    /\ active' = TRUE
    /\ UNCHANGED store

Next == (\E old \in DOMAIN store, new \in Names : Move(old, new)) \/ Stop \/ Start

Spec == Init /\ [][Next]_<<store, active>> /\ WF_<<store, active>>(Stop)
====
