---------------------------- MODULE ThreadHistory ----------------------------
(***************************************************************************)
(* What the app promises about the user's chat history, whoever writes to  *)
(* it: a thread begins once and never comes back after it has gone; it     *)
(* keeps its model and its source; it goes either by the user's delete,    *)
(* with its messages, or as a spare empty draft of a model that keeps a    *)
(* thread; messages go in no other way, and a user message is only ever    *)
(* said in a thread that is there.  It knows nothing of locks, sessions,   *)
(* screens, requests or of the order in which they come.                   *)
(***************************************************************************)
CONSTANTS Ids,       \* conversation ids
          Models,
          Messages   \* messages, with the fields conv and role

VARIABLES fresh,     \* ids under which a thread may still begin
          threads,   \* the threads there are: id -> model and source
          said       \* the stored messages

historyVars == <<fresh, threads, said>>

Thread == [model : Models, source : {"ui", "api"}]

Without(dead) == [c \in DOMAIN threads \ dead |-> threads[c]]

Spare(m) == {c \in DOMAIN threads : /\ threads[c].model = m
                                    /\ threads[c].source = "ui"
                                    /\ \A x \in said : x.conv # c}

Init ==
    /\ fresh = Ids
    /\ threads = [c \in {} |-> {}]
    /\ said = {}
-----------------------------------------------------------------------------
Begin(c, t) ==
    /\ c \in fresh
    /\ fresh' = fresh \ {c}
    /\ threads' = [d \in DOMAIN threads \cup {c} |-> IF d = c THEN t ELSE threads[d]]
    /\ UNCHANGED said

(* Whoever drew the ids did not get to begin their threads.                *)
Forfeit ==
    /\ \E lost \in SUBSET fresh : fresh' = fresh \ lost
    /\ UNCHANGED <<threads, said>>

(* The answer to a question may outlive the thread it was asked in.        *)
Say(x) ==
    /\ x.role = "user" => x.conv \in DOMAIN threads
    /\ said' = said \cup {x}
    /\ UNCHANGED <<fresh, threads>>

Discard(m, keep) ==
    /\ keep \in DOMAIN threads
    /\ threads[keep].model = m
    /\ threads' = Without(Spare(m) \ {keep})
    /\ UNCHANGED <<fresh, said>>

Erase(c) ==
    /\ c \in DOMAIN threads
    /\ threads' = Without({c})
    /\ said' = {x \in said : x.conv # c}
    /\ UNCHANGED fresh
-----------------------------------------------------------------------------
Next ==
    \/ \E c \in Ids, t \in Thread : Begin(c, t)
    \/ Forfeit
    \/ \E x \in Messages : Say(x)
    \/ \E m \in Models, keep \in Ids : Discard(m, keep)
    \/ \E c \in Ids : Erase(c)

Spec == Init /\ [][Next]_historyVars
=============================================================================
