----------------------------- MODULE VersionShelf -----------------------------
(***************************************************************************)
(* What the catalog promises of the versions of an agent or a workflow,    *)
(* without requests or rows: they form a numbered sequence that only grows *)
(* at its end, a draft may be rewritten and published, and what is         *)
(* published stays as it is.                                               *)
(***************************************************************************)
EXTENDS Naturals, Sequences

CONSTANTS Item, Content

VARIABLE shelf     \* the versions of each item in order of their numbers

Init == shelf = [i \in Item |-> <<>>]

AddDraft(i, content) ==
    shelf' = [shelf EXCEPT ![i] = Append(@, [status |-> "draft", content |-> content])]

Rewrite(i, n, content) ==
    /\ shelf[i][n].status = "draft"
    /\ shelf' = [shelf EXCEPT ![i][n].content = content]

Publish(i, n) ==
    /\ shelf[i][n].status = "draft"
    /\ shelf' = [shelf EXCEPT ![i][n].status = "published"]

(* Rewriting a draft as it is changes no shelf.                            *)
Next == \E i \in Item :
           /\ shelf'[i] # shelf[i]
           /\ \/ \E content \in Content : AddDraft(i, content)
              \/ \E n \in DOMAIN shelf[i] :
                    Publish(i, n) \/ \E content \in Content : Rewrite(i, n, content)

Spec == Init /\ [][Next]_shelf
===============================================================================
