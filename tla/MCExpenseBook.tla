---------------------------- MODULE MCExpenseBook ----------------------------
(***************************************************************************)
(* Small instances of ExpenseBook for TLC, two in one run: revisions, with *)
(* two expenses and one definition, and recurring runs, with up to four    *)
(* expenses of two monthly definitions and nothing else.                   *)
(***************************************************************************)
EXTENDS ExpenseBook, TLC

(* A December and the January that a monthly definition then reaches. *)
MCAsked == {[year |-> 0, month |-> 12], [year |-> 1, month |-> 1]}

Symmetry == Permutations(Session) \cup Permutations(Entry) \cup Permutations(Def)

VARIABLE about      \* which of the two instances this behaviour is of

InUse == {e \in Entry : expense[e] # NoExpense \/ \E s \in Session : written[s][e] # NoExpense}

Revisions == Cardinality(InUse) <= 2 /\ Cardinality({d \in Def : recurring[d] # NoRecurring}) <= 1

Runs ==
    /\ \A s \in Session, e \in Entry : written[s][e] # NoExpense =>
           written[s][e].source # NoDef /\ written[s][e].amount = 1 /\ expense[e] = NoExpense
    /\ \A d \in Def : recurring[d] # NoRecurring =>
           recurring[d].active /\ recurring[d].frequency = "MONTHLY" /\ recurring[d].first.month = 12

MCInit == BookInit /\ about \in {"revisions", "runs"}

MCNext ==
    /\ BookNext
    /\ IF about = "revisions" THEN Revisions' ELSE Runs'
    /\ UNCHANGED about

MCSpec == MCInit /\ [][MCNext]_<<bkvars, about>>
=============================================================================
