------------------------------- MODULE MCTrainer -------------------------------
(***************************************************************************)
(* Trainer for TLC: two lookup processors with different windows, lists of *)
(* all three sorts, PreviousStage, two stages, two entity types.           *)
(***************************************************************************)
EXTENDS Trainer

MCTemplates == <<
    [kind |-> "lookup", window |-> 0, lists |-> <<>>],
    [kind |-> "enhanced", window |-> 0, lists |-> <<2>>],
    [kind |-> "gazetteers", window |-> 1, lists |-> <<1, 3>>],
    [kind |-> "brown", window |-> 1, lists |-> <<1>>],
    [kind |-> "lookup", window |-> 2, lists |-> <<>>],
    [kind |-> "previous", window |-> 1, lists |-> <<>>]>>
=============================================================================
