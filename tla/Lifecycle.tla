------------------------------ MODULE Lifecycle ------------------------------
(***************************************************************************)
(* The run state machine of internal/lifecycle.  Every other component     *)
(* moves a run through Transition, which consults canTransition; the run   *)
(* record keeps the resulting state.                                       *)
(***************************************************************************)
EXTENDS Naturals

States == {"preparing", "mounted", "running", "paused",
           "succeeded", "failed", "committed", "rolled_back"}

\* The pairs canTransition accepts.
Edges ==
    {<<"preparing", "mounted">>, <<"preparing", "failed">>, <<"preparing", "rolled_back">>,
     <<"mounted", "running">>, <<"mounted", "failed">>, <<"mounted", "rolled_back">>,
     <<"running", "paused">>, <<"running", "succeeded">>, <<"running", "failed">>,
     <<"paused", "running">>, <<"paused", "rolled_back">>,
     <<"succeeded", "committed">>, <<"succeeded", "rolled_back">>,
     <<"failed", "rolled_back">>}

CanTransition(from, to) == <<from, to>> \in Edges

\* Transition(next): refused (the run keeps its state) unless the edge exists.
Transition(from, to) == IF CanTransition(from, to) THEN to ELSE from
=============================================================================
