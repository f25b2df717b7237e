------------------------------ MODULE MCCalls ------------------------------
(***************************************************************************)
(* What must end, side by side: the calls of a browser's session, and the  *)
(* conversations of the router. A behaviour is one of the part that its    *)
(* first state names, under the fairness of that part.                     *)
(***************************************************************************)
EXTENDS SessionClient, LLMRouter

VARIABLE part

\* Of the tokens that nobody knows one stands for the others.
DrawOne(S) == IF S = {} THEN {} ELSE {CHOOSE t \in S : TRUE}

CallsInit == part \in {"session", "router"} /\ Init /\ RouterInit

CallsNext ==
  /\ UNCHANGED part
  /\ \/ part = "session" /\ Next /\ UNCHANGED routerVars
     \/ part = "router" /\ RouterNext /\ UNCHANGED vars

CallsSpec ==
  CallsInit /\ [][CallsNext]_<<part, vars, routerVars>> /\ Fairness /\ RouterFairness
=============================================================================
