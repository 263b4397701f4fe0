----------------------------- MODULE ConsentGate -----------------------------
(***************************************************************************)
(* What the messaging system promises about consent, and no more.          *)
(*                                                                         *)
(* A customer's consent is given once and ends for good.  A text needs a   *)
(* permit, which is granted only while the consent lasts, to one of a      *)
(* bounded number of workers.  A permit that is out when the consent ends  *)
(* can still be spent, once; it cannot be renewed.                         *)
(***************************************************************************)
EXTENDS Naturals, FiniteSets

CONSTANTS Customers, Permits, MaxPermits

\* What the bound rests on: permits can be counted.
GateAssumption ==
    /\ IsFiniteSet(Permits)
    /\ MaxPermits \in Nat

VARIABLES stage,     \* "new", "given" or "ended", per customer
          granted,   \* the permits that are out, per customer
          late       \* how many texts went out after the consent ended

gateVars == <<stage, granted, late>>

GateTypeOK ==
    /\ stage \in [Customers -> {"new", "given", "ended"}]
    /\ granted \in [Customers -> SUBSET Permits]
    /\ late \in [Customers -> Nat]

GateInit ==
    /\ stage = [c \in Customers |-> "new"]
    /\ granted = [c \in Customers |-> {}]
    /\ late = [c \in Customers |-> 0]

Outstanding == UNION {granted[c] : c \in Customers}

Give(c) ==
    /\ stage[c] = "new"
    /\ stage' = [stage EXCEPT ![c] = "given"]
    /\ UNCHANGED <<granted, late>>

End(c) ==
    /\ stage[c] = "given"
    /\ stage' = [stage EXCEPT ![c] = "ended"]
    /\ UNCHANGED <<granted, late>>

\* Mutant: a permit is granted whatever became of the consent.
GrantAlways(c, p) ==
    /\ p \notin Outstanding
    /\ Cardinality(Outstanding \cup {p}) <= MaxPermits
    /\ granted' = [granted EXCEPT ![c] = @ \cup {p}]
    /\ UNCHANGED <<stage, late>>

Grant(c, p) ==
    /\ stage[c] = "given"
    /\ p \notin Outstanding
    /\ Cardinality(Outstanding \cup {p}) <= MaxPermits
    /\ granted' = [granted EXCEPT ![c] = @ \cup {p}]
    /\ UNCHANGED <<stage, late>>

\* A permit is spent on a text.
Spend(c, p) ==
    /\ p \in granted[c]
    /\ granted' = [granted EXCEPT ![c] = @ \ {p}]
    /\ late' = [late EXCEPT ![c] = IF stage[c] = "ended" THEN @ + 1 ELSE @]
    /\ UNCHANGED stage

\* A permit is given up without a text.
Lapse(c, p) ==
    /\ p \in granted[c]
    /\ granted' = [granted EXCEPT ![c] = @ \ {p}]
    /\ UNCHANGED <<stage, late>>

GateNext ==
    \E c \in Customers :
        \/ Give(c) \/ End(c)
        \/ \E p \in Permits : Grant(c, p) \/ Spend(c, p) \/ Lapse(c, p)

GateSpec == GateInit /\ [][GateNext]_gateVars

------------------------------------------------------------------------------
\* After the consent ended, no more texts go out than workers held a permit
\* at that moment.
LateBounded ==
    \A c \in Customers :
        stage[c] # "given" => late[c] + Cardinality(granted[c]) <= MaxPermits
==============================================================================
