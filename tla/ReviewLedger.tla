----------------------------- MODULE ReviewLedger -----------------------------
(***************************************************************************)
(* What the proposer and the review page promise about the committed       *)
(* tables, whatever happens inside a run: the legal moves of a proposal's  *)
(* status and of a pattern's status, one transaction at a time.            *)
(* ProposalLifecycle implements it with picked being the proposals that    *)
(* the sweeps of open runs have selected.                                  *)
(*                                                                         *)
(* The documents give `rejected` no way out.  The ledger states the hole   *)
(* the code leaves: a proposal that a sweep has picked while it was live   *)
(* may still become stale after an operator has rejected it.               *)
(***************************************************************************)
CONSTANTS Keys, Patterns

VARIABLES
    status,  \* of each group key's proposal, "none" if there is none
    pats,    \* status of each pattern
    picked   \* proposals some open run is about to mark stale

ledger == <<status, pats, picked>>

Init ==
    /\ status = [k \in Keys |-> "none"]
    /\ pats = [x \in Patterns |-> "candidate"]
    /\ picked = {}

\* A sweep only ever picks live proposals; a run that ends lets its own go.
Pick ==
    /\ picked' \subseteq picked \cup
         {k \in Keys : status[k] \in {"shadowing", "approved"}}
    /\ UNCHANGED <<status, pats>>

\* One operator decision: a proposal waiting for one gets it, and a rejection
\* may take proposed patterns with it.
Review(k, v) ==
    /\ status[k] \in {"shadowing", "stale"}
    /\ status' = [status EXCEPT ![k] = v]
    /\ \E hit \in SUBSET {x \in Patterns : pats[x] = "proposed"} :
         /\ v = "approved" => hit = {}
         /\ pats' = [x \in Patterns |-> IF x \in hit THEN "rejected"
                                                     ELSE pats[x]]
    /\ UNCHANGED picked

\* A run's commit: proposals are born or revived, picked ones become stale, and
\* patterns go back to candidate only in a run that makes something stale.
Night ==
    /\ \E up \in SUBSET {k \in Keys : status[k] \in {"none", "stale"}},
          down \in SUBSET picked :
         /\ status' = [k \in Keys |-> IF k \in down THEN "stale"
                                      ELSE IF k \in up THEN "shadowing"
                                      ELSE status[k]]
         /\ \E marked \in SUBSET {x \in Patterns : pats[x] = "candidate"},
               freed \in SUBSET {x \in Patterns : pats[x] = "proposed"} :
              /\ down = {} => freed = {}
              /\ pats' = [x \in Patterns |-> IF x \in marked THEN "proposed"
                                             ELSE IF x \in freed THEN "candidate"
                                             ELSE pats[x]]
    /\ picked' \subseteq picked

Next == Pick \/ Night
        \/ \E k \in Keys, v \in {"approved", "rejected"} : Review(k, v)

Spec == Init /\ [][Next]_ledger
==============================================================================
