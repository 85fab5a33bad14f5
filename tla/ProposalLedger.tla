--------------------------- MODULE ProposalLedger ---------------------------
(***************************************************************************)
(* What the order flow promises about every proposal, with no agents, no   *)
(* awaits and no transport: a proposal is written once, the broker takes   *)
(* at most one order for it and only while it is pending, it is settled    *)
(* once, and only an order the broker took can be called submitted or      *)
(* broker-rejected.                                                        *)
(***************************************************************************)
EXTENDS Integers

CONSTANT MaxProposals

Proposals == 1..MaxProposals

VARIABLES
  state,  (* proposals.status                             *)
  sent    (* the proposals whose order the broker took    *)

ledgerVars == <<state, sent>>

(* Settled without any claim about the broker.                              *)
Refusals == {"rejected", "failed", "ambiguous", "close_missed"}

(* Settled with an order at the broker.                                     *)
Working == {"submitted", "close_submitted"}

(* From these the news of a dead order may still arrive: a tick cut short   *)
(* leaves the proposal pending, or a later tick refuses it, while its order *)
(* is live.                                                                 *)
Releasable == Working \union Refusals \union {"pending", "dry_run_approved"}

LedgerInit ==
  /\ state = [p \in Proposals |-> "none"]
  /\ sent = {}

Propose(p) ==
  /\ state[p] = "none"
  /\ \A q \in Proposals : q < p => state[q] # "none"
  /\ state' = [state EXCEPT ![p] = "pending"]
  /\ UNCHANGED sent

Send(p) ==
  /\ state[p] = "pending"
  /\ p \notin sent
  /\ sent' = sent \union {p}
  /\ UNCHANGED state

Settle(p, s) ==
  /\ state[p] = "pending"
  /\ s \in Working => p \in sent
  /\ state' = [state EXCEPT ![p] = s]
  /\ UNCHANGED sent

Release(p) ==
  /\ state[p] \in Releasable
  /\ p \in sent
  /\ state' = [state EXCEPT ![p] = "broker_rejected"]
  /\ UNCHANGED sent

LedgerNext ==
  \E p \in Proposals :
    \/ Propose(p)
    \/ Send(p)
    \/ \E s \in Refusals \union Working \union {"dry_run_approved"} : Settle(p, s)
    \/ Release(p)

LedgerSpec == LedgerInit /\ [][LedgerNext]_ledgerVars
==============================================================================
