------------------------- MODULE MCPayLinkRegistry -------------------------
(***************************************************************************)
(* Instances of PayLinkRegistry for TLC, in one run: a behaviour is one     *)
(* with two PayLinks and two proofs and no rules, or one with one PayLink   *)
(* under any of the rule sets.                                              *)
(***************************************************************************)
EXTENDS PayLinkRegistry, TLC

CONSTANTS a1, a2, a3, p1, h1

VARIABLE scenario   \* "settlement" or "rules"

(* The states of the scenario. *)
Within ==
    /\ scenario = "settlement" =>
           /\ \A p \in PayLinkId : paylinks[p].rules = {} /\ paylinks[p].amount <= 4
           /\ \A p \in PayLinkId : paylinks[p].transferCount = 0 /\ paylinks[p].approved = Zero
           /\ operatorApprovals = {}
    /\ scenario = "rules" =>
           /\ \A p \in PayLinkId \ {p1} : paylinks[p] = NoPayLink
           /\ paylinks[p1].status # "NONE" => paylinks[p1].amount > 0 /\ paylinks[p1].expiry <= 1
           /\ submittedProofs[p1] \in {NoProof, h1}
           /\ now <= 1

RegistryInit == scenario \in {"settlement", "rules"} /\ Init
RegistryNext == Next /\ UNCHANGED scenario /\ Within'
RegistrySpec == RegistryInit /\ [][RegistryNext]_<<vars, scenario>>

-----------------------------------------------------------------------------
MultiApproval(n, seq) == [type |-> "MultiApproval", required |-> n, approvers |-> seq]
MaxTransfers(n) == [type |-> "MaxTransfers", max |-> n]
AmountThreshold(lo, hi) == [type |-> "AmountThreshold", min |-> lo, max |-> hi]
TimeLock(from, to, kinds) ==
    [type |-> "TimeLock", notBefore |-> from, notAfter |-> to, actions |-> kinds]
AddressWhitelist(as, kinds) ==
    [type |-> "AddressWhitelist", addresses |-> as, actions |-> kinds]
ReceiverWhitelist(as) == [type |-> "ReceiverWhitelist", addresses |-> as]

(* Settlement: an approval that may be missing, one that can never be met   *)
(* and one that ValidateRules rejects.                                      *)
SettlementRules ==
    { {}, {MultiApproval(1, <<a3>>)}, {MultiApproval(3, <<a1, a2, a3>>)},
      {MultiApproval(2, <<a3>>)}, {AmountThreshold(5, 9)}, {TimeLock(1, 1, {"settle"})} }

(* Ownership: transfers limited in number, by destination, by sender, by time. *)
OwnershipRules ==
    { {}, {MaxTransfers(1)}, {ReceiverWhitelist({a2})}, {MaxTransfers(0)},
      {AddressWhitelist({a1}, {"transfer", "cancel"}), TimeLock(1, 0, {"cancel"})} }

AllRules == SettlementRules \cup OwnershipRules
=============================================================================
