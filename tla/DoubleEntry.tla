---------------------------- MODULE DoubleEntry ----------------------------
(***************************************************************************)
(* The ledger library: balanced postings and reversals on an append-only    *)
(* table.  The helpers run in transactions of their callers, which overlap, *)
(* see committed legs only, and commit or roll back as a whole.             *)
(***************************************************************************)
EXTENDS Integers, Sequences, FiniteSets, SequencesExt

CONSTANTS
    Accounts, LedgerCurrencies,
    Groups,          \* entry groups that callers name
    Proposals,       \* lists of legs that callers try to post
    Callers,
    NoGroup,
    MaxPostings      \* bound on transactions

ASSUME DoubleEntryAssumption ==
    /\ MaxPostings \in Nat
    /\ NoGroup \notin Groups

VARIABLES
    entries,      \* ledger_entries: legs with their group, in commit order
    ledgerTx,     \* legs that each caller's transaction has written or read
    reversals,    \* history: committed reversals <<group, legs that were read>>
    postings

ledgerVars == <<entries, ledgerTx, reversals, postings>>

Direction == {"DR", "CR"}
NoTx == [group |-> NoGroup, reads |-> <<>>, legs |-> <<>>]

Legs == [account : Accounts, direction : Direction, amount : Int, currency : LedgerCurrencies]

(* Sum of the legs that satisfy a condition, debits counted by a factor. *)
Sum(legs, Counts(_), debit) ==
    FoldLeft(LAMBDA s, l : IF ~ Counts(l) THEN s
                           ELSE s + (IF l.direction = "DR" THEN debit ELSE 1) * l.amount, 0, legs)

(* balance: credits minus debits of an account in a currency. *)
Balance(legs, a, c) == Sum(legs, LAMBDA l : l.account = a /\ l.currency = c, -1)

(* is_balanced: debits equal credits in a currency. *)
IsBalanced(legs, c) == Sum(legs, LAMBDA l : l.currency = c, -1) = 0

(* Mutant: the totals are compared over all currencies. *)
BalancesOverall(legs) ==
    /\ Len(legs) >= 2
    /\ \A i \in DOMAIN legs : legs[i].amount > 0
    /\ Direction \subseteq {legs[i].direction : i \in DOMAIN legs}
    /\ Sum(legs, LAMBDA l : TRUE, -1) = 0

(* Mutant: an amount may be zero. *)
ZeroLegs(legs) ==
    /\ Len(legs) >= 2
    /\ Direction \subseteq {legs[i].direction : i \in DOMAIN legs}
    /\ \A c \in LedgerCurrencies : IsBalanced(legs, c)

(* validate. *)
Validates(legs) ==
    /\ Len(legs) >= 2
    /\ \A i \in DOMAIN legs : legs[i].amount > 0
    /\ Direction \subseteq {legs[i].direction : i \in DOMAIN legs}
    /\ \A c \in LedgerCurrencies : IsBalanced(legs, c)

(* Mutant: the legs are posted as they were. *)
Keep(leg) == leg

Flip(leg) == [leg EXCEPT !.direction = IF @ = "CR" THEN "DR" ELSE "CR"]

(* entries_by_group, of what is committed. *)
LegsOf(g) == SelectSeq(entries, LAMBDA e : e.group = g)

LegOf(e) == [account |-> e.account, direction |-> e.direction, amount |-> e.amount, currency |-> e.currency]
LegsOnly(es) == [i \in DOMAIN es |-> LegOf(es[i])]

-----------------------------------------------------------------------------
Begins(t) ==
    /\ ledgerTx[t] = NoTx
    /\ postings < MaxPostings /\ postings' = postings + 1

(* post: under a group that the caller names, which may have legs already.  *)
(* Legs that do not validate are refused before anything is written.        *)
Post(t, g, legs) ==
    /\ Begins(t)
    /\ Validates(legs)
    /\ ledgerTx' = [ledgerTx EXCEPT ![t] = [group |-> g, reads |-> <<>>, legs |-> legs]]
    /\ UNCHANGED <<entries, reversals>>

(* reverse: the read of the group.  An empty group is refused. *)
ReadGroup(t, g) ==
    /\ Begins(t)
    /\ LegsOf(g) # <<>>
    /\ ledgerTx' = [ledgerTx EXCEPT ![t] = [group |-> g, reads |-> LegsOnly(LegsOf(g)), legs |-> <<>>]]
    /\ UNCHANGED <<entries, reversals>>

(* reverse: the flipped legs are posted, under a group of their own. *)
PostReversal(t) ==
    /\ ledgerTx[t].reads # <<>> /\ ledgerTx[t].legs = <<>>
    /\ LET flipped == [i \in DOMAIN ledgerTx[t].reads |-> Flip(ledgerTx[t].reads[i])]
       IN  /\ Validates(flipped)
           /\ ledgerTx' = [ledgerTx EXCEPT ![t].legs = flipped]
    /\ UNCHANGED <<entries, reversals, postings>>

(* The caller commits: all legs of the group in one statement. *)
CommitLedgerTx(t) ==
    /\ ledgerTx[t].legs # <<>>
    /\ LET tx == ledgerTx[t]
           g == IF tx.reads = <<>> THEN tx.group ELSE <<"reversal", Cardinality(reversals) + 1>>
       IN  /\ entries' = entries \o [i \in DOMAIN tx.legs |->
                 [group |-> g, account |-> tx.legs[i].account, direction |-> tx.legs[i].direction,
                  amount |-> tx.legs[i].amount, currency |-> tx.legs[i].currency]]
           /\ reversals' = IF tx.reads = <<>> THEN reversals ELSE reversals \cup {<<g, tx.reads>>}
    /\ ledgerTx' = [ledgerTx EXCEPT ![t] = NoTx]
    /\ UNCHANGED postings

RollBackLedgerTx(t) ==
    /\ ledgerTx[t] # NoTx
    /\ ledgerTx' = [ledgerTx EXCEPT ![t] = NoTx]
    /\ UNCHANGED <<entries, reversals, postings>>

LedgerInit ==
    /\ entries = <<>>
    /\ ledgerTx = [t \in Callers |-> NoTx]
    /\ reversals = {}
    /\ postings = 0

LedgerNext ==
    \E t \in Callers :
        \/ \E g \in Groups, legs \in Proposals : Post(t, g, legs)
        \/ \E g \in Groups : ReadGroup(t, g)
        \/ PostReversal(t) \/ CommitLedgerTx(t) \/ RollBackLedgerTx(t)

LedgerSpec == LedgerInit /\ [][LedgerNext]_ledgerVars

-----------------------------------------------------------------------------
(* Properties.                                                             *)

(* Every leg in the table is well formed; its amount is positive and its    *)
(* direction carries the sign.                                              *)
LedgerTypeOK ==
    /\ \A i \in DOMAIN entries : LegOf(entries[i]) \in Legs /\ entries[i].amount > 0
    /\ \A t \in Callers : ledgerTx[t].group \in Groups \cup {NoGroup}

(* "The whole ledger nets to zero for a currency", and so does every group  *)
(* by itself, whatever was posted, reversed, appended to or rolled back.    *)
LedgerBalanced ==
    \A c \in LedgerCurrencies :
        /\ IsBalanced(entries, c)
        /\ \A i \in DOMAIN entries : IsBalanced(LegsOf(entries[i].group), c)

(* A reversal takes every account back by exactly what the group it read    *)
(* had moved: the legs it read and the legs it posted cancel out.           *)
ReversalCancels ==
    \A r \in reversals, a \in Accounts, c \in LedgerCurrencies :
        Balance(r[2], a, c) + Balance(LegsOf(r[1]), a, c) = 0

(* post, post_all and reverse keep the books: legs are well formed, every   *)
(* group and the whole ledger balance in each currency, and a reversal      *)
(* undoes exactly what it read.                                             *)
LedgerSound ==
    LedgerTypeOK /\ LedgerBalanced /\ ReversalCancels
=============================================================================
