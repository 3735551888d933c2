---------------------------- MODULE Obligation ----------------------------
(***************************************************************************)
(* What the centre promises about an obligation inherited from its         *)
(* archive: it takes effect once, through one channel.  A debt becomes one *)
(* charge line; a credit is either applied to an account or handed back in *)
(* cash, and only cash can be taken back, after which it may go out again. *)
(* A disturbed obligation is one the promise no longer covers.             *)
(***************************************************************************)
EXTENDS Naturals

CONSTANT Balances

VARIABLES
    effect,     \* how often each channel has taken effect for each balance
    disturbed   \* the balances a lost update has hit

Channels == {"ledger", "account", "cash"}

Untouched == [ledger |-> 0, account |-> 0, cash |-> 0]

Init ==
    /\ effect = [b \in Balances |-> Untouched]
    /\ disturbed = {}

Settle(b, c) ==
    /\ effect[b] = Untouched
    /\ effect' = [effect EXCEPT ![b] = [Untouched EXCEPT ![c] = 1]]
    /\ UNCHANGED disturbed

TakeBack(b) ==
    /\ effect[b] = [Untouched EXCEPT !.cash = 1]
    /\ effect' = [effect EXCEPT ![b] = Untouched]
    /\ UNCHANGED disturbed

Disturb(b) ==
    /\ disturbed' = disturbed \cup {b}
    /\ \A c \in Balances \ {b} : effect'[c] = effect[c]

Next ==
    \E b \in Balances :
        \/ \E c \in Channels : Settle(b, c)
        \/ TakeBack(b)
        \/ Disturb(b)

Spec == Init /\ [][Next]_<<effect, disturbed>>
=============================================================================
