------------------------------ MODULE MCWallet ------------------------------
(* Instances of the wallet for TLC. *)
EXTENDS WalletProperties, TLC

CONSTANTS u1, u2, i1, i2, p1, n1, n2, h1, h2

MCUsers == {u1, u2}
MCHandlers == {h1, h2}
MCInsts == {i1, i2}
MCNumbers == {n1, n2}
Symmetry == Permutations(MCUsers) \cup Permutations(MCHandlers)
            \cup Permutations(MCInsts) \cup Permutations(MCNumbers)

\* The first request has been answered: it failed, or it made an account.
FirstAccount == [owner : Users, inst : Insts, holder : {0, 1}, mail : {0, 1}, active : {TRUE}]
AfterFirst ==
    /\ account \in {Empty} \cup {Plus(Empty, 1, row) : row \in FirstAccount}
    /\ sealer = [i \in Ids |-> IF i \in DOMAIN account THEN i ELSE 0]
    /\ recipient = Empty /\ detail = Empty /\ tickets = {}
    /\ req = [h \in Handlers |-> Idle] /\ asked = 1
    /\ stale = {} /\ late = [u \in Users |-> 0]
    /\ edited = {} /\ superseded = {}
SpecAfterFirst == AfterFirst /\ [][Next]_vars

=============================================================================
