------------------------- MODULE CatalogueProperties -------------------------
(* What the house's payment methods and the orders that use them promise. *)
EXTENDS Catalogue, FiniteSets

(* The tables hold rows of their types, a link points to a rate and a method
   that exist, and a ticket to a rate that does: the foreign keys of
   schema.prisma, and the cascade of deletePaymentMethod. *)
CatalogueCorrect ==
    /\ rates \subseteq Rates
    /\ DOMAIN method \subseteq 1..made.methods
    /\ \A i \in DOMAIN method : method[i] \in Method
    /\ DOMAIN link \subseteq 1..made.links
    /\ \A l \in DOMAIN link : /\ link[l] \in Link
                              /\ link[l].rate \in rates /\ link[l].method \in DOMAIN method
    /\ \A t \in tickets : t \in Ticket /\ t.rate \in rates
    /\ \A h \in Handlers : req[h].step \in Steps

(* A rate has at most one link with a payment method, although no index says
   so: createCurrencyPaymentMethod and updateCurrencyPaymentMethod look for
   one first.  Two are there only when one of them was written by a request
   that links had changed under since it looked. *)
OneLinkPerPair ==
    \A l, k \in DOMAIN link :
       /\ l # k
       /\ link[l].rate = link[k].rate /\ link[l].method = link[k].method
       => l \in raced \/ k \in raced

(* A link that deleteCurrencyPaymentMethod removed is gone, although what is
   deleted is every link of the method it was read with, and never comes back:
   a later update or switch that had found it must not write it again. *)
DeletedLinksGone == gone \cap DOMAIN link = {}

(* The client is charged the fee of the account it is told to pay to.  The
   fee is looked for among the rate's links, the account among the active
   methods, both by the name of the institution only (validateAndCalculate,
   create): they belong together when no other method has that name and the
   catalogue does not change between the two look-ups. *)
FeeOfAccount ==
    \A t \in tickets :
       t.alone /\ ~t.stale => IF t.due = {} THEN t.fee = 0 ELSE t.fee \in t.due

=============================================================================
