------------------------------- MODULE Accounts -------------------------------
(***************************************************************************)
(* Accounts: sign-up, codes and profiles on the same tables, any number of *)
(* requests at once.                                                       *)
(***************************************************************************)
EXTENDS Registration, AccountCodes, Profiles

Next ==
    \/ /\ \E h \in Handlers :
             RegistrationNext(h) \/ CodesNext(h) \/ ProfilesNext(h) \/ Fail(h)
       /\ UNCHANGED copying
    \/ KycNext

Spec == Init /\ [][Next]_vars

=============================================================================
