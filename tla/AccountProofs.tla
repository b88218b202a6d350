---------------------------- MODULE AccountProofs ----------------------------
(***************************************************************************)
(* Proofs about accounts, for any set of mails and any number of requests  *)
(* in flight.                                                              *)
(*                                                                         *)
(* A row keeps its six promises by itself (GoodRow); what a request read   *)
(* may be out of date when it writes, and Knows says what is still true of *)
(* it by then: a code about to be stored is nobody's and changed nothing   *)
(* yet, an address is somebody's mail or belongs to an account that is     *)
(* marked for having been named by it, and so are the accounts made under  *)
(* the feet of a Google sign-in or approved under those of a saved profile.*)
(***************************************************************************)
EXTENDS AccountProperties, TLAPS

\* Steps that store their code, that have one, and that go by their mail.
Storing == {"codeSave", "deleteSave"}
Coded == Storing \cup {"tempCreate", "mobileSave", "tempMail", "codeMail", "deleteMail",
                       "changeSave"}
ByMail == {"tempCreate", "mobileSave", "tempMail", "verifySave", "registerDelete",
           "registerCreate", "googleTransaction", "adminCreate"}

\* Steps that go by an address, which may be an anonymised one.
ByAddress == {"codeSave", "byEmailSave"}

\* What row i promises, whatever happens to the others; cd codes were generated.
GoodRow(r, i, cd, sp, ov, lc) ==
    /\ r \in Row
    /\ r.token \in 0..cd
    /\ r.token # 0 => sp[r.token] = 0
    /\ r.google = TRUE /\ i \in lc => <<i, "google">> \in ov
    /\ r.email \in Emails \cup {Anonymised(i)}
    /\ r.email = Anonymised(i) /\ <<i, "deletion">> \notin ov /\ <<i, "addressed">> \notin ov =>
          r.token = 0 /\ r.password \notin Chosen
    /\ r.kyc = TRUE /\ <<i, "uncopied">> \notin ov /\ <<i, "profile">> \notin ov =>
          r.name \in {"kyc", "admin"}

\* What a request knows of the rows rs, when md rows and cd codes were made.
Knows(f, rs, md, cd, sp, ov, lc) ==
    /\ f \in Frame
    /\ f.id \in 0..md
    /\ f.step \in Coded => f.code \in 1..cd
    /\ f.step \in ByMail => f.email \in Emails
    /\ f.step \in ByAddress /\ f.email \notin Emails =>
          \E i \in Ids : f.email = Anonymised(i) /\ <<i, "addressed">> \in ov
    /\ f.step \in Storing =>
          sp[f.code] = 0 /\ \A i \in DOMAIN rs : rs[i].token # f.code
    /\ f.step = "googleTransaction" =>
          \A i \in DOMAIN rs :
             rs[i].email = f.email /\ rs[i].google = FALSE /\ i \in lc => <<i, "google">> \in ov
    /\ f.step = "googleProvider" /\ f.id \in lc => <<f.id, "google">> \in ov
    /\ f.step = "profileSave" /\ f.flag = FALSE /\ f.id \in DOMAIN rs /\ rs[f.id].kyc = TRUE =>
          <<f.id, "profile">> \in ov

Counters ==
    /\ temp \in [Emails -> Codes \cup {NoRow, Used}]
    /\ made \in 0..MaxUsers /\ codes \in 0..MaxCodes /\ asked \in 0..MaxRequests
    /\ mailed \subseteq 1..codes
    /\ marks \subseteq Ids \X Marks
    /\ local \subseteq 1..made /\ entered \subseteq Emails
    /\ spent \in [Codes -> Nat]
    /\ \A c \in Codes : spent[c] <= 1 /\ (c > codes => spent[c] = 0)

Users ==
    /\ DOMAIN rows \subseteq 1..made
    /\ \A i \in DOMAIN rows : GoodRow(rows[i], i, codes, spent, marks, local)

Unique ==
    \A i, j \in DOMAIN rows :
        i # j => /\ rows[i].email # rows[j].email
                 /\ rows[i].token = rows[j].token => rows[i].token = 0

Requests ==
    /\ req = [h \in Handlers |-> req[h]]
    /\ \A h \in Handlers : Knows(req[h], rows, made, codes, spent, marks, local)
    /\ \A h, k \in Handlers :
          h # k /\ req[h].step \in Storing /\ req[k].step \in Storing =>
             req[h].code # req[k].code

IInv == Counters /\ Users /\ Unique /\ Requests /\ EnteredCanRegister

LEMMA Numbers ==
    ASSUME Counters
    PROVE  /\ made \in Nat /\ codes \in Nat
           /\ 1..made \subseteq Ids /\ 1..codes \subseteq Codes
           /\ NoRow \notin Codes /\ 0 \notin Codes
           /\ \A c \in 1..codes : c # 0 /\ c # codes + 1
  BY BoundsAssumption DEF Counters, Ids, Codes, NoRow

\* A request that waits for nothing knows nothing.
LEMMA IdleKnows ==
    ASSUME NEW rs, NEW md \in Nat, NEW cd, NEW sp, NEW ov, NEW lc
    PROVE  Knows(Idle, rs, md, cd, sp, ov, lc)
  BY DEF Idle, Knows, Frame, Steps, Storing, Coded, ByMail, ByAddress, Passwords, NoMail

\* An anonymised address is nobody's mail, and one account's.
LEMMA Apart ==
    ASSUME NEW i \in Ids
    PROVE  /\ Anonymised(i) \notin Emails /\ Anonymised(i) \in Addresses
           /\ \A j : Anonymised(j) = Anonymised(i) => j = i
  BY EmailsAssumption, BoundsAssumption DEF Ids, Anonymised, Addresses

-----------------------------------------------------------------------------
(***************************************************************************)
(* Requests whose statement changes no row.                                *)
(***************************************************************************)
Rest == <<rows, made, marks, local, spent>>

\* What was known stays known while more codes are generated and more accounts
\* are marked.
LEMMA KnowsMore ==
    ASSUME NEW f, NEW rs, NEW md, NEW cd \in Nat, NEW ce \in Nat, cd <= ce, NEW sp, NEW ov,
           NEW ow, ov \subseteq ow, NEW lc, Knows(f, rs, md, cd, sp, ov, lc)
    PROVE  Knows(f, rs, md, ce, sp, ow, lc)
  BY DEF Knows

LEMMA GoodMore ==
    ASSUME NEW r, NEW i, NEW cd \in Nat, NEW ce \in Nat, cd <= ce, NEW sp, NEW ov,
           NEW ow, ov \subseteq ow, NEW lc, GoodRow(r, i, cd, sp, ov, lc)
    PROVE  GoodRow(r, i, ce, sp, ow, lc)
  BY DEF GoodRow

\* Registration stays open to the mails that entered a code, when no temporary
\* row goes and no request ends that was to create their account.
LEMMA StillOpen ==
    ASSUME EnteredCanRegister, NEW h \in Handlers, NEW f, req = [k \in Handlers |-> req[k]],
           req' = [req EXCEPT ![h] = f],
           \A e \in entered' \ stranded' : temp[e] # NoRow => temp'[e] # NoRow,
           \A e \in entered' : e \in entered \/ temp'[e] # NoRow,
           stranded \subseteq stranded',
           \/ ~At(h, "registerCreate")
           \/ req[h].email \in stranded'
           \/ req[h].email \notin entered'
    PROVE  EnteredCanRegister'
  <1> SUFFICES ASSUME NEW e \in entered' \ stranded', temp'[e] = NoRow
               PROVE  \E k \in Handlers : At(k, "registerCreate")' /\ req'[k].email = e
    BY DEF EnteredCanRegister
  <1>1. PICK k \in Handlers : At(k, "registerCreate") /\ req[k].email = e
    BY DEF EnteredCanRegister
  <1>2. k # h
    BY <1>1
  <1>3. req'[k] = req[k]
    BY <1>2
  <1> QED
    BY <1>1, <1>3 DEF At

\* A request goes on, or a new one comes, and no row changes.
LEMMA MarkingStep ==
    ASSUME IInv, UNCHANGED <<rows, made, local, spent>>, marks \subseteq marks',
           NEW h \in Handlers, NEW f, req' = [req EXCEPT ![h] = f],
           Counters', codes <= codes', EnteredCanRegister',
           Knows(f, rows, made, codes', spent, marks', local),
           \A k \in Handlers \ {h} :
              f.step \in Storing /\ req[k].step \in Storing => f.code # req[k].code
    PROVE  IInv'
  <1>1. codes \in Nat /\ codes' \in Nat /\ made \in Nat
    BY Numbers DEF IInv, Counters
  <1>2. Users'
    BY <1>1, GoodMore DEF IInv, Users
  <1>3. Unique'
    BY DEF IInv, Unique
  <1>4. req'[h] = f /\ \A k \in Handlers \ {h} : req'[k] = req[k]
    BY DEF IInv, Requests
  <1>5. \A k \in Handlers : Knows(req'[k], rows', made', codes', spent', marks', local')
    <2>1. \A k \in Handlers \ {h} : Knows(req[k], rows, made, codes', spent, marks', local)
      BY <1>1, KnowsMore DEF IInv, Requests
    <2> QED
      BY <1>4, <2>1
  <1>6. Requests'
    <2>1. req' = [k \in Handlers |-> req'[k]]
      BY DEF IInv, Requests
    <2>2. \A k, l \in Handlers :
             k # l /\ req'[k].step \in Storing /\ req'[l].step \in Storing =>
                req'[k].code # req'[l].code
      BY <1>4 DEF IInv, Requests
    <2> QED
      BY <1>5, <2>1, <2>2 DEF Requests
  <1> QED
    BY <1>2, <1>3, <1>6 DEF IInv

LEMMA QuietStep ==
    ASSUME IInv, UNCHANGED Rest, NEW h \in Handlers, NEW f, req' = [req EXCEPT ![h] = f],
           Counters', codes <= codes', EnteredCanRegister',
           Knows(f, rows, made, codes', spent, marks, local),
           \A k \in Handlers \ {h} :
              f.step \in Storing /\ req[k].step \in Storing => f.code # req[k].code
    PROVE  IInv'
  <1>1. UNCHANGED <<rows, made, local, spent>> /\ marks' = marks
    BY DEF Rest
  <1>2. marks \subseteq marks' /\ Knows(f, rows, made, codes', spent, marks', local)
    BY <1>1
  <1> QED
    BY <1>1, <1>2, MarkingStep

\* A request that ends has nothing to be wrong about.
LEMMA AnswerStep ==
    ASSUME IInv, UNCHANGED Rest, NEW h \in Handlers, Answer(h), Counters',
           codes' = codes, EnteredCanRegister'
    PROVE  IInv'
  <1>1. codes \in Nat /\ made \in Nat
    BY Numbers DEF IInv
  <1>2. Knows(Idle, rows, made, codes', spent, marks, local)
    BY <1>1, IdleKnows
  <1>3. PICK f : f = Idle
    OBVIOUS
  <1>4. f.step \notin Storing
    BY <1>3 DEF Idle, Storing
  <1>5. req' = [req EXCEPT ![h] = f] /\ Knows(f, rows, made, codes', spent, marks, local)
    BY <1>2, <1>3 DEF Answer
  <1>6. codes <= codes'
    BY <1>1
  <1> QED
    BY <1>4, <1>5, <1>6, QuietStep

-----------------------------------------------------------------------------
(* New requests. *)

LEMMA AskMarking ==
    ASSUME IInv, NEW h \in Handlers, NEW f, Ask(h, f),
           UNCHANGED <<tables, mailed, entered, stranded, local, spent>>,
           marks \subseteq marks', marks' \subseteq Ids \X Marks,
           codes' \in {codes, codes + 1}, codes' \in 0..MaxCodes,
           Knows(f, rows, made, codes', spent, marks', local),
           f.step \in Storing => f.code = codes + 1
    PROVE  IInv'
  <1>1. /\ UNCHANGED <<rows, made, local, spent>> /\ req' = [req EXCEPT ![h] = f] /\ req[h].step = "idle"
        /\ asked' \in 0..MaxRequests
        /\ UNCHANGED <<temp, made, mailed, local, spent, entered, stranded>>
    BY BoundsAssumption DEF Ask, tables, IInv, Counters
  <1>2. codes \in Nat /\ codes' \in Nat /\ codes <= codes'
    BY Numbers DEF IInv
  <1>3. Counters'
    <2>1. mailed' \subseteq 1..codes'
      BY <1>1, <1>2 DEF IInv, Counters
    <2>2. \A c \in Codes : spent'[c] <= 1 /\ (c > codes' => spent'[c] = 0)
      BY <1>1, <1>2 DEF IInv, Counters, Codes
    <2> QED
      BY <1>1, <2>1, <2>2 DEF IInv, Counters
  <1>4. EnteredCanRegister'
    BY <1>1, StillOpen DEF IInv, Requests, At
  <1>5. ASSUME NEW k \in Handlers \ {h}, f.step \in Storing, req[k].step \in Storing
        PROVE  f.code # req[k].code
    <2>1. req[k].code \in 1..codes
      BY <1>5 DEF IInv, Requests, Knows, Coded
    <2> QED
      BY <1>2, <1>5, <2>1
  <1>6. \A k \in Handlers \ {h} :
           f.step \in Storing /\ req[k].step \in Storing => f.code # req[k].code
    BY <1>5
  <1> QED
    BY <1>1, <1>2, <1>3, <1>4, <1>6, MarkingStep

LEMMA AskStep ==
    ASSUME IInv, NEW h \in Handlers, NEW f, Ask(h, f), UNCHANGED <<tables, mailed, ghosts>>,
           codes' \in {codes, codes + 1}, codes' \in 0..MaxCodes,
           Knows(f, rows, made, codes', spent, marks, local),
           f.step \in Storing => f.code = codes + 1
    PROVE  IInv'
  <1>1. marks' = marks /\ UNCHANGED <<tables, mailed, entered, stranded, local, spent>>
    BY DEF ghosts
  <1>2. /\ marks \subseteq marks' /\ marks' \subseteq Ids \X Marks
        /\ Knows(f, rows, made, codes', spent, marks', local)
    BY <1>1 DEF IInv, Counters
  <1> QED
    BY <1>1, <1>2, AskMarking

LEMMA OldCode ==
    ASSUME IInv, NEW h \in Handlers, NEW f, Ask(h, f),
           UNCHANGED <<tables, mailed, codes, ghosts>>,
           Knows(f, rows, made, codes, spent, marks, local), f.step \notin Storing
    PROVE  IInv'
  <1>1. codes' = codes /\ codes' \in 0..MaxCodes
    BY DEF IInv, Counters
  <1> QED
    BY <1>1, AskStep

LEMMA Generated ==
    ASSUME IInv, NEW c, Generate(c)
    PROVE  /\ c = codes + 1 /\ codes' = codes + 1 /\ codes' \in 0..MaxCodes
           /\ c \in Codes /\ c \in 1..codes' /\ spent[c] = 0
           /\ \A i \in DOMAIN rows : rows[i].token # c
  <1>1. codes \in 0..MaxCodes /\ codes < MaxCodes /\ c = codes + 1 /\ codes' = codes + 1
    BY DEF IInv, Counters, Generate
  <1>2. c \in Codes /\ c \in 1..codes' /\ codes' \in 0..MaxCodes
    BY <1>1, BoundsAssumption DEF Codes
  <1>3. spent[c] = 0
    BY <1>1, <1>2 DEF IInv, Counters
  <1>4. \A i \in DOMAIN rows : rows[i].token \in 0..codes
    BY DEF IInv, Users, GoodRow
  <1> QED
    BY <1>1, <1>2, <1>3, <1>4

\* A frame whose step needs nothing but its shape.
Simple == Steps \ (Storing \cup Coded \cup ByMail \cup ByAddress
                   \cup {"googleTransaction", "googleProvider", "profileSave"})

LEMMA FrameOf ==
    ASSUME NEW s \in Steps, NEW e \in Addresses \cup {NoMail}, NEW i \in Ids \cup {0},
           NEW c \in Codes \cup {0}, NEW p \in Passwords, NEW b \in BOOLEAN, NEW f,
           f = [step |-> s, email |-> e, id |-> i, code |-> c, password |-> p, flag |-> b]
    PROVE  /\ f \in Frame
           /\ f.step = s /\ f.email = e /\ f.id = i /\ f.code = c /\ f.password = p
           /\ f.flag = b
  BY DEF Frame

LEMMA SimpleKnows ==
    ASSUME NEW f \in Frame, f.step \in Simple, NEW rs, NEW md, f.id \in 0..md,
           NEW cd, NEW sp, NEW ov, NEW lc
    PROVE  Knows(f, rs, md, cd, sp, ov, lc) /\ f.step \notin Storing
  BY DEF Knows, Simple

\* A request that only needs its mail, or its mail and a code.
LEMMA MailKnows ==
    ASSUME NEW f \in Frame, NEW md \in Nat, f.id \in 0..md, f.email \in Emails,
           NEW cd, f.step \in Coded => f.code \in 1..cd,
           f.step \in ByMail \ (Storing \cup {"googleTransaction"}),
           NEW rs, NEW sp, NEW ov, NEW lc
    PROVE  Knows(f, rs, md, cd, sp, ov, lc) /\ f.step \notin Storing
  BY DEF Knows, ByMail

LEMMA NewRegistration ==
    ASSUME IInv, NEW h \in Handlers, NEW e \in Emails, TempFind(h, e) \/ MobileFind(h, e)
    PROVE  IInv'
  <1>1. PICK c \in Codes, s \in {"tempCreate", "mobileSave"}, b \in BOOLEAN :
           Generate(c) /\ Ask(h, About(s, e, c, "random", b))
    BY DEF TempFind, MobileFind
  <1>2. UNCHANGED <<tables, mailed, ghosts>>
    BY DEF TempFind, MobileFind
  <1>3. PICK f : f = About(s, e, c, "random", b)
    OBVIOUS
  <1>4. f \in Frame /\ f.step = s /\ f.email = e /\ f.id = 0 /\ f.code = c
    <2>1. "random" \in Passwords /\ s \in Steps
      BY DEF Passwords, Steps
    <2> QED
      BY <1>3, <2>1, FrameOf DEF About, Addresses
  <1>5. codes' = codes + 1 /\ codes' \in 0..MaxCodes /\ c \in 1..codes' /\ made \in Nat
    BY <1>1, Generated, Numbers DEF IInv
  <1>6. Knows(f, rows, made, codes', spent, marks, local) /\ f.step \notin Storing
    BY <1>4, <1>5, MailKnows DEF ByMail, Storing
  <1> QED
    BY <1>1, <1>2, <1>3, <1>5, <1>6, AskStep

LEMMA NewVerification ==
    ASSUME IInv, NEW h \in Handlers, NEW c \in mailed, VerifyFind(h, c)
    PROVE  IInv'
  <1>1. PICK e \in Emails, b \in BOOLEAN : Ask(h, About("verifySave", e, c, "random", b))
    BY DEF VerifyFind
  <1>2. PICK f : f = About("verifySave", e, c, "random", b)
    OBVIOUS
  <1>3. f \in Frame /\ f.step = "verifySave" /\ f.email = e /\ f.id = 0
    <2>1. "random" \in Passwords /\ "verifySave" \in Steps /\ c \in Codes
      BY Numbers DEF Passwords, Steps, IInv, Counters
    <2> QED
      BY <1>2, <2>1, FrameOf DEF About, Addresses
  <1>4. made \in Nat
    BY Numbers DEF IInv
  <1>5. Knows(f, rows, made, codes, spent, marks, local) /\ f.step \notin Storing
    BY <1>3, <1>4 DEF Knows, Storing, Coded
  <1> QED
    BY <1>1, <1>2, <1>5, OldCode DEF VerifyFind

LEMMA NewRegister ==
    ASSUME IInv, NEW h \in Handlers, NEW e \in Emails, NEW p \in Chosen, RegisterFind(h, e, p)
    PROVE  IInv'
  <1> PICK b \in BOOLEAN : b = FALSE
    OBVIOUS
  <1>1. PICK f : f = About("registerDelete", e, 0, p, b)
    OBVIOUS
  <1>2. f \in Frame /\ f.step = "registerDelete" /\ f.email = e /\ f.id = 0
    <2>1. p \in Passwords /\ "registerDelete" \in Steps
      BY DEF Passwords, Chosen, Steps
    <2> QED
      BY <1>1, <2>1, FrameOf DEF About, Addresses
  <1>3. made \in Nat
    BY Numbers DEF IInv
  <1>4. Knows(f, rows, made, codes, spent, marks, local) /\ f.step \notin Storing
    BY <1>2, <1>3 DEF Knows, Storing, Coded
  <1> QED
    BY <1>1, <1>4, OldCode DEF RegisterFind

LEMMA NewGoogle ==
    ASSUME IInv, NEW h \in Handlers, NEW e \in Emails, GoogleFind(h, e)
    PROVE  IInv'
  <1> PICK b \in BOOLEAN : b = FALSE
    OBVIOUS
  <1>1. PICK f : f = About("googleTransaction", e, 0, "random", b)
    OBVIOUS
  <1>2. f \in Frame /\ f.step = "googleTransaction" /\ f.email = e /\ f.id = 0
    <2>1. "random" \in Passwords /\ "googleTransaction" \in Steps
      BY DEF Passwords, Steps
    <2> QED
      BY <1>1, <2>1, FrameOf DEF About, Addresses
  <1>3. \A i \in DOMAIN rows :
           rows[i].email = f.email /\ rows[i].google = FALSE /\ i \in local =>
              <<i, "google">> \in marks
    BY <1>2 DEF GoogleFind, IdsOf
  <1>4. made \in Nat
    BY Numbers DEF IInv
  <1>5. Knows(f, rows, made, codes, spent, marks, local) /\ f.step \notin Storing
    BY <1>2, <1>3, <1>4 DEF Knows, Storing, Coded
  <1> QED
    BY <1>1, <1>5, OldCode DEF GoogleFind

\* What a request remembers of a row it found.
LEMMA RowFound ==
    ASSUME IInv, NEW i \in DOMAIN rows
    PROVE  /\ i \in 1..made /\ i \in Ids /\ i \in 0..made /\ made \in Nat
           /\ rows[i] \in Row /\ rows[i].email \in Addresses
           /\ GoodRow(rows[i], i, codes, spent, marks, local)
  <1>1. i \in 1..made /\ made \in Nat /\ i \in Ids
    BY Numbers DEF IInv, Users
  <1>2. GoodRow(rows[i], i, codes, spent, marks, local) /\ rows[i] \in Row
    BY DEF IInv, Users, GoodRow
  <1> QED
    BY <1>1, <1>2 DEF Row

\* A request that goes by the address of a row marks it when it is anonymised.
LEMMA Marked ==
    ASSUME IInv, NEW i \in DOMAIN rows, Addressed(i)
    PROVE  /\ marks \subseteq marks' /\ marks' \subseteq Ids \X Marks
           /\ rows[i].email \notin Emails =>
                 \E j \in Ids : rows[i].email = Anonymised(j) /\ <<j, "addressed">> \in marks'
  <1>1. i \in Ids /\ rows[i].email \in Emails \cup {Anonymised(i)}
    BY RowFound DEF GoodRow
  <1>2. marks' \subseteq Ids \X Marks
    BY <1>1 DEF Addressed, Marks, IInv, Counters
  <1>3. rows[i].email = Anonymised(i) => <<i, "addressed">> \in marks'
    BY DEF Addressed, Deleted
  <1> QED
    BY <1>1, <1>2, <1>3 DEF Addressed

LEMMA NewStoring ==
    ASSUME IInv, NEW h \in Handlers, NEW i \in DOMAIN rows, CodeFind(h, i) \/ DeleteFind(h, i)
    PROVE  IInv'
  <1>1. PICK c \in Codes, s \in Storing, b \in BOOLEAN :
           /\ Generate(c) /\ Ask(h, Of(s, i, c, "random", b))
           /\ s = "codeSave" => Addressed(i)
           /\ s # "codeSave" => marks' = marks
    BY DEF CodeFind, DeleteFind, Storing, ghosts
  <1>2. UNCHANGED <<tables, mailed, entered, stranded, local, spent>>
    BY DEF CodeFind, DeleteFind, ghosts
  <1>3. PICK f : f = Of(s, i, c, "random", b)
    OBVIOUS
  <1>4. f \in Frame /\ f.step = s /\ f.email = rows[i].email /\ f.id = i /\ f.code = c
    <2>1. "random" \in Passwords /\ s \in Steps
      BY DEF Passwords, Steps, Storing
    <2> QED
      BY <1>3, <2>1, RowFound, FrameOf DEF Of
  <1>5. /\ c = codes + 1 /\ codes' = codes + 1 /\ codes' \in 0..MaxCodes
        /\ c \in 1..codes' /\ spent[c] = 0 /\ \A j \in DOMAIN rows : rows[j].token # c
    BY <1>1, Generated
  <1>6. i \in 0..made
    BY RowFound
  <1>7. marks \subseteq marks' /\ marks' \subseteq Ids \X Marks
    BY <1>1, Marked DEF IInv, Counters
  <1>8. Knows(f, rows, made, codes', spent, marks', local)
    <2>1. f.step \in ByAddress /\ f.email \notin Emails =>
             \E j \in Ids : f.email = Anonymised(j) /\ <<j, "addressed">> \in marks'
      BY <1>1, <1>4, Marked DEF Storing, ByAddress
    <2> QED
      BY <1>1, <1>4, <1>5, <1>6, <2>1 DEF Knows, Storing, ByMail
  <1>9. f.code = codes + 1
    BY <1>4, <1>5
  <1> QED
    BY <1>1, <1>2, <1>3, <1>5, <1>7, <1>8, <1>9, AskMarking

LEMMA NewChange ==
    ASSUME IInv, NEW h \in Handlers, NEW i \in DOMAIN rows, NEW c \in mailed,
           NEW p \in Chosen, ChangeFind(h, i, c, p)
    PROVE  IInv'
  <1> PICK b \in BOOLEAN : b = FALSE
    OBVIOUS
  <1>1. PICK f : f = Of("changeSave", i, c, p, b)
    OBVIOUS
  <1>2. c \in 1..codes /\ c \in Codes
    BY Numbers DEF IInv, Counters
  <1>3. f \in Frame /\ f.step = "changeSave" /\ f.id = i /\ f.code = c
    <2>1. p \in Passwords /\ "changeSave" \in Steps
      BY DEF Passwords, Chosen, Steps
    <2> QED
      BY <1>1, <1>2, <2>1, RowFound, FrameOf DEF Of
  <1>4. i \in 0..made
    BY RowFound
  <1>5. Knows(f, rows, made, codes, spent, marks, local) /\ f.step \notin Storing
    BY <1>2, <1>3, <1>4 DEF Knows, Storing, ByMail, ByAddress
  <1> QED
    BY <1>1, <1>5, OldCode DEF ChangeFind

LEMMA NewByEmail ==
    ASSUME IInv, NEW h \in Handlers, NEW i \in DOMAIN rows, NEW p \in Chosen,
           ByEmailFind(h, i, p)
    PROVE  IInv'
  <1> PICK b \in BOOLEAN : b = FALSE
    OBVIOUS
  <1>1. PICK f : f = Of("byEmailSave", i, 0, p, b)
    OBVIOUS
  <1>2. f \in Frame /\ f.step = "byEmailSave" /\ f.id = i /\ f.email = rows[i].email
    <2>1. p \in Passwords /\ "byEmailSave" \in Steps
      BY DEF Passwords, Chosen, Steps
    <2> QED
      BY <1>1, <2>1, RowFound, FrameOf DEF Of
  <1>3. i \in 0..made
    BY RowFound
  <1>4. Addressed(i)
    BY DEF ByEmailFind
  <1>5. f.email \notin Emails =>
           \E j \in Ids : f.email = Anonymised(j) /\ <<j, "addressed">> \in marks'
    BY <1>2, <1>4, Marked
  <1>6. Knows(f, rows, made, codes, spent, marks', local) /\ f.step \notin Storing
    BY <1>2, <1>3, <1>5 DEF Knows, Storing, Coded, ByMail
  <1>7. marks \subseteq marks' /\ marks' \subseteq Ids \X Marks
    BY <1>4, Marked
  <1>8. codes' = codes /\ codes' \in 0..MaxCodes /\ Ask(h, f)
        /\ UNCHANGED <<tables, mailed, entered, stranded, local, spent>>
    BY <1>1 DEF ByEmailFind, IInv, Counters
  <1> QED
    BY <1>6, <1>7, <1>8, AskMarking

\* Requests that remember an account and nothing else that matters.
LEMMA NewSimple ==
    ASSUME IInv, NEW h \in Handlers, NEW i \in DOMAIN rows, NEW s \in Simple,
           NEW e \in Addresses \cup {NoMail}, NEW c \in Codes \cup {0}, NEW p \in Passwords,
           NEW b \in BOOLEAN, NEW f,
           f = [step |-> s, email |-> e, id |-> i, code |-> c, password |-> p, flag |-> b],
           Ask(h, f), UNCHANGED <<tables, mailed, codes, ghosts>>
    PROVE  IInv'
  <1>1. f \in Frame /\ f.step = s /\ f.id = i
    BY RowFound, FrameOf DEF Simple
  <1>2. i \in 0..made
    BY RowFound
  <1>3. Knows(f, rows, made, codes, spent, marks, local) /\ f.step \notin Storing
    BY <1>1, <1>2, SimpleKnows
  <1> QED
    BY <1>3, OldCode

LEMMA NewResetOrConfirm ==
    ASSUME IInv, NEW h \in Handlers, NEW i \in DOMAIN rows,
           \/ ResetFind(h, i)
           \/ \E c \in mailed, p \in Chosen \cup {"admin"} : ConfirmFind(h, i, c, p)
    PROVE  IInv'
  <1>1. PICK s \in {"resetSave", "confirmSave"}, c \in mailed \cup {0},
             p \in {"admin", "random"}, b \in BOOLEAN : Ask(h, Of(s, i, c, p, b))
    BY DEF ResetFind, ConfirmFind
  <1>2. UNCHANGED <<tables, mailed, codes, ghosts>>
    BY DEF ResetFind, ConfirmFind
  <1>3. s \in Simple /\ p \in Passwords
    BY DEF Simple, Steps, Storing, Coded, ByMail, ByAddress, Passwords
  <1>4. c \in Codes \cup {0}
    BY Numbers DEF IInv, Counters
  <1>5. PICK f : f = Of(s, i, c, p, b)
    OBVIOUS
  <1> QED
    BY <1>1, <1>2, <1>3, <1>4, <1>5, RowFound, NewSimple DEF Of

LEMMA NewProfile ==
    ASSUME IInv, NEW h \in Handlers, NEW i \in DOMAIN rows, ProfileFind(h, i)
    PROVE  IInv'
  <1>1. PICK f : f = Having("profileSave", i, rows[i].kyc)
    OBVIOUS
  <1>2. f \in Frame /\ f.step = "profileSave" /\ f.id = i /\ f.flag = rows[i].kyc
    <2>1. "random" \in Passwords /\ "profileSave" \in Steps
      BY DEF Passwords, Steps
    <2>2. rows[i].kyc \in BOOLEAN
      BY RowFound DEF Row
    <2> QED
      BY <1>1, <2>1, <2>2, RowFound, FrameOf DEF Having
  <1>3. i \in 0..made
    BY RowFound
  <1>4. Knows(f, rows, made, codes, spent, marks, local) /\ f.step \notin Storing
    BY <1>2, <1>3 DEF Knows, Storing, Coded, ByMail, ByAddress
  <1> QED
    BY <1>1, <1>4, OldCode DEF ProfileFind

LEMMA NewAdministration ==
    ASSUME IInv, NEW h \in Handlers, NEW i \in DOMAIN rows, NEW b \in BOOLEAN,
           AdminFind(h, i, b) \/ RoleFind(h, i, b) \/ ActiveFind(h, i, b) \/ RemoveFind(h, i)
    PROVE  IInv'
  <1>1. PICK s \in {"adminSave", "roleSave", "activeSave", "removeSave"}, g \in BOOLEAN :
           Ask(h, Having(s, i, g))
    BY DEF AdminFind, RoleFind, ActiveFind, RemoveFind
  <1>2. UNCHANGED <<tables, mailed, codes, ghosts>>
    BY DEF AdminFind, RoleFind, ActiveFind, RemoveFind
  <1>3. s \in Simple /\ "random" \in Passwords
    BY DEF Simple, Steps, Storing, Coded, ByMail, ByAddress, Passwords
  <1>4. PICK f : f = Having(s, i, g)
    OBVIOUS
  <1> QED
    BY <1>1, <1>2, <1>3, <1>4, NewSimple DEF Having

LEMMA NewAdminCreate ==
    ASSUME IInv, NEW h \in Handlers, NEW e \in Emails, AdminCreateFind(h, e)
    PROVE  IInv'
  <1> PICK b \in BOOLEAN : b = FALSE
    OBVIOUS
  <1>1. PICK f : f = [step |-> "adminCreate", email |-> e, id |-> 0, code |-> 0,
                      password |-> "admin", flag |-> b]
    OBVIOUS
  <1>2. f \in Frame /\ f.step = "adminCreate" /\ f.email = e /\ f.id = 0
    <2>1. "admin" \in Passwords /\ "adminCreate" \in Steps
      BY DEF Passwords, Steps
    <2> QED
      BY <1>1, <2>1, FrameOf DEF Addresses
  <1>3. made \in Nat
    BY Numbers DEF IInv
  <1>4. Knows(f, rows, made, codes, spent, marks, local) /\ f.step \notin Storing
    BY <1>2, <1>3 DEF Knows, Storing, Coded
  <1> QED
    BY <1>1, <1>4, OldCode DEF AdminCreateFind

-----------------------------------------------------------------------------
(* Statements on the temporary rows, and mails. *)

\* A request goes on to a step that needs what it knows already, and no row
\* changes.
LEMMA GoOn ==
    ASSUME IInv, NEW h \in Handlers, NEW s \in Steps \ (Storing \cup
               {"byEmailSave", "googleTransaction", "googleProvider", "profileSave"}),
           s \in Coded => req[h].step \in Coded, s \in ByMail => req[h].step \in ByMail,
           Then(h, s), UNCHANGED Rest, Counters', codes' = codes, EnteredCanRegister'
    PROVE  IInv'
  <1>1. PICK f : f = [step |-> s, email |-> req[h].email, id |-> req[h].id,
                      code |-> req[h].code, password |-> req[h].password,
                      flag |-> req[h].flag]
    OBVIOUS
  <1>2. Knows(req[h], rows, made, codes, spent, marks, local) /\ req[h] \in Frame
    BY DEF IInv, Requests, Knows
  <1>3. /\ f \in Frame /\ f.step = s /\ f.id = req[h].id /\ f.email = req[h].email
        /\ f.code = req[h].code
    BY <1>1, <1>2 DEF Frame
  <1>4. Knows(f, rows, made, codes, spent, marks, local) /\ f.step \notin Storing
    BY <1>2, <1>3 DEF Knows, Storing, ByAddress
  <1>5. codes \in Nat /\ codes <= codes' /\ req' = [req EXCEPT ![h] = f]
    BY <1>1, Numbers DEF IInv, Then
  <1>6. \A k \in Handlers \ {h} :
           f.step \in Storing /\ req[k].step \in Storing => f.code # req[k].code
    BY <1>4
  <1> QED
    BY <1>4, <1>5, <1>6, QuietStep

\* What a request with a code and a mail has.
LEMMA HasCode ==
    ASSUME IInv, NEW h \in Handlers, req[h].step \in Coded
    PROVE  req[h].code \in 1..codes /\ req[h].code \in Codes
  BY Numbers DEF IInv, Requests, Knows

LEMMA HasMail ==
    ASSUME IInv, NEW h \in Handlers, req[h].step \in ByMail
    PROVE  req[h].email \in Emails
  BY DEF IInv, Requests, Knows

\* A temporary row gets a code, or its code is cleared.
LEMMA TempWrite ==
    ASSUME IInv, NEW e \in Emails, NEW c \in Codes \cup {NoRow, Used},
           temp' = [temp EXCEPT ![e] = c]
    PROVE  /\ temp' \in [Emails -> Codes \cup {NoRow, Used}]
           /\ temp'[e] = c /\ \A d \in Emails \ {e} : temp'[d] = temp[d]
  BY DEF IInv, Counters

LEMMA StepTempCreate ==
    ASSUME IInv, NEW h \in Handlers, TempCreate(h)
    PROVE  IInv'
  <1>1. req[h].email \in Emails /\ req[h].code \in Codes /\ req[h].code \in 1..codes
    BY HasMail, HasCode DEF TempCreate, At, ByMail, Coded
  <1>2. /\ Answer(h) /\ At(h, "tempCreate")
        /\ UNCHANGED <<rows, made, codes, asked, entered, stranded, marks, local, spent>>
    BY DEF TempCreate, ghosts
  <1>3. \/ temp' = temp
        \/ temp[req[h].email] = NoRow /\ temp' = [temp EXCEPT ![req[h].email] = req[h].code]
    BY DEF TempCreate
  <1>4. mailed' \subseteq 1..codes
    BY <1>1 DEF TempCreate, IInv, Counters
  <1>5. temp' \in [Emails -> Codes \cup {NoRow, Used}]
    BY <1>1, <1>3, TempWrite DEF IInv, Counters
  <1>6. \A e \in Emails : temp[e] # NoRow => temp'[e] # NoRow
    <2>1. CASE temp' = temp
      BY <2>1
    <2>2. CASE temp[req[h].email] = NoRow /\ temp' = [temp EXCEPT ![req[h].email] = req[h].code]
      BY <1>1, <2>2, TempWrite, Numbers DEF IInv
    <2> QED
      BY <1>3, <2>1, <2>2
  <1>7. Counters' /\ UNCHANGED Rest
    BY <1>2, <1>4, <1>5 DEF IInv, Counters, Rest
  <1>8. entered' = entered /\ entered \subseteq Emails
    BY <1>2 DEF IInv, Counters
  <1>9. EnteredCanRegister'
    BY <1>2, <1>6, <1>8, StillOpen DEF IInv, Requests, At, Answer
  <1> QED
    BY <1>2, <1>7, <1>9, AnswerStep

LEMMA StepMobileSave ==
    ASSUME IInv, NEW h \in Handlers, MobileSave(h)
    PROVE  IInv'
  <1>1. req[h].email \in Emails /\ req[h].code \in Codes
    BY HasMail, HasCode DEF MobileSave, At, ByMail, Coded
  <1>2. /\ Then(h, "tempMail") /\ At(h, "mobileSave")
        /\ UNCHANGED <<rows, made, mailed, codes, asked, entered, stranded, marks, local,
                       spent>>
    BY DEF MobileSave, ghosts
  <1>3. temp' = [temp EXCEPT ![req[h].email] = req[h].code]
    BY DEF MobileSave
  <1>4. temp' \in [Emails -> Codes \cup {NoRow, Used}]
    BY <1>1, <1>3, TempWrite
  <1>5. Counters' /\ UNCHANGED Rest
    BY <1>2, <1>4 DEF IInv, Counters, Rest
  <1>6. \A e \in entered : temp[e] # NoRow => temp'[e] # NoRow
    BY <1>1, <1>3, Numbers DEF IInv, Counters
  <1>7. EnteredCanRegister'
    BY <1>2, <1>6, StillOpen DEF IInv, Requests, At, Then
  <1> QED
    BY <1>2, <1>5, <1>7, GoOn DEF At, Steps, Storing, Coded, ByMail

LEMMA StepMail ==
    ASSUME IInv, NEW h \in Handlers, TempMail(h) \/ CodeMail(h) \/ DeleteMail(h)
    PROVE  IInv'
  <1>1. /\ Answer(h) /\ ~At(h, "registerCreate") /\ mailed' = mailed \cup {req[h].code}
        /\ UNCHANGED <<temp, rows, made, codes, asked, entered, stranded, marks, local,
                       spent>>
    BY DEF TempMail, CodeMail, DeleteMail, Mail, At, tables, ghosts
  <1>2. req[h].code \in 1..codes
    BY HasCode DEF TempMail, CodeMail, DeleteMail, At, Coded
  <1>3. Counters' /\ UNCHANGED Rest
    BY <1>1, <1>2 DEF IInv, Counters, Rest
  <1>4. EnteredCanRegister'
    BY <1>1, StillOpen DEF IInv, Requests, Answer
  <1> QED
    BY <1>1, <1>3, <1>4, AnswerStep

LEMMA StepVerifySave ==
    ASSUME IInv, NEW h \in Handlers, VerifySave(h)
    PROVE  IInv'
  <1>1. req[h].email \in Emails
    BY HasMail DEF VerifySave, At, ByMail
  <1>2. /\ Answer(h) /\ At(h, "verifySave") /\ entered' = entered \cup {req[h].email}
        /\ UNCHANGED <<rows, made, mailed, codes, asked, stranded, marks, local, spent>>
    BY DEF VerifySave
  <1>3. temp' = [temp EXCEPT ![req[h].email] = Used]
    BY DEF VerifySave
  <1>4. temp' \in [Emails -> Codes \cup {NoRow, Used}]
    BY <1>1, <1>3, TempWrite
  <1>5. Counters' /\ UNCHANGED Rest
    BY <1>1, <1>2, <1>4 DEF IInv, Counters, Rest
  <1>6. /\ \A e \in entered' : temp[e] # NoRow => temp'[e] # NoRow
        /\ \A e \in entered' : e \in entered \/ temp'[e] # NoRow
    BY <1>1, <1>2, <1>3 DEF IInv, Counters, NoRow, Used
  <1>7. EnteredCanRegister'
    BY <1>2, <1>6, StillOpen DEF IInv, Requests, At, Answer
  <1> QED
    BY <1>2, <1>5, <1>7, AnswerStep

\* register: the mail loses its row to the request that will create its account.
LEMMA StepRegisterDelete ==
    ASSUME IInv, NEW h \in Handlers, RegisterDelete(h)
    PROVE  IInv'
  <1>1. req[h].email \in Emails
    BY HasMail DEF RegisterDelete, At, ByMail
  <1>2. /\ Then(h, "registerCreate") /\ At(h, "registerDelete")
        /\ UNCHANGED <<rows, made, mailed, codes, asked, entered, stranded, marks, local,
                       spent>>
    BY DEF RegisterDelete, ghosts
  <1>3. temp' = [temp EXCEPT ![req[h].email] = NoRow]
    BY DEF RegisterDelete
  <1>4. temp' \in [Emails -> Codes \cup {NoRow, Used}]
    BY <1>1, <1>3, TempWrite
  <1>5. Counters' /\ UNCHANGED Rest
    BY <1>2, <1>4 DEF IInv, Counters, Rest
  <1>6. /\ \A e \in entered : e # req[h].email => temp'[e] = temp[e]
        /\ req'[h].step = "registerCreate" /\ req'[h].email = req[h].email
        /\ \A k \in Handlers \ {h} : req'[k] = req[k]
    BY <1>2, <1>3 DEF IInv, Counters, Requests, Then
  <1>7. EnteredCanRegister'
    BY <1>2, <1>6 DEF IInv, EnteredCanRegister, At
  <1> QED
    BY <1>2, <1>5, <1>7, GoOn DEF At, Steps, Storing, Coded, ByMail

\* Requests that are refused.
LEMMA StepRefused ==
    ASSUME IInv, NEW h \in Handlers, NEW s, NEW ok, Refused(h, s, ok), s # "registerCreate"
    PROVE  IInv'
  <1>1. /\ Answer(h) /\ ~At(h, "registerCreate")
        /\ UNCHANGED <<temp, rows, made, mailed, codes, asked, entered, stranded, marks,
                       local, spent>>
    BY DEF Refused, At, tables, ghosts
  <1>2. Counters' /\ UNCHANGED Rest
    BY <1>1 DEF IInv, Counters, Rest
  <1>3. EnteredCanRegister'
    BY <1>1, StillOpen DEF IInv, Requests, Answer
  <1> QED
    BY <1>1, <1>2, <1>3, AnswerStep

LEMMA StepFail ==
    ASSUME IInv, NEW h \in Handlers, Fail(h)
    PROVE  IInv'
  <1>1. /\ Answer(h) /\ (At(h, "registerCreate") => req[h].email \in stranded')
        /\ stranded \subseteq stranded'
        /\ UNCHANGED <<temp, rows, made, mailed, codes, asked, entered, marks, local, spent>>
    BY DEF Fail, tables
  <1>2. Counters' /\ UNCHANGED Rest
    BY <1>1 DEF IInv, Counters, Rest
  <1>3. EnteredCanRegister'
    BY <1>1, StillOpen DEF IInv, Requests, Answer
  <1> QED
    BY <1>1, <1>2, <1>3, AnswerStep

-----------------------------------------------------------------------------
(***************************************************************************)
(* Statements that write a row.                                            *)
(***************************************************************************)

\* What the others know survives a row written by what it may become: its mail
\* only changes to its anonymised one, its code to none or to one nobody is about to store,
\* a Google provider only goes with the mail, and an approval marks whoever is
\* saving the profile.  A code is spent by the row that has it.
Becomes(i, r) ==
    /\ GoodRow(r, i, codes', spent', marks', local')
    /\ r.email # rows[i].email => r.email = Anonymised(i)
    /\ \/ r.token = 0
       \/ r.token = rows[i].token
       \/ \A j \in DOMAIN rows : rows[j].token # r.token
    /\ \A k \in Handlers :
          r.token # 0 /\ req'[k].step \in Storing => req'[k].code # r.token
    /\ r.google = FALSE /\ r.email # Anonymised(i) => rows[i].google = FALSE
    /\ r.kyc = TRUE /\ rows[i].kyc = FALSE =>
          \A k \in Handlers : req'[k].step = "profileSave" /\ req'[k].id = i
             /\ req'[k].flag = FALSE => <<i, "profile">> \in marks'
    /\ \A j \in Ids, w \in Marks :
          <<j, w>> \in marks =>
             \/ <<j, w>> \in marks'
             \/ j = i /\ (w = "uncopied" \/ (w = "profile" /\ r.kyc = FALSE))
    /\ \A c \in Codes : spent'[c] = spent[c] \/ c = rows[i].token

\* A row that is written is still good, and so are the others.
LEMMA WriteUsers ==
    ASSUME IInv, NEW i \in DOMAIN rows, NEW r, rows' = [rows EXCEPT ![i] = r], Becomes(i, r),
           UNCHANGED <<made, codes, local>>
    PROVE  Users' /\ Unique'
  <1>1. DOMAIN rows' = DOMAIN rows /\ rows'[i] = r /\ \A j \in DOMAIN rows \ {i} : rows'[j] = rows[j]
    OBVIOUS
  <1>2. ASSUME NEW j \in DOMAIN rows \ {i}
        PROVE  GoodRow(rows[j], j, codes, spent', marks', local)
    <2>1. GoodRow(rows[j], j, codes, spent, marks, local) /\ j \in Ids
      BY RowFound
    <2>2. rows[j].token # 0 => rows[j].token # rows[i].token
      BY DEF IInv, Unique
    <2>3. rows[j].token # 0 => rows[j].token \in Codes
      BY RowFound DEF Row
    <2>4. rows[j].token # 0 => spent'[rows[j].token] = spent[rows[j].token]
      BY <2>2, <2>3 DEF Becomes
    <2>5. \A w \in Marks : <<j, w>> \in marks => <<j, w>> \in marks'
      BY <2>1 DEF Becomes
    <2> QED
      BY <2>1, <2>4, <2>5 DEF GoodRow, Marks
  <1>3. Users'
    BY <1>1, <1>2 DEF Users, IInv, Becomes
  <1>4. Unique'
    <2>1. ASSUME NEW j \in DOMAIN rows \ {i}
          PROVE  /\ r.email # rows[j].email
                 /\ r.token = rows[j].token => r.token = 0
      <3>1. j # i /\ i \in Ids /\ rows[j].email \in Emails \cup {Anonymised(j)}
        BY RowFound DEF GoodRow
      <3>2. rows[j].email # Anonymised(i)
        BY <3>1, Apart
      <3>3. rows[j].email # rows[i].email
        BY <3>1 DEF IInv, Unique
      <3>4. r.token = rows[j].token => r.token = 0
        BY DEF Becomes, IInv, Unique
      <3> QED
        BY <3>2, <3>3, <3>4 DEF Becomes
    <2>2. ASSUME NEW j \in DOMAIN rows, NEW k \in DOMAIN rows, j # k
          PROVE  /\ rows'[j].email # rows'[k].email
                 /\ rows'[j].token = rows'[k].token => rows'[j].token = 0
      <3>1. CASE j = i
        BY <1>1, <2>1, <2>2, <3>1
      <3>2. CASE k = i
        BY <1>1, <2>1, <2>2, <3>2
      <3>3. CASE j # i /\ k # i
        BY <1>1, <2>2, <3>3 DEF IInv, Unique
      <3> QED
        BY <3>1, <3>2, <3>3
    <2> QED
      BY <1>1, <2>2 DEF Unique
  <1> QED
    BY <1>3, <1>4

LEMMA WriteKnows ==
    ASSUME IInv, NEW i \in DOMAIN rows, NEW r, rows' = [rows EXCEPT ![i] = r], Becomes(i, r),
           NEW k \in Handlers, req'[k] = req[k], UNCHANGED <<made, codes, local>>
    PROVE  Knows(req[k], rows', made, codes, spent', marks', local)
  <1>1. DOMAIN rows' = DOMAIN rows /\ rows'[i] = r /\ \A j \in DOMAIN rows \ {i} : rows'[j] = rows[j]
    OBVIOUS
  <1>2. /\ req[k] \in Frame /\ req[k].id \in 0..made
        /\ req[k].step \in Coded => req[k].code \in 1..codes
        /\ req[k].step \in ByMail => req[k].email \in Emails
    BY DEF IInv, Requests, Knows
  <1>8. ASSUME req[k].step \in ByAddress, req[k].email \notin Emails
        PROVE  \E j \in Ids : req[k].email = Anonymised(j) /\ <<j, "addressed">> \in marks'
    <2>1. PICK j \in Ids : req[k].email = Anonymised(j) /\ <<j, "addressed">> \in marks
      BY <1>8 DEF IInv, Requests, Knows
    <2>2. <<j, "addressed">> \in marks'
      BY <2>1 DEF Becomes, Marks
    <2> QED
      BY <2>1, <2>2
  <1>3. /\ DOMAIN rows \subseteq Ids /\ 1..made \subseteq Ids /\ made \in Nat
        /\ local \subseteq 1..made
    BY Numbers DEF IInv, Users, Counters
  <1>4. req[k].step \in Storing =>
           spent'[req[k].code] = 0 /\ \A j \in DOMAIN rows' : rows'[j].token # req[k].code
    <2> SUFFICES ASSUME req[k].step \in Storing
                 PROVE  spent'[req[k].code] = 0 /\ \A j \in DOMAIN rows' : rows'[j].token # req[k].code
      OBVIOUS
    <2>1. req[k].code \in Codes /\ req[k].code # 0
      BY HasCode, Numbers DEF Coded, IInv
    <2>2. spent[req[k].code] = 0 /\ \A j \in DOMAIN rows : rows[j].token # req[k].code
      BY DEF IInv, Requests, Knows
    <2>3. spent'[req[k].code] = spent[req[k].code]
      BY <2>1, <2>2 DEF Becomes
    <2>4. r.token # req[k].code
      BY <2>1 DEF Becomes
    <2> QED
      BY <1>1, <2>2, <2>3, <2>4
  <1>5. ASSUME NEW j \in DOMAIN rows, req[k].step = "googleTransaction",
               rows'[j].email = req[k].email, rows'[j].google = FALSE, j \in local
        PROVE  <<j, "google">> \in marks'
    <2>1. req[k].email \in Emails /\ req[k].email # Anonymised(i)
      BY <1>2, <1>5, RowFound, Apart DEF ByMail
    <2>2. rows[j].email = req[k].email /\ rows[j].google = FALSE
      BY <1>1, <1>5, <2>1 DEF Becomes
    <2>3. <<j, "google">> \in marks
      BY <1>5, <2>2 DEF IInv, Requests, Knows
    <2> QED
      BY <1>3, <2>3 DEF Becomes, Marks
  <1>6. req[k].step = "googleProvider" /\ req[k].id \in local => <<req[k].id, "google">> \in marks'
    BY <1>3 DEF Becomes, Marks, IInv, Requests, Knows
  <1>7. ASSUME req[k].step = "profileSave", req[k].flag = FALSE, req[k].id \in DOMAIN rows,
               rows'[req[k].id].kyc = TRUE
        PROVE  <<req[k].id, "profile">> \in marks'
    <2>1. CASE req[k].id # i
      BY <1>1, <1>3, <1>7, <2>1 DEF Becomes, Marks, IInv, Requests, Knows
    <2>2. CASE req[k].id = i /\ rows[i].kyc = TRUE
      BY <1>1, <1>3, <1>7, <2>2 DEF Becomes, Marks, IInv, Requests, Knows
    <2>3. CASE req[k].id = i /\ rows[i].kyc # TRUE
      <3>1. rows[i].kyc \in BOOLEAN
        BY RowFound DEF Row
      <3>2. rows[i].kyc = FALSE /\ r.kyc = TRUE
        BY <1>1, <1>7, <2>3, <3>1
      <3> QED
        BY <1>7, <2>3, <3>2 DEF Becomes
    <2> QED
      BY <2>1, <2>2, <2>3
  <1> QED
    BY <1>1, <1>2, <1>4, <1>5, <1>6, <1>7, <1>8 DEF Knows

\* What goes on around a row that is written.
Around ==
    /\ UNCHANGED <<temp, made, mailed, codes, entered, stranded, local>>
    /\ asked' \in 0..MaxRequests /\ marks' \subseteq Ids \X Marks
    /\ spent' \in [Codes -> Nat] /\ \A c \in Codes : spent'[c] <= 1

LEMMA WriteStep ==
    ASSUME IInv, Around, NEW i \in DOMAIN rows, NEW r, rows' = [rows EXCEPT ![i] = r],
           Becomes(i, r), req' = [k \in Handlers |-> req'[k]],
           \A k \in Handlers :
              \/ req'[k] = req[k]
              \/ /\ req'[k].step \notin Storing /\ ~At(k, "registerCreate")
                 /\ Knows(req'[k], rows', made, codes, spent', marks', local)
    PROVE  IInv'
  <1>1. UNCHANGED <<temp, made, mailed, codes, entered, stranded, local>>
    BY DEF Around
  <1>2. Users' /\ Unique'
    BY <1>1, WriteUsers
  <1>3. \A k \in Handlers : Knows(req'[k], rows', made', codes', spent', marks', local')
    BY <1>1, WriteKnows
  <1>4. \A k, l \in Handlers :
           k # l /\ req'[k].step \in Storing /\ req'[l].step \in Storing =>
              req'[k].code # req'[l].code
    BY DEF IInv, Requests
  <1>5. Requests'
    BY <1>3, <1>4 DEF Requests
  <1>6. \A c \in Codes : c > codes => spent'[c] = 0
    <2>1. rows[i].token \in 0..codes /\ codes \in Nat
      BY RowFound, Numbers DEF GoodRow, IInv
    <2> QED
      BY <2>1 DEF Becomes, IInv, Counters, Codes
  <1>7. Counters'
    BY <1>1, <1>6 DEF Around, IInv, Counters
  <1>8. EnteredCanRegister'
    BY <1>1 DEF IInv, EnteredCanRegister, At
  <1> QED
    BY <1>2, <1>5, <1>7, <1>8 DEF IInv

\* The request answers after it wrote the row.
LEMMA WriteAnswer ==
    ASSUME IInv, Around, NEW i \in DOMAIN rows, NEW r, rows' = [rows EXCEPT ![i] = r],
           Becomes(i, r), NEW h \in Handlers, Answer(h), ~At(h, "registerCreate")
    PROVE  IInv'
  <1>1. codes \in Nat /\ made \in Nat
    BY Numbers DEF IInv
  <1>2. Knows(Idle, rows', made, codes, spent', marks', local)
    BY <1>1, IdleKnows
  <1>3. req' = [k \in Handlers |-> req'[k]]
    BY DEF IInv, Requests, Answer
  <1>4. req'[h] = Idle /\ \A k \in Handlers \ {h} : req'[k] = req[k]
    BY DEF IInv, Requests, Answer
  <1>5. Idle.step \notin Storing
    BY DEF Idle, Storing
  <1>6. \A k \in Handlers :
              \/ req'[k] = req[k]
              \/ /\ req'[k].step \notin Storing /\ ~At(k, "registerCreate")
                 /\ Knows(req'[k], rows', made, codes, spent', marks', local)
    BY <1>2, <1>4, <1>5
  <1> QED
    BY <1>3, <1>6, WriteStep

\* The request goes on to mail the code it wrote.
LEMMA WriteGoOn ==
    ASSUME IInv, Around, NEW i \in DOMAIN rows, NEW r, rows' = [rows EXCEPT ![i] = r],
           Becomes(i, r), NEW h \in Handlers, NEW s \in {"codeMail", "deleteMail"},
           Then(h, s), req[h].step \in Storing
    PROVE  IInv'
  <1>1. PICK f : f = [step |-> s, email |-> req[h].email, id |-> req[h].id,
                      code |-> req[h].code, password |-> req[h].password,
                      flag |-> req[h].flag]
    OBVIOUS
  <1>2. Knows(req[h], rows, made, codes, spent, marks, local) /\ req[h] \in Frame
    BY DEF IInv, Requests, Knows
  <1>3. /\ f \in Frame /\ f.step = s /\ f.id = req[h].id /\ f.code = req[h].code
    BY <1>1, <1>2 DEF Frame, Steps
  <1>4. Knows(f, rows', made, codes, spent', marks', local) /\ f.step \notin Storing
    BY <1>2, <1>3 DEF Knows, Storing, Coded, ByMail, ByAddress
  <1>5. req' = [k \in Handlers |-> req'[k]]
    BY DEF IInv, Requests, Then
  <1>6. req'[h] = f /\ \A k \in Handlers \ {h} : req'[k] = req[k]
    BY <1>1 DEF IInv, Requests, Then
  <1>7. ~At(h, "registerCreate")
    BY DEF At, Storing
  <1>8. \A k \in Handlers :
              \/ req'[k] = req[k]
              \/ /\ req'[k].step \notin Storing /\ ~At(k, "registerCreate")
                 /\ Knows(req'[k], rows', made, codes, spent', marks', local)
    BY <1>4, <1>6, <1>7
  <1> QED
    BY <1>5, <1>8, WriteStep

\* No request that stays is about to store a code that a row has.
LEMMA NotStored ==
    ASSUME IInv, NEW i \in DOMAIN rows, NEW h \in Handlers, Answer(h)
    PROVE  \A k \in Handlers : req'[k].step \in Storing => req'[k].code # rows[i].token
  <1>1. req'[h].step \notin Storing /\ \A k \in Handlers \ {h} : req'[k] = req[k]
    BY DEF IInv, Requests, Answer, Idle, Storing
  <1> QED
    BY <1>1 DEF IInv, Requests, Knows

\* A write that touches neither mail nor approval, and at most clears the code.
LEMMA PlainWrite ==
    ASSUME IInv, UNCHANGED <<temp, made, mailed, codes, asked, ghosts>>,
           NEW i \in DOMAIN rows, NEW r, rows' = [rows EXCEPT ![i] = r],
           GoodRow(r, i, codes, spent, marks, local), r.email = rows[i].email,
           r.token \in {0, rows[i].token}, r.google = FALSE => rows[i].google = FALSE,
           r.kyc = rows[i].kyc, NEW h \in Handlers, Answer(h), ~At(h, "registerCreate")
    PROVE  IInv'
  <1>1. UNCHANGED <<temp, made, mailed, codes, asked, entered, stranded, local, marks, spent>>
    BY DEF ghosts
  <1>2. Around
    BY <1>1 DEF Around, IInv, Counters
  <1>3. Becomes(i, r)
    BY <1>1, NotStored DEF Becomes
  <1> QED
    BY <1>2, <1>3, WriteAnswer

LEMMA StepGoogleProvider ==
    ASSUME IInv, NEW h \in Handlers, GoogleProvider(h)
    PROVE  IInv'
  <1> PICK b \in BOOLEAN : b = TRUE
    OBVIOUS
  <1>1. PICK i : i = req[h].id
    OBVIOUS
  <1>2. i \in DOMAIN rows
    BY <1>1 DEF GoogleProvider
  <1>3. PICK r : r = [rows[i] EXCEPT !.google = b]
    OBVIOUS
  <1>4. /\ r \in Row /\ r.google = TRUE /\ r.email = rows[i].email
        /\ r.token = rows[i].token /\ r.kyc = rows[i].kyc /\ r.name = rows[i].name
        /\ r.password = rows[i].password
    BY <1>2, <1>3, RowFound DEF Row
  <1>5. i \in local => <<i, "google">> \in marks
    BY <1>1 DEF GoogleProvider, At, IInv, Requests, Knows
  <1>6. GoodRow(r, i, codes, spent, marks, local)
    BY <1>2, <1>4, <1>5, RowFound DEF GoodRow
  <1>7. /\ rows' = [rows EXCEPT ![i] = r] /\ Answer(h) /\ ~At(h, "registerCreate")
        /\ UNCHANGED <<temp, made, mailed, codes, asked, ghosts>>
    BY <1>1, <1>3 DEF GoogleProvider, Write, At
  <1> QED
    BY <1>2, <1>4, <1>6, <1>7, PlainWrite

LEMMA StepResetSave ==
    ASSUME IInv, NEW h \in Handlers, ResetSave(h)
    PROVE  IInv'
  <1>1. PICK i : i = req[h].id
    OBVIOUS
  <1>2. i \in DOMAIN rows
    BY <1>1 DEF ResetSave
  <1>3. PICK r : r = [rows[i] EXCEPT !.password = "admin"]
    OBVIOUS
  <1>4. /\ r \in Row /\ r.google = rows[i].google /\ r.email = rows[i].email
        /\ r.token = rows[i].token /\ r.kyc = rows[i].kyc /\ r.name = rows[i].name
        /\ r.password \notin Chosen
    BY <1>2, <1>3, RowFound DEF Row, Passwords, Chosen
  <1>5. GoodRow(r, i, codes, spent, marks, local)
    BY <1>2, <1>4, RowFound DEF GoodRow
  <1>6. /\ rows' = [rows EXCEPT ![i] = r] /\ Answer(h) /\ ~At(h, "registerCreate")
        /\ UNCHANGED <<temp, made, mailed, codes, asked, ghosts>>
    BY <1>1, <1>3 DEF ResetSave, Write, At
  <1> QED
    BY <1>2, <1>4, <1>5, <1>6, PlainWrite

LEMMA StepRoleSave ==
    ASSUME IInv, NEW h \in Handlers, RoleSave(h)
    PROVE  IInv'
  <1>1. PICK i : i = req[h].id
    OBVIOUS
  <1>2. i \in DOMAIN rows
    BY <1>1 DEF RoleSave, Saves
  <1>3. PICK w \in {"client", "staff"} : w = IF req[h].flag THEN "client" ELSE "staff"
    OBVIOUS
  <1>4. PICK r : r = [rows[i] EXCEPT !.role = w]
    OBVIOUS
  <1>5. /\ r \in Row /\ r.google = rows[i].google /\ r.email = rows[i].email
        /\ r.token = rows[i].token /\ r.kyc = rows[i].kyc /\ r.name = rows[i].name
        /\ r.password = rows[i].password
    BY <1>2, <1>4, RowFound DEF Row
  <1>6. GoodRow(r, i, codes, spent, marks, local)
    BY <1>2, <1>5, RowFound DEF GoodRow
  <1>7. /\ rows' = [rows EXCEPT ![i] = r] /\ Answer(h) /\ ~At(h, "registerCreate")
        /\ UNCHANGED <<temp, made, mailed, codes, asked, ghosts>>
    BY <1>1, <1>3, <1>4 DEF RoleSave, Saves, Write, At
  <1> QED
    BY <1>2, <1>5, <1>6, <1>7, PlainWrite

LEMMA StepActiveSave ==
    ASSUME IInv, NEW h \in Handlers, ActiveSave(h)
    PROVE  IInv'
  <1>1. PICK i, b : i = req[h].id /\ b = req[h].flag
    OBVIOUS
  <1>2. i \in DOMAIN rows /\ b \in BOOLEAN
    BY <1>1 DEF ActiveSave, Saves, IInv, Requests, Knows, Frame
  <1>3. PICK r : r = [rows[i] EXCEPT !.active = b]
    OBVIOUS
  <1>4. /\ r \in Row /\ r.google = rows[i].google /\ r.email = rows[i].email
        /\ r.token = rows[i].token /\ r.kyc = rows[i].kyc /\ r.name = rows[i].name
        /\ r.password = rows[i].password
    BY <1>2, <1>3, RowFound DEF Row
  <1>5. GoodRow(r, i, codes, spent, marks, local)
    BY <1>2, <1>4, RowFound DEF GoodRow
  <1>6. /\ rows' = [rows EXCEPT ![i] = r] /\ Answer(h) /\ ~At(h, "registerCreate")
        /\ UNCHANGED <<temp, made, mailed, codes, asked, ghosts>>
    BY <1>1, <1>3 DEF ActiveSave, Saves, Write, At
  <1> QED
    BY <1>2, <1>4, <1>5, <1>6, PlainWrite

LEMMA StepProfileSave ==
    ASSUME IInv, NEW h \in Handlers, ProfileSave(h)
    PROVE  IInv'
  <1> PICK b \in BOOLEAN : b = TRUE
    OBVIOUS
  <1>1. PICK i : i = req[h].id
    OBVIOUS
  <1>2. i \in DOMAIN rows
    BY <1>1 DEF ProfileSave, Saves
  <1>3. PICK n : n = IF req[h].flag THEN rows[i].name ELSE "own"
    OBVIOUS
  <1>4. n \in {"own", "admin", "kyc", "anonymous"}
    BY <1>2, <1>3, RowFound DEF Row
  <1>5. PICK q : q = rows[i]
    OBVIOUS
  <1>6. PICK r : r = [q EXCEPT !.name = n, !.info = b]
    OBVIOUS
  <1>7. q \in Row
    BY <1>2, <1>5, RowFound
  <1>8. /\ r \in Row /\ r.token = q.token /\ r.password = q.password /\ r.email = q.email
        /\ r.google = q.google /\ r.name = n /\ r.kyc = q.kyc
    BY <1>4, <1>6, <1>7 DEF Row
  <1>9. req[h].flag = FALSE /\ rows[i].kyc = TRUE => <<i, "profile">> \in marks
    BY <1>1, <1>2 DEF ProfileSave, Saves, At, IInv, Requests, Knows
  <1>10. req[h].flag \in BOOLEAN
    BY DEF IInv, Requests, Knows, Frame
  <1>11. q.kyc = TRUE /\ <<i, "uncopied">> \notin marks /\ <<i, "profile">> \notin marks => n \in {"kyc", "admin"}
    BY <1>2, <1>3, <1>5, <1>9, <1>10, RowFound DEF GoodRow
  <1>12. GoodRow(r, i, codes, spent, marks, local)
    BY <1>2, <1>5, <1>8, <1>11, RowFound DEF GoodRow
  <1>13. /\ rows' = [rows EXCEPT ![i] = r] /\ Answer(h) /\ ~At(h, "registerCreate")
         /\ UNCHANGED <<temp, made, mailed, codes, asked, ghosts>>
    BY <1>1, <1>3, <1>5, <1>6 DEF ProfileSave, Saves, Write, At
  <1>14. r.email = rows[i].email /\ r.token \in {0, rows[i].token} /\ r.kyc = rows[i].kyc
         /\ (r.google = FALSE => rows[i].google = FALSE)
    BY <1>5, <1>8
  <1> QED
    BY <1>2, <1>12, <1>13, <1>14, PlainWrite

LEMMA StepAdminSave ==
    ASSUME IInv, NEW h \in Handlers, AdminSave(h)
    PROVE  IInv'
  <1>1. PICK i : i = req[h].id
    OBVIOUS
  <1>2. i \in DOMAIN rows
    BY <1>1 DEF AdminSave, Saves
  <1>3. PICK w : w = IF req[h].flag THEN "staff" ELSE rows[i].role
    OBVIOUS
  <1>4. w \in {"client", "staff"}
    BY <1>2, <1>3, RowFound DEF Row
  <1>5. PICK q : q = rows[i]
    OBVIOUS
  <1>6. PICK r : r = [q EXCEPT !.name = "admin", !.role = w]
    OBVIOUS
  <1>7. q \in Row
    BY <1>2, <1>5, RowFound
  <1>8. /\ r \in Row /\ r.token = q.token /\ r.password = q.password /\ r.email = q.email
        /\ r.google = q.google /\ r.name = "admin" /\ r.kyc = q.kyc
    BY <1>4, <1>6, <1>7 DEF Row
  <1>9. GoodRow(r, i, codes, spent, marks, local)
    BY <1>2, <1>5, <1>8, RowFound DEF GoodRow
  <1>10. /\ rows' = [rows EXCEPT ![i] = r] /\ Answer(h) /\ ~At(h, "registerCreate")
         /\ UNCHANGED <<temp, made, mailed, codes, asked, ghosts>>
    BY <1>1, <1>3, <1>5, <1>6 DEF AdminSave, Saves, Write, At
  <1>11. r.email = rows[i].email /\ r.token \in {0, rows[i].token} /\ r.kyc = rows[i].kyc
         /\ (r.google = FALSE => rows[i].google = FALSE)
    BY <1>5, <1>8
  <1> QED
    BY <1>2, <1>9, <1>10, <1>11, PlainWrite

\* A row that is found by its address and is anonymised was marked.
LEMMA ByItsAddress ==
    ASSUME IInv, NEW h \in Handlers, req[h].step \in ByAddress, NEW i \in IdsOf(req[h].email)
    PROVE  i \in DOMAIN rows /\ (rows[i].email = Anonymised(i) => <<i, "addressed">> \in marks)
  <1>1. i \in DOMAIN rows /\ rows[i].email = req[h].email
    BY DEF IdsOf
  <1>2. i \in Ids
    BY <1>1, RowFound
  <1>3. ASSUME rows[i].email = Anonymised(i)
        PROVE  <<i, "addressed">> \in marks
    <2>1. req[h].email \notin Emails
      BY <1>1, <1>2, <1>3, Apart
    <2>2. PICK j \in Ids : req[h].email = Anonymised(j) /\ <<j, "addressed">> \in marks
      BY <2>1 DEF IInv, Requests, Knows
    <2>3. j = i
      BY <1>1, <1>2, <1>3, <2>2, Apart
    <2> QED
      BY <2>2, <2>3
  <1> QED
    BY <1>1, <1>3

LEMMA StepByEmailSave ==
    ASSUME IInv, NEW h \in Handlers, ByEmailSave(h)
    PROVE  IInv'
  <1>1. PICK i : i \in IdsOf(req[h].email)
                 /\ Write(i, [rows[i] EXCEPT !.token = 0, !.password = req[h].password])
    BY DEF ByEmailSave
  <1>2. i \in DOMAIN rows /\ (rows[i].email = Anonymised(i) => <<i, "addressed">> \in marks)
    BY <1>1, ByItsAddress DEF ByEmailSave, At, ByAddress
  <1>3. PICK p : p = req[h].password
    OBVIOUS
  <1>4. p \in Passwords
    BY <1>3 DEF IInv, Requests, Knows, Frame
  <1>5. PICK q : q = rows[i]
    OBVIOUS
  <1>6. PICK r : r = [q EXCEPT !.token = 0, !.password = p]
    OBVIOUS
  <1>7. q \in Row
    BY <1>2, <1>5, RowFound
  <1>8. /\ r \in Row /\ r.token = 0 /\ r.password = p /\ r.email = q.email
        /\ r.google = q.google /\ r.name = q.name /\ r.kyc = q.kyc
    BY <1>4, <1>6, <1>7 DEF Row
  <1>9. GoodRow(r, i, codes, spent, marks, local)
    <2>1. 0 \in 0..codes
      BY Numbers DEF IInv
    <2> QED
      BY <1>2, <1>5, <1>8, <2>1, RowFound DEF GoodRow
  <1>10. /\ rows' = [rows EXCEPT ![i] = r] /\ Answer(h) /\ ~At(h, "registerCreate")
         /\ UNCHANGED <<temp, made, mailed, codes, asked, ghosts>>
    BY <1>1, <1>3, <1>5, <1>6 DEF ByEmailSave, Write, At
  <1>11. r.email = rows[i].email /\ r.token \in {0, rows[i].token} /\ r.kyc = rows[i].kyc
         /\ (r.google = FALSE => rows[i].google = FALSE)
    BY <1>5, <1>8
  <1> QED
    BY <1>2, <1>9, <1>10, <1>11, PlainWrite

\* A code is spent once: it changes the password of the row that has it, which
\* loses it.
LEMMA StepChangeSave ==
    ASSUME IInv, NEW h \in Handlers, ChangeSave(h)
    PROVE  IInv'
  <1>1. PICK i : i \in IdsWithToken(req[h].code)
                 /\ Write(i, [rows[i] EXCEPT !.token = 0, !.password = req[h].password])
    BY DEF ChangeSave
  <1>2. /\ i \in DOMAIN rows /\ rows[i].token = req[h].code
        /\ req[h].code \in Codes /\ req[h].code # 0
    BY <1>1, HasCode, Numbers DEF ChangeSave, At, Coded, IdsWithToken, IInv
  <1>3. PICK p : p = req[h].password
    OBVIOUS
  <1>4. p \in Passwords
    BY <1>3 DEF IInv, Requests, Knows, Frame
  <1>5. PICK q : q = rows[i]
    OBVIOUS
  <1>6. PICK r : r = [q EXCEPT !.token = 0, !.password = p]
    OBVIOUS
  <1>7. q \in Row
    BY <1>2, <1>5, RowFound
  <1>8. /\ r \in Row /\ r.token = 0 /\ r.password = p /\ r.email = q.email
        /\ r.google = q.google /\ r.name = q.name /\ r.kyc = q.kyc
    BY <1>4, <1>6, <1>7 DEF Row
  <1>9. /\ rows' = [rows EXCEPT ![i] = r] /\ Answer(h) /\ ~At(h, "registerCreate")
        /\ UNCHANGED <<temp, made, mailed, codes, asked, entered, stranded, marks, local>>
    BY <1>1, <1>3, <1>5, <1>6 DEF ChangeSave, Write, At
  <1>10. GoodRow(r, i, codes, spent', marks, local)
    <2>1. 0 \in 0..codes
      BY Numbers DEF IInv
    <2> QED
      BY <1>2, <1>5, <1>8, <2>1, RowFound DEF GoodRow
  <1>11. spent[req[h].code] = 0
    BY <1>2, RowFound DEF GoodRow
  <1>12. spent' = [spent EXCEPT ![req[h].code] = spent[req[h].code] + 1]
    BY DEF ChangeSave
  <1>13. /\ spent' \in [Codes -> Nat]
         /\ \A c \in Codes : spent'[c] <= 1 /\ (spent'[c] = spent[c] \/ c = req[h].code)
    BY <1>2, <1>11, <1>12 DEF IInv, Counters
  <1>14. Around
    BY <1>9, <1>13 DEF Around, IInv, Counters
  <1>15. r.email = rows[i].email /\ r.kyc = rows[i].kyc /\ r.google = rows[i].google
    BY <1>5, <1>8
  <1>16. Becomes(i, r)
    BY <1>2, <1>8, <1>9, <1>10, <1>13, <1>15 DEF Becomes
  <1> QED
    BY <1>2, <1>9, <1>14, <1>16, WriteAnswer

\* A row gets the code of a request that stores one: nobody has it.
LEMMA StepStore ==
    ASSUME IInv, NEW h \in Handlers, NEW i \in DOMAIN rows, NEW s \in {"codeMail", "deleteMail"},
           req[h].step \in Storing, Write(i, [rows[i] EXCEPT !.token = req[h].code]),
           Then(h, s), UNCHANGED <<temp, made, mailed, codes, asked, entered, stranded, local, spent>>,
           marks \subseteq marks', marks' \subseteq marks \cup {<<i, "deletion">>},
           rows[i].email = Anonymised(i) =>
              <<i, "deletion">> \in marks' \/ <<i, "addressed">> \in marks'
    PROVE  IInv'
  <1>1. PICK c : c = req[h].code
    OBVIOUS
  <1>2. /\ c \in Codes /\ c \in 1..codes /\ spent[c] = 0 /\ i \in Ids
        /\ \A j \in DOMAIN rows : rows[j].token # c
    BY <1>1, HasCode, RowFound DEF IInv, Requests, Knows, Coded
  <1>3. PICK r : r = [rows[i] EXCEPT !.token = c]
    OBVIOUS
  <1>4. /\ r \in Row /\ r.google = rows[i].google /\ r.email = rows[i].email
        /\ r.token = c /\ r.kyc = rows[i].kyc /\ r.name = rows[i].name
        /\ r.password = rows[i].password
    BY <1>2, <1>3, RowFound DEF Row
  <1>5. c \in 0..codes
    BY <1>2, Numbers DEF IInv
  <1>6. GoodRow(r, i, codes, spent, marks', local)
    BY <1>2, <1>4, <1>5, RowFound DEF GoodRow
  <1>7. Around
    <2>1. marks' \subseteq Ids \X Marks
      BY <1>2 DEF IInv, Counters, Marks
    <2> QED
      BY <2>1 DEF Around, IInv, Counters
  <1>8. \A k \in Handlers : req'[k].step \in Storing => req'[k].code # c
    <2>1. req'[h].step \notin Storing /\ \A k \in Handlers \ {h} : req'[k] = req[k]
      BY DEF IInv, Requests, Then, Storing
    <2> QED
      BY <1>1, <2>1 DEF IInv, Requests
  <1>9. Becomes(i, r)
    BY <1>2, <1>4, <1>6, <1>8 DEF Becomes
  <1>10. rows' = [rows EXCEPT ![i] = r]
    BY <1>1, <1>3 DEF Write
  <1> QED
    BY <1>7, <1>9, <1>10, WriteGoOn

LEMMA StepCodeSave ==
    ASSUME IInv, NEW h \in Handlers, CodeSave(h)
    PROVE  IInv'
  <1>1. PICK i : i \in IdsOf(req[h].email)
                 /\ Write(i, [rows[i] EXCEPT !.token = req[h].code])
    BY DEF CodeSave
  <1>2. i \in DOMAIN rows /\ (rows[i].email = Anonymised(i) => <<i, "addressed">> \in marks)
    BY <1>1, ByItsAddress DEF CodeSave, At, ByAddress
  <1>3. /\ req[h].step \in Storing /\ Then(h, "codeMail")
        /\ UNCHANGED <<temp, made, mailed, codes, asked, entered, stranded, marks, local, spent>>
    BY DEF CodeSave, At, Storing, ghosts
  <1> QED
    BY <1>1, <1>2, <1>3, StepStore

LEMMA StepDeleteSave ==
    ASSUME IInv, NEW h \in Handlers, DeleteSave(h)
    PROVE  IInv'
  <1>1. PICK i : i = req[h].id
    OBVIOUS
  <1>2. /\ i \in DOMAIN rows /\ Write(i, [rows[i] EXCEPT !.token = req[h].code])
        /\ req[h].step \in Storing /\ Then(h, "deleteMail")
        /\ UNCHANGED <<temp, made, mailed, codes, asked, entered, stranded, local, spent>>
    BY <1>1 DEF DeleteSave, At, Storing
  <1>3. /\ marks \subseteq marks' /\ marks' \subseteq marks \cup {<<i, "deletion">>}
        /\ rows[i].email = Anonymised(i) => <<i, "deletion">> \in marks'
    BY <1>1 DEF DeleteSave, Deleted
  <1> QED
    BY <1>2, <1>3, StepStore

\* Deletion: what is left of the row has nobody's mail, no code and no provider.
LEMMA StepConfirmSave ==
    ASSUME IInv, NEW h \in Handlers, ConfirmSave(h)
    PROVE  IInv'
  <1> PICK b \in BOOLEAN : b = FALSE
    OBVIOUS
  <1>1. PICK i : i = req[h].id
    OBVIOUS
  <1>2. i \in DOMAIN rows /\ i \in Ids
    BY <1>1, RowFound DEF ConfirmSave
  <1>3. PICK w : w = rows[i].role
    OBVIOUS
  <1>4. w \in {"client", "staff"}
    BY <1>2, <1>3, RowFound DEF Row
  <1>5. PICK r : r = [email |-> Anonymised(i), password |-> "random", token |-> 0, active |-> b,
                      role |-> w, google |-> b, info |-> b, name |-> "anonymous", kyc |-> b]
    OBVIOUS
  <1>6. r \in Row /\ r.email = Anonymised(i) /\ r.password = "random" /\ r.token = 0
    BY <1>2, <1>4, <1>5, Apart DEF Row, Passwords
  <1>7. r.google = FALSE /\ r.kyc = FALSE
    BY <1>5
  <1>8. 0 \in 0..codes
    BY Numbers DEF IInv
  <1>9. GoodRow(r, i, codes, spent, marks', local)
    BY <1>6, <1>7, <1>8 DEF GoodRow, Chosen
  <1>10. /\ marks' = marks \ {<<i, "profile">>} /\ Answer(h) /\ ~At(h, "registerCreate")
         /\ UNCHANGED <<temp, made, mailed, codes, asked, entered, stranded, local, spent>>
         /\ rows' = [rows EXCEPT ![i] = r]
    BY <1>1, <1>3, <1>5 DEF ConfirmSave, Write, At
  <1>11. Around
    BY <1>10 DEF Around, IInv, Counters
  <1>12. \A j \in Ids, x \in Marks :
            <<j, x>> \in marks => <<j, x>> \in marks' \/ (j = i /\ x = "profile")
    BY <1>10
  <1>13. Becomes(i, r)
    BY <1>6, <1>7, <1>9, <1>10, <1>12 DEF Becomes
  <1> QED
    BY <1>2, <1>10, <1>11, <1>13, WriteAnswer

-----------------------------------------------------------------------------
(* What the KYC service writes. *)

\* A write of the KYC service that leaves mail, password, code and provider alone.
LEMMA VerdictWrite ==
    ASSUME IInv, NEW i \in DOMAIN rows, NEW r \in Row, rows' = [rows EXCEPT ![i] = r],
           r.email = rows[i].email, r.password = rows[i].password, r.token = rows[i].token,
           r.google = rows[i].google,
           r.kyc = TRUE /\ <<i, "uncopied">> \notin marks' /\ <<i, "profile">> \notin marks' =>
              r.name \in {"kyc", "admin"},
           r.kyc = TRUE /\ rows[i].kyc = FALSE =>
              \A k \in Handlers : req[k].step = "profileSave" /\ req[k].id = i
                 /\ req[k].flag = FALSE => <<i, "profile">> \in marks',
           marks \ {<<i, "uncopied">>} \subseteq marks', marks' \subseteq Ids \X Marks,
           asked' \in 0..MaxRequests,
           UNCHANGED <<temp, made, req, mailed, codes, entered, stranded, local, spent>>
    PROVE  IInv'
  <1>1. i \in Ids /\ GoodRow(rows[i], i, codes, spent, marks, local)
    BY RowFound
  <1>2. \A j, w : <<j, w>> \in marks /\ w # "uncopied" => <<j, w>> \in marks'
    OBVIOUS
  <1>3. GoodRow(r, i, codes, spent, marks', local)
    BY <1>1, <1>2 DEF GoodRow
  <1>4. Around
    BY DEF Around, IInv, Counters
  <1>5. \A k \in Handlers : req'[k].step \in Storing => req'[k].code # rows[i].token
    BY DEF IInv, Requests, Knows
  <1>6. \A j \in Ids, w \in Marks :
           <<j, w>> \in marks => <<j, w>> \in marks' \/ (j = i /\ w = "uncopied")
    OBVIOUS
  <1>7. Becomes(i, r)
    BY <1>3, <1>5, <1>6 DEF Becomes
  <1>8. req' = [k \in Handlers |-> req'[k]] /\ \A k \in Handlers : req'[k] = req[k]
    BY DEF IInv, Requests
  <1> QED
    BY <1>4, <1>7, <1>8, WriteStep

\* Approval marks the account: its name is not copied yet, and its profile may
\* be being saved.
LEMMA ApprovedMarks ==
    ASSUME IInv, NEW i \in DOMAIN rows, Approved(i)
    PROVE  /\ marks \subseteq marks' /\ marks' \subseteq Ids \X Marks
           /\ rows[i].kyc = FALSE =>
                 /\ <<i, "uncopied">> \in marks'
                 /\ \A k \in Handlers : req[k].step = "profileSave" /\ req[k].id = i
                       /\ req[k].flag = FALSE => <<i, "profile">> \in marks'
  <1>1. i \in Ids /\ marks \subseteq Ids \X Marks
    BY RowFound DEF IInv, Counters
  <1>2. CASE rows[i].kyc
    BY <1>1, <1>2 DEF Approved
  <1>3. CASE ~rows[i].kyc
    <2>1. marks' = marks \cup {<<i, "uncopied">>}
                        \cup {<<i, "profile">> : h \in {k \in Handlers :
                                 At(k, "profileSave") /\ req[k].id = i /\ ~req[k].flag}}
      BY <1>3 DEF Approved
    <2>2. marks \subseteq marks' /\ marks' \subseteq Ids \X Marks /\ <<i, "uncopied">> \in marks'
      BY <1>1, <2>1 DEF Marks
    <2>3. ASSUME NEW k \in Handlers, req[k].step = "profileSave", req[k].id = i,
                 req[k].flag = FALSE
          PROVE  <<i, "profile">> \in marks'
      BY <2>1, <2>3 DEF At
    <2> QED
      BY <2>2, <2>3
  <1> QED
    BY <1>2, <1>3

LEMMA StepKycApproval ==
    ASSUME IInv, NEW i \in DOMAIN rows, KycStatus(i) \/ KycApprove(i),
           asked' \in 0..MaxRequests,
           UNCHANGED <<temp, made, req, mailed, codes, entered, stranded, local, spent>>
    PROVE  IInv'
  <1> PICK b \in BOOLEAN : b = TRUE
    OBVIOUS
  <1>1. PICK q : q = rows[i]
    OBVIOUS
  <1>2. PICK a \in BOOLEAN : Write(i, [q EXCEPT !.kyc = b, !.active = a])
    <2>1. q \in Row /\ q.active \in BOOLEAN
      BY <1>1, RowFound DEF Row
    <2>2. CASE KycStatus(i)
      <3>1. [q EXCEPT !.kyc = b] = [q EXCEPT !.kyc = b, !.active = q.active]
        BY <2>1 DEF Row
      <3>2. Write(i, [q EXCEPT !.kyc = b])
        BY <1>1, <2>2 DEF KycStatus
      <3> QED
        BY <2>1, <3>1, <3>2
    <2>3. CASE KycApprove(i)
      BY <1>1, <2>3 DEF KycApprove
    <2> QED
      BY <2>2, <2>3
  <1>3. PICK r : r = [q EXCEPT !.kyc = b, !.active = a]
    OBVIOUS
  <1>4. q \in Row
    BY <1>1, RowFound
  <1>5. /\ r \in Row /\ r.token = q.token /\ r.password = q.password /\ r.email = q.email
        /\ r.google = q.google /\ r.name = q.name
    BY <1>3, <1>4 DEF Row
  <1>6. Approved(i)
    BY DEF KycStatus, KycApprove
  <1>7. marks \subseteq marks' /\ marks' \subseteq Ids \X Marks
    BY <1>6, ApprovedMarks
  <1>8. rows[i].kyc = FALSE => <<i, "uncopied">> \in marks'
    BY <1>6, ApprovedMarks
  <1>9. rows[i].kyc = FALSE =>
           \A k \in Handlers : req[k].step = "profileSave" /\ req[k].id = i
              /\ req[k].flag = FALSE => <<i, "profile">> \in marks'
    BY <1>6, ApprovedMarks
  <1>10. <<i, "uncopied">> \notin marks' /\ <<i, "profile">> \notin marks' =>
            r.name \in {"kyc", "admin"}
    <2>1. rows[i].kyc \in BOOLEAN
      BY RowFound DEF Row
    <2>2. rows[i].kyc # FALSE => rows[i].kyc = TRUE
      BY <2>1
    <2>3. GoodRow(rows[i], i, codes, spent, marks, local)
      BY RowFound
    <2> QED
      BY <1>1, <1>5, <1>7, <1>8, <2>2, <2>3 DEF GoodRow
  <1>11. rows' = [rows EXCEPT ![i] = r]
    BY <1>2, <1>3 DEF Write
  <1> QED
    BY <1>1, <1>5, <1>7, <1>9, <1>10, <1>11, VerdictWrite

LEMMA StepKycCopy ==
    ASSUME IInv, NEW i \in DOMAIN rows, KycCopy(i), asked' \in 0..MaxRequests,
           UNCHANGED <<temp, made, req, mailed, codes, entered, stranded, local, spent>>
    PROVE  IInv'
  <1>1. PICK q : q = rows[i]
    OBVIOUS
  <1>2. PICK r : r = [q EXCEPT !.name = "kyc"]
    OBVIOUS
  <1>3. q \in Row
    BY <1>1, RowFound
  <1>4. /\ r \in Row /\ r.token = q.token /\ r.password = q.password /\ r.email = q.email
        /\ r.google = q.google /\ r.kyc = q.kyc /\ r.name = "kyc"
    BY <1>2, <1>3 DEF Row
  <1>5. rows' = [rows EXCEPT ![i] = r] /\ marks' = marks \ {<<i, "uncopied">>}
    BY <1>1, <1>2 DEF KycCopy, Write
  <1>6. marks' \subseteq Ids \X Marks
    BY <1>5 DEF IInv, Counters
  <1> QED
    BY <1>1, <1>4, <1>5, <1>6, VerdictWrite

LEMMA StepKycWithdraw ==
    ASSUME IInv, NEW i \in DOMAIN rows, KycWithdraw(i), asked' \in 0..MaxRequests,
           UNCHANGED <<temp, made, req, mailed, codes, entered, stranded, local, spent>>
    PROVE  IInv'
  <1> PICK b \in BOOLEAN : b = FALSE
    OBVIOUS
  <1>1. PICK q : q = rows[i]
    OBVIOUS
  <1>2. PICK a \in BOOLEAN : Write(i, [q EXCEPT !.kyc = b, !.active = a])
    BY <1>1 DEF KycWithdraw
  <1>3. PICK r : r = [q EXCEPT !.kyc = b, !.active = a]
    OBVIOUS
  <1>4. q \in Row
    BY <1>1, RowFound
  <1>5. /\ r \in Row /\ r.token = q.token /\ r.password = q.password /\ r.email = q.email
        /\ r.google = q.google /\ r.name = q.name /\ r.kyc = b
    BY <1>3, <1>4 DEF Row
  <1>6. rows' = [rows EXCEPT ![i] = r] /\ marks' = marks /\ marks' \subseteq Ids \X Marks
    BY <1>2, <1>3 DEF KycWithdraw, Write, IInv, Counters
  <1> QED
    BY <1>1, <1>5, <1>6, VerdictWrite

LEMMA StepKycStop ==
    ASSUME IInv, UNCHANGED <<rows, marks>>, asked' \in 0..MaxRequests,
           UNCHANGED <<temp, made, req, mailed, codes, entered, stranded, local, spent>>
    PROVE  IInv'
  BY DEF IInv, Counters, Users, Unique, Requests, EnteredCanRegister, At

LEMMA KycStep ==
    ASSUME IInv, KycNext
    PROVE  IInv'
  <1>1. UNCHANGED <<temp, made, req, mailed, codes, entered, stranded, local, spent>>
    BY DEF KycNext
  <1>2. asked' \in 0..MaxRequests
    BY BoundsAssumption DEF KycNext, IInv, Counters
  <1>3. PICK i \in DOMAIN rows : \/ KycStatus(i) \/ KycApprove(i) \/ KycCopy(i)
                                 \/ KycStop(i) \/ KycWithdraw(i)
    BY DEF KycNext
  <1>4. CASE KycStatus(i) \/ KycApprove(i)
    BY <1>1, <1>2, <1>4, StepKycApproval
  <1>5. CASE KycCopy(i)
    BY <1>1, <1>2, <1>5, StepKycCopy
  <1>6. CASE KycStop(i)
    BY <1>1, <1>2, <1>6, StepKycStop DEF KycStop
  <1>7. CASE KycWithdraw(i)
    BY <1>1, <1>2, <1>7, StepKycWithdraw
  <1> QED
    BY <1>3, <1>4, <1>5, <1>6, <1>7

-----------------------------------------------------------------------------
(***************************************************************************)
(* Statements that create or remove a row.                                 *)
(***************************************************************************)

\* What the new row is, and what is marked about it.
Arrives(e, g) ==
    /\ made' = made + 1 /\ made' \in 0..MaxUsers /\ made' \in Ids
    /\ DOMAIN rows' = DOMAIN rows \cup {made'} /\ made' \notin DOMAIN rows
    /\ \A j \in DOMAIN rows : rows'[j] = rows[j]
    /\ rows'[made'] \in Row /\ rows'[made'].email = e /\ rows'[made'].token = 0
    /\ rows'[made'].google = g /\ rows'[made'].kyc # TRUE
    /\ local \subseteq local' /\ local' \subseteq local \cup {made'}
    /\ g = TRUE => made' \notin local'
    /\ marks \subseteq marks' /\ marks' \subseteq marks \cup {<<made', "google">>}
    /\ g = FALSE /\ Syncing(e) => <<made', "google">> \in marks'

LEMMA Inserted ==
    ASSUME IInv, NEW e \in Emails, NEW p \in Passwords, NEW w \in {"client", "staff"},
           NEW g \in BOOLEAN, NEW b \in BOOLEAN, NEW n \in {"own", "admin", "kyc", "anonymous"},
           Insert(e, p, w, g, b, n)
    PROVE  Arrives(e, g)
  <1> PICK z \in BOOLEAN, y \in BOOLEAN : z = FALSE /\ y = TRUE
    OBVIOUS
  <1>1. made \in 0..MaxUsers /\ made < MaxUsers /\ made' = made + 1
    BY DEF IInv, Counters, Insert
  <1>2. made' \in 0..MaxUsers /\ made' \in Ids
    BY <1>1, BoundsAssumption DEF Ids
  <1>3. DOMAIN rows \subseteq 1..made /\ made' \notin 1..made /\ local \subseteq 1..made
    BY <1>1 DEF IInv, Users, Counters
  <1>4. PICK r : r = [email |-> e, password |-> p, token |-> 0, active |-> y, role |-> w,
                      google |-> g, info |-> b, name |-> n, kyc |-> z]
    OBVIOUS
  <1>5. r \in Row /\ r.email = e /\ r.token = 0 /\ r.google = g /\ r.kyc = z
    BY <1>4 DEF Row, Addresses
  <1>6. rows' = [i \in DOMAIN rows \cup {made'} |-> IF i = made' THEN r ELSE rows[i]]
    BY <1>1, <1>4 DEF Insert
  <1>7. /\ DOMAIN rows' = DOMAIN rows \cup {made'} /\ rows'[made'] = r
        /\ \A j \in DOMAIN rows : rows'[j] = rows[j]
    BY <1>3, <1>6
  <1>8. /\ local \subseteq local' /\ local' \subseteq local \cup {made'}
        /\ (g = TRUE => made' \notin local')
    BY <1>1, <1>3 DEF Insert
  <1>9. /\ marks \subseteq marks' /\ marks' \subseteq marks \cup {<<made', "google">>}
        /\ (g = FALSE /\ Syncing(e) => <<made', "google">> \in marks')
    BY <1>1 DEF Insert
  <1> QED
    BY <1>1, <1>2, <1>3, <1>5, <1>7, <1>8, <1>9 DEF Arrives

LEMMA InsertStep ==
    ASSUME IInv, NEW h \in Handlers, NEW e \in Emails, ~Registered(e), NEW p \in Passwords,
           NEW w \in {"client", "staff"}, NEW g \in BOOLEAN, NEW b \in BOOLEAN,
           NEW n \in {"own", "admin", "kyc", "anonymous"}, Insert(e, p, w, g, b, n),
           Answer(h), req[h].email = e, UNCHANGED <<temp, mailed, codes, asked, stranded, spent>>
    PROVE  IInv'
  <1>0. Arrives(e, g)
    BY Inserted
  <1> PICK m : m = made'
    OBVIOUS
  <1>1. /\ m = made + 1 /\ m \in 0..MaxUsers /\ m \in Ids
        /\ DOMAIN rows' = DOMAIN rows \cup {m} /\ m \notin DOMAIN rows
        /\ \A j \in DOMAIN rows : rows'[j] = rows[j]
        /\ rows'[m] \in Row /\ rows'[m].email = e /\ rows'[m].token = 0
        /\ rows'[m].google = g /\ rows'[m].kyc # TRUE
        /\ local \subseteq local' /\ local' \subseteq local \cup {m}
        /\ g = TRUE => m \notin local'
        /\ marks \subseteq marks' /\ marks' \subseteq marks \cup {<<m, "google">>}
        /\ g = FALSE /\ Syncing(e) => <<m, "google">> \in marks'
    BY <1>0 DEF Arrives
  <1>2. entered' = entered \ {e}
    BY DEF Insert
  <1>3. /\ made \in Nat /\ codes \in Nat /\ 0 \in 0..codes
        /\ DOMAIN rows \subseteq 1..made /\ local \subseteq 1..made
    BY Numbers DEF IInv, Users, Counters
  <1>4. m \notin local
    BY <1>1, <1>3
  <1>5. Counters'
    <2>1. local' \subseteq 1..m
      BY <1>1, <1>3
    <2>2. marks' \subseteq Ids \X Marks
      BY <1>1 DEF IInv, Counters, Marks
    <2> QED
      BY <1>1, <1>2, <2>1, <2>2 DEF IInv, Counters
  <1>6. Users'
    <2>1. DOMAIN rows' \subseteq 1..m
      BY <1>1, <1>3
    <2>2. ASSUME NEW j \in DOMAIN rows
          PROVE  GoodRow(rows'[j], j, codes, spent, marks', local')
      <3>1. j \in local' => j \in local
        BY <1>1
      <3>2. marks \subseteq marks'
        BY <1>1
      <3>5. GoodRow(rows[j], j, codes, spent, marks, local) /\ rows'[j] = rows[j]
        BY <1>1, RowFound
      <3> QED
        BY <3>1, <3>2, <3>5 DEF GoodRow
    <2>3. GoodRow(rows'[m], m, codes, spent, marks', local')
      <3>1. ~(rows'[m].google = TRUE /\ m \in local')
        BY <1>1
      <3>2. rows'[m].email # Anonymised(m)
        BY <1>1, Apart
      <3> QED
        BY <1>1, <1>3, <3>1, <3>2 DEF GoodRow
    <2> QED
      BY <1>1, <2>1, <2>2, <2>3 DEF Users
  <1>7. Unique'
    <2>1. \A j \in DOMAIN rows : rows[j].email # e
      BY DEF Registered, IdsOf
    <2>2. ASSUME NEW j \in DOMAIN rows', NEW k \in DOMAIN rows', j # k
          PROVE  /\ rows'[j].email # rows'[k].email
                 /\ rows'[j].token = rows'[k].token => rows'[j].token = 0
      <3>1. CASE j = m
        BY <1>1, <2>1, <2>2, <3>1
      <3>2. CASE k = m
        BY <1>1, <2>1, <2>2, <3>2
      <3>3. CASE j # m /\ k # m
        BY <1>1, <2>2, <3>3 DEF IInv, Unique
      <3> QED
        BY <3>1, <3>2, <3>3
    <2> QED
      BY <2>2 DEF Unique
  <1>8. req'[h] = Idle /\ req' = [k \in Handlers |-> req'[k]]
        /\ \A k \in Handlers \ {h} : req'[k] = req[k]
    BY DEF IInv, Requests, Answer
  <1>9. ASSUME NEW k \in Handlers \ {h}
        PROVE  Knows(req[k], rows', m, codes, spent, marks', local')
    <2>1. Knows(req[k], rows, made, codes, spent, marks, local)
      BY DEF IInv, Requests
    <2>2. req[k].id \in 0..m /\ req[k].id # m
      BY <1>1, <1>3, <2>1 DEF Knows
    <2>3. req[k].step \in Storing => \A j \in DOMAIN rows' : rows'[j].token # req[k].code
      <3>1. req[k].step \in Storing => req[k].code # 0
        BY HasCode, Numbers DEF Coded, IInv
      <3> QED
        BY <1>1, <2>1, <3>1 DEF Knows
    <2>4. ASSUME NEW j \in DOMAIN rows', req[k].step = "googleTransaction",
                 rows'[j].email = req[k].email, rows'[j].google = FALSE, j \in local'
          PROVE  <<j, "google">> \in marks'
      <3>1. CASE j = m
        <4>1. Syncing(e)
          BY <1>1, <2>4, <3>1 DEF Syncing, At
        <4> QED
          BY <1>1, <2>4, <3>1, <4>1
      <3>2. CASE j # m
        BY <1>1, <2>1, <2>4, <3>2 DEF Knows
      <3> QED
        BY <3>1, <3>2
    <2>5. req[k].step = "googleProvider" /\ req[k].id \in local' => <<req[k].id, "google">> \in marks'
      BY <1>1, <2>1, <2>2 DEF Knows
    <2>6. req[k].step = "profileSave" /\ req[k].flag = FALSE /\ req[k].id \in DOMAIN rows'
          /\ rows'[req[k].id].kyc = TRUE => <<req[k].id, "profile">> \in marks'
      BY <1>1, <2>1, <2>2 DEF Knows
    <2>7. \A j : <<j, "addressed">> \in marks => <<j, "addressed">> \in marks'
      BY <1>1
    <2> QED
      BY <2>1, <2>2, <2>3, <2>4, <2>5, <2>6, <2>7 DEF Knows
  <1>10. Knows(Idle, rows', m, codes, spent, marks', local')
    BY <1>1, <1>3, IdleKnows
  <1>11. Requests'
    <2>1. \A k \in Handlers : Knows(req'[k], rows', made', codes', spent', marks', local')
      BY <1>8, <1>9, <1>10
    <2>2. Idle.step \notin Storing
      BY DEF Idle, Storing
    <2>3. \A k, l \in Handlers :
             k # l /\ req'[k].step \in Storing /\ req'[l].step \in Storing =>
                req'[k].code # req'[l].code
      BY <1>8, <2>2 DEF IInv, Requests
    <2> QED
      BY <1>8, <2>1, <2>3 DEF Requests
  <1>12. EnteredCanRegister'
    BY <1>2, <1>8 DEF IInv, EnteredCanRegister, At
  <1> QED
    BY <1>5, <1>6, <1>7, <1>11, <1>12 DEF IInv

LEMMA StepRegisterCreate ==
    ASSUME IInv, NEW h \in Handlers, RegisterCreate(h)
    PROVE  IInv'
  <1> PICK y \in BOOLEAN, z \in BOOLEAN : y = TRUE /\ z = FALSE
    OBVIOUS
  <1>1. PICK e, p : e = req[h].email /\ p = req[h].password
    OBVIOUS
  <1>2. e \in Emails /\ p \in Passwords
    BY <1>1, HasMail DEF RegisterCreate, At, ByMail, IInv, Requests, Knows, Frame
  <1>3. /\ Insert(e, p, "client", z, y, "own") /\ Answer(h) /\ ~Registered(e)
        /\ UNCHANGED <<temp, mailed, codes, asked, stranded, spent>>
    BY <1>1 DEF RegisterCreate
  <1> QED
    BY <1>1, <1>2, <1>3, InsertStep

LEMMA StepAdminCreate ==
    ASSUME IInv, NEW h \in Handlers, AdminCreate(h)
    PROVE  IInv'
  <1> PICK z \in BOOLEAN : z = FALSE
    OBVIOUS
  <1>1. PICK e : e = req[h].email
    OBVIOUS
  <1>2. e \in Emails /\ "admin" \in Passwords
    BY <1>1, HasMail DEF AdminCreate, At, ByMail, Passwords
  <1>3. /\ Insert(e, "admin", "staff", z, z, "admin") /\ Answer(h) /\ ~Registered(e)
        /\ UNCHANGED <<temp, mailed, codes, asked, stranded, spent>>
    BY <1>1 DEF AdminCreate
  <1> QED
    BY <1>1, <1>2, <1>3, InsertStep

\* The second look of syncGoogleUser.
LEMMA StepGoogleTransaction ==
    ASSUME IInv, NEW h \in Handlers, GoogleTransaction(h)
    PROVE  IInv'
  <1> PICK y \in BOOLEAN, z \in BOOLEAN : y = TRUE /\ z = FALSE
    OBVIOUS
  <1>1. PICK e : e = req[h].email
    OBVIOUS
  <1>2. /\ e \in Emails /\ "random" \in Passwords /\ At(h, "googleTransaction")
        /\ UNCHANGED <<temp, mailed, codes, asked, stranded, spent>>
    BY <1>1, HasMail DEF GoogleTransaction, At, ByMail, Passwords
  <1>3. CASE ~Registered(e)
    <2>1. Insert(e, "random", "client", y, z, "own") /\ Answer(h)
      BY <1>1, <1>3 DEF GoogleTransaction
    <2> QED
      BY <1>1, <1>2, <1>3, <2>1, InsertStep
  <1>4. CASE Registered(e)
    <2>1. PICK i : i = CHOOSE j \in IdsOf(e) : TRUE
      OBVIOUS
    <2>2. i \in DOMAIN rows /\ rows[i].email = e
      BY <1>4, <2>1 DEF Registered, IdsOf
    <2>3. UNCHANGED <<rows, made, entered, marks, local>>
      BY <1>1, <1>4 DEF GoogleTransaction
    <2>4. Counters' /\ UNCHANGED Rest /\ codes' = codes
      BY <1>2, <2>3 DEF IInv, Counters, Rest
    <2>5. CASE rows[i].google
      <3>1. Answer(h)
        BY <1>1, <1>4, <2>1, <2>5 DEF GoogleTransaction
      <3>2. EnteredCanRegister'
        BY <1>2, <2>3, <3>1, StillOpen DEF At, IInv, Requests, Answer
      <3> QED
        BY <2>4, <3>1, <3>2, AnswerStep
    <2>6. CASE ~rows[i].google
      <3>1. PICK f : f = [step |-> "googleProvider", email |-> e, id |-> i, code |-> 0,
                          password |-> "random", flag |-> z]
        OBVIOUS
      <3>2. req' = [req EXCEPT ![h] = f]
        BY <1>1, <1>4, <2>1, <2>6, <3>1 DEF GoogleTransaction
      <3>3. i \in Ids /\ i \in 0..made
        BY <2>2, RowFound
      <3>4. f \in Frame /\ f.step = "googleProvider" /\ f.id = i
        <4>1. "googleProvider" \in Steps
          BY DEF Steps
        <4> QED
          BY <1>2, <3>1, <3>3, <4>1, FrameOf DEF Addresses
      <3>5. i \in local => <<i, "google">> \in marks
        <4>1. rows[i].google = FALSE
          BY <2>2, <2>6, RowFound DEF Row
        <4>2. Knows(req[h], rows, made, codes, spent, marks, local)
          BY DEF IInv, Requests
        <4> QED
          BY <1>1, <1>2, <2>2, <4>1, <4>2 DEF Knows, At
      <3>6. Knows(f, rows, made, codes, spent, marks, local) /\ f.step \notin Storing
        BY <3>3, <3>4, <3>5 DEF Knows, Storing, Coded, ByMail, ByAddress
      <3>7. EnteredCanRegister'
        BY <1>2, <2>3, <3>2, StillOpen DEF At, IInv, Requests
      <3>8. codes <= codes'
        BY <2>4, Numbers DEF IInv
      <3>9. \A k \in Handlers \ {h} :
              f.step \in Storing /\ req[k].step \in Storing => f.code # req[k].code
        BY <3>6
      <3> QED
        BY <2>4, <3>2, <3>6, <3>7, <3>8, <3>9, QuietStep
    <2> QED
      BY <2>5, <2>6
  <1> QED
    BY <1>3, <1>4

\* delete
LEMMA StepRemoveSave ==
    ASSUME IInv, NEW h \in Handlers, RemoveSave(h)
    PROVE  IInv'
  <1>1. PICK i : i = req[h].id
    OBVIOUS
  <1>2. /\ rows' = [j \in DOMAIN rows \ {i} |-> rows[j]] /\ Answer(h) /\ At(h, "removeSave")
        /\ UNCHANGED <<temp, made, mailed, codes, asked, entered, stranded, marks, local, spent>>
    BY <1>1 DEF RemoveSave, ghosts
  <1>3. DOMAIN rows' \subseteq DOMAIN rows /\ \A j \in DOMAIN rows' : rows'[j] = rows[j]
    BY <1>2
  <1>4. Counters'
    BY <1>2 DEF IInv, Counters
  <1>5. Users'
    BY <1>2, <1>3 DEF IInv, Users
  <1>6. Unique'
    BY <1>3 DEF IInv, Unique
  <1>7. /\ req'[h] = Idle /\ req' = [k \in Handlers |-> req'[k]]
        /\ \A k \in Handlers \ {h} : req'[k] = req[k]
    BY <1>2 DEF IInv, Requests, Answer
  <1>8. made \in Nat /\ Knows(Idle, rows', made, codes, spent, marks, local)
    BY Numbers, IdleKnows DEF IInv
  <1>9. ASSUME NEW k \in Handlers \ {h}
        PROVE  Knows(req[k], rows', made, codes, spent, marks, local)
    BY <1>3 DEF IInv, Requests, Knows
  <1>10. Requests'
    <2>1. \A k \in Handlers : Knows(req'[k], rows', made', codes', spent', marks', local')
      BY <1>2, <1>7, <1>8, <1>9
    <2>2. Idle.step \notin Storing
      BY DEF Idle, Storing
    <2>3. \A k, l \in Handlers :
             k # l /\ req'[k].step \in Storing /\ req'[l].step \in Storing =>
                req'[k].code # req'[l].code
      BY <1>7, <2>2 DEF IInv, Requests
    <2> QED
      BY <1>7, <2>1, <2>3 DEF Requests
  <1>11. EnteredCanRegister'
    BY <1>2, <1>7 DEF IInv, EnteredCanRegister, At
  <1> QED
    BY <1>4, <1>5, <1>6, <1>10, <1>11 DEF IInv

-----------------------------------------------------------------------------
(***************************************************************************)
(* The invariant.                                                          *)
(***************************************************************************)
LEMMA InitIInv == Init => IInv
  <1> SUFFICES ASSUME Init PROVE IInv
    OBVIOUS
  <1>1. made = 0 /\ codes = 0 /\ DOMAIN rows = {}
    BY DEF Init
  <1>2. Counters
    BY BoundsAssumption DEF Init, Counters
  <1>3. Users /\ Unique
    BY <1>1 DEF Users, Unique
  <1>4. req = [h \in Handlers |-> req[h]] /\ \A h \in Handlers : req[h] = Idle
    BY DEF Init
  <1>5. \A h \in Handlers : Knows(req[h], rows, made, codes, spent, marks, local)
    BY <1>1, <1>4, IdleKnows
  <1>6. Requests
    BY <1>4, <1>5 DEF Requests, Idle, Storing
  <1>7. EnteredCanRegister
    BY DEF Init, EnteredCanRegister
  <1> QED
    BY <1>2, <1>3, <1>6, <1>7 DEF IInv

LEMMA RegistrationStep ==
    ASSUME IInv, NEW h \in Handlers, RegistrationNext(h)
    PROVE  IInv'
  <1>1. CASE \E e \in Emails : TempFind(h, e) \/ MobileFind(h, e)
    BY <1>1, NewRegistration
  <1>2. CASE \E e \in Emails : GoogleFind(h, e)
    BY <1>2, NewGoogle
  <1>3. CASE \E e \in Emails, p \in Chosen : RegisterFind(h, e, p)
    BY <1>3, NewRegister
  <1>4. CASE \E c \in mailed : VerifyFind(h, c)
    BY <1>4, NewVerification
  <1>5. CASE TempCreate(h)
    BY <1>5, StepTempCreate
  <1>6. CASE MobileSave(h)
    BY <1>6, StepMobileSave
  <1>7. CASE TempMail(h)
    BY <1>7, StepMail
  <1>8. CASE VerifySave(h)
    BY <1>8, StepVerifySave
  <1>9. CASE RegisterDelete(h)
    BY <1>9, StepRegisterDelete
  <1>10. CASE RegisterCreate(h)
    BY <1>10, StepRegisterCreate
  <1>11. CASE GoogleTransaction(h)
    BY <1>11, StepGoogleTransaction
  <1>12. CASE GoogleProvider(h)
    BY <1>12, StepGoogleProvider
  <1>13. CASE \/ Refused(h, "mobileSave", MobileSaves(h))
              \/ Refused(h, "verifySave", temp[req[h].email] # NoRow)
              \/ Refused(h, "registerDelete", temp[req[h].email] # NoRow)
              \/ Refused(h, "googleProvider", req[h].id \in DOMAIN rows)
    BY <1>13, StepRefused
  <1> QED
    BY <1>1, <1>2, <1>3, <1>4, <1>5, <1>6, <1>7, <1>8, <1>9, <1>10, <1>11, <1>12, <1>13
    DEF RegistrationNext

LEMMA CodesStep ==
    ASSUME IInv, NEW h \in Handlers, CodesNext(h)
    PROVE  IInv'
  <1>1. CASE \E i \in DOMAIN rows : CodeFind(h, i) \/ DeleteFind(h, i)
    BY <1>1, NewStoring
  <1>2. CASE \E i \in DOMAIN rows : ResetFind(h, i)
    BY <1>2, NewResetOrConfirm
  <1>3. CASE \E i \in DOMAIN rows, p \in Chosen : ByEmailFind(h, i, p)
    BY <1>3, NewByEmail
  <1>4. CASE \E i \in DOMAIN rows, c \in mailed, p \in Chosen : ChangeFind(h, i, c, p)
    BY <1>4, NewChange
  <1>5. CASE \E i \in DOMAIN rows, c \in mailed, p \in Chosen \cup {"admin"} :
                ConfirmFind(h, i, c, p)
    BY <1>5, NewResetOrConfirm
  <1>6. CASE CodeSave(h)
    BY <1>6, StepCodeSave
  <1>7. CASE CodeMail(h) \/ DeleteMail(h)
    BY <1>7, StepMail
  <1>8. CASE ChangeSave(h)
    BY <1>8, StepChangeSave
  <1>9. CASE ByEmailSave(h)
    BY <1>9, StepByEmailSave
  <1>10. CASE ResetSave(h)
    BY <1>10, StepResetSave
  <1>11. CASE DeleteSave(h)
    BY <1>11, StepDeleteSave
  <1>12. CASE ConfirmSave(h)
    BY <1>12, StepConfirmSave
  <1>13. CASE \/ Refused(h, "codeSave", Registered(req[h].email))
              \/ Refused(h, "changeSave", IdsWithToken(req[h].code) # {})
              \/ Refused(h, "byEmailSave", Registered(req[h].email))
              \/ Refused(h, "resetSave", req[h].id \in DOMAIN rows)
              \/ Refused(h, "deleteSave", req[h].id \in DOMAIN rows)
              \/ Refused(h, "confirmSave", req[h].id \in DOMAIN rows)
    BY <1>13, StepRefused
  <1> QED
    BY <1>1, <1>2, <1>3, <1>4, <1>5, <1>6, <1>7, <1>8, <1>9, <1>10, <1>11, <1>12, <1>13
    DEF CodesNext

LEMMA ProfilesStep ==
    ASSUME IInv, NEW h \in Handlers, ProfilesNext(h)
    PROVE  IInv'
  <1>1. CASE \E i \in DOMAIN rows : ProfileFind(h, i)
    BY <1>1, NewProfile
  <1>2. CASE \E i \in DOMAIN rows, b \in BOOLEAN :
                AdminFind(h, i, b) \/ RoleFind(h, i, b) \/ ActiveFind(h, i, b)
                \/ RemoveFind(h, i)
    BY <1>2, NewAdministration
  <1>3. CASE \E e \in Emails : AdminCreateFind(h, e)
    BY <1>3, NewAdminCreate
  <1>4. CASE ProfileSave(h)
    BY <1>4, StepProfileSave
  <1>5. CASE AdminCreate(h)
    BY <1>5, StepAdminCreate
  <1>6. CASE AdminSave(h)
    BY <1>6, StepAdminSave
  <1>7. CASE RoleSave(h)
    BY <1>7, StepRoleSave
  <1>8. CASE ActiveSave(h)
    BY <1>8, StepActiveSave
  <1>9. CASE RemoveSave(h)
    BY <1>9, StepRemoveSave
  <1>10. CASE \/ Refused(h, "adminCreate", ~Registered(req[h].email))
              \/ Refused(h, "removeSave", Removable(req[h].id))
              \/ \E s \in {"profileSave", "adminSave", "roleSave", "activeSave"} :
                    Refused(h, s, req[h].id \in DOMAIN rows)
    BY <1>10, StepRefused
  <1> QED
    BY <1>1, <1>2, <1>3, <1>4, <1>5, <1>6, <1>7, <1>8, <1>9, <1>10 DEF ProfilesNext

LEMMA NextIInv == IInv /\ [Next]_vars => IInv'
  <1> SUFFICES ASSUME IInv, [Next]_vars PROVE IInv'
    OBVIOUS
  <1>1. CASE \E h \in Handlers : RegistrationNext(h)
    BY <1>1, RegistrationStep
  <1>2. CASE \E h \in Handlers : CodesNext(h)
    BY <1>2, CodesStep
  <1>3. CASE \E h \in Handlers : ProfilesNext(h)
    BY <1>3, ProfilesStep
  <1>4. CASE \E h \in Handlers : Fail(h)
    BY <1>4, StepFail
  <1>5. CASE KycNext
    BY <1>5, KycStep
  <1>6. CASE UNCHANGED vars
    BY <1>6 DEF vars, tables, ghosts, IInv, Counters, Users, Unique, Requests,
                EnteredCanRegister, At
  <1> QED
    BY <1>1, <1>2, <1>3, <1>4, <1>5, <1>6 DEF Next

LEMMA Holds == Spec => []IInv
  BY InitIInv, NextIInv, PTL DEF Spec

\* Names are only copied to accounts that exist.
Copies == copying \subseteq Ids

LEMMA NextCopies == IInv /\ Copies /\ [Next]_vars => Copies'
  <1> SUFFICES ASSUME IInv, Copies, [Next]_vars PROVE Copies'
    OBVIOUS
  <1>1. DOMAIN rows \subseteq Ids
    BY RowFound
  <1>2. CASE copying' = copying
    BY <1>2 DEF Copies
  <1>3. CASE KycNext
    BY <1>1, <1>3 DEF KycNext, KycStatus, KycApprove, KycCopy, KycStop, KycWithdraw, Copies
  <1> QED
    BY <1>2, <1>3 DEF Next, vars

LEMMA CopiesHold == Spec => []Copies
  <1>1. Init => Copies
    BY DEF Init, Copies
  <1> QED
    BY <1>1, NextCopies, Holds, PTL DEF Spec

-----------------------------------------------------------------------------
\* The tables keep their shape, and no two accounts share a mail or a code.
THEOREM AccountsHold == Spec => []TablesCorrect
  <1>1. IInv /\ Copies => TablesCorrect
    <2> SUFFICES ASSUME IInv, Copies PROVE TablesCorrect
      OBVIOUS
    <2>1. /\ temp \in [Emails -> Codes \cup {NoRow, Used}]
          /\ made \in 0..MaxUsers /\ codes \in 0..MaxCodes /\ asked \in 0..MaxRequests
          /\ mailed \subseteq 1..codes
          /\ marks \subseteq Ids \X Marks /\ copying \subseteq Ids
          /\ spent \in [Codes -> Nat] /\ local \subseteq Ids
      BY Numbers DEF IInv, Counters, Copies
    <2>2. DOMAIN rows \subseteq 1..made /\ \A i \in DOMAIN rows : rows[i] \in Row
      BY DEF IInv, Users, GoodRow
    <2>3. req \in [Handlers -> Frame]
      BY DEF IInv, Requests, Knows
    <2> QED
      BY <2>1, <2>2, <2>3 DEF TablesCorrect, IInv, Unique
  <1> QED
    BY <1>1, Holds, CopiesHold, PTL

\* Whoever entered the code of a mail can register with it.
THEOREM RegistrationOpen == Spec => []EnteredCanRegister
  <1>1. IInv => EnteredCanRegister
    BY DEF IInv
  <1> QED
    BY <1>1, Holds, PTL

\* No account made with a password becomes a Google account, unless it was
\* made in the middle of a sign-in with Google.
THEOREM GoogleHolds == Spec => []GoogleStaysApart
  <1>1. IInv => GoogleStaysApart
    <2> SUFFICES ASSUME IInv, NEW i \in DOMAIN rows, rows[i].google, <<i, "google">> \notin marks
                 PROVE  i \notin local
      BY DEF GoogleStaysApart
    <2>1. rows[i].google = TRUE
      OBVIOUS
    <2> QED
      BY <2>1, RowFound DEF GoodRow
  <1> QED
    BY <1>1, Holds, PTL

\* A code changes one password once.
THEOREM CodesHold == Spec => []CodeUsedOnce
  <1>1. IInv => CodeUsedOnce
    BY DEF IInv, Counters, CodeUsedOnce
  <1> QED
    BY <1>1, Holds, PTL

\* Nothing that was under way when an account was anonymised gives it a password
\* that somebody chose; it takes a deletion stored on the anonymised row, or a
\* request that names its anonymised address.
THEOREM LockedOutHolds == Spec => []DeletedLockedOut
  <1>1. IInv => DeletedLockedOut
    BY RowFound DEF DeletedLockedOut, Deleted, GoodRow
  <1> QED
    BY <1>1, Holds, PTL

\* Once the document's name was copied, the name of an approved account is the
\* document's or an administrator's, unless the profile was being saved when the
\* approval came.
THEOREM IdentityHolds == Spec => []ApprovedIdentity
  <1>1. IInv => ApprovedIdentity
    <2> SUFFICES ASSUME IInv, NEW i \in DOMAIN rows, rows[i].kyc,
                        <<i, "uncopied">> \notin marks, <<i, "profile">> \notin marks
                 PROVE  rows[i].name \in {"kyc", "admin"}
      BY DEF ApprovedIdentity
    <2>1. rows[i].kyc = TRUE
      OBVIOUS
    <2> QED
      BY <2>1, RowFound DEF GoodRow
  <1> QED
    BY <1>1, Holds, PTL

=============================================================================
