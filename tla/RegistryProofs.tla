---------------------------- MODULE RegistryProofs ----------------------------
(***************************************************************************)
(* What Registry guarantees for all names and bounds.                       *)
(***************************************************************************)
EXTENDS Registry, TLAPS

----------------------------------------------------------------------------
(* Tables *)

\* What Append does to a sequence.
LEMMA AppendFacts ==
  ASSUME NEW S, NEW s \in Seq(S), NEW x \in S
  PROVE  /\ Append(s, x) \in Seq(S)
         /\ Len(s) \in Nat /\ Len(Append(s, x)) = Len(s) + 1
         /\ DOMAIN s = 1 .. Len(s)
         /\ DOMAIN Append(s, x) = DOMAIN s \cup {Len(s) + 1}
         /\ Len(s) + 1 \notin DOMAIN s
         /\ Append(s, x)[Len(s) + 1] = x
         /\ \A i \in DOMAIN s : Append(s, x)[i] = s[i] /\ s[i] \in S
OBVIOUS

\* A table whose rows are replaced by others keeps its length.
LEMMA RowsReplaced ==
  ASSUME NEW S, NEW s \in Seq(S), NEW f, f = [i \in DOMAIN s |-> f[i]],
         \A i \in DOMAIN s : f[i] \in S
  PROVE  f \in Seq(S) /\ DOMAIN f = DOMAIN s /\ Len(f) = Len(s)
<1>1. Len(s) \in Nat /\ DOMAIN s = 1 .. Len(s)
  OBVIOUS
<1>2. f \in [1 .. Len(s) -> S]
  BY <1>1
<1> QED
  BY <1>1, <1>2

\* One row of a table is replaced.
LEMMA RowReplaced ==
  ASSUME NEW S, NEW s \in Seq(S), NEW i \in DOMAIN s, NEW x \in S
  PROVE  /\ [s EXCEPT ![i] = x] \in Seq(S)
         /\ DOMAIN [s EXCEPT ![i] = x] = DOMAIN s
         /\ [s EXCEPT ![i] = x][i] = x
         /\ \A j \in DOMAIN s \ {i} : [s EXCEPT ![i] = x][j] = s[j]
OBVIOUS

\* Rows of the tables have the types of their tables.
LEMMA RowTypes ==
  ASSUME TypeOK
  PROVE  /\ registrations \in Seq(Registration)
         /\ \A r \in DOMAIN registrations :
              registrations[r] \in Registration /\ registrations[r].name \in Names
         /\ \A k \in DOMAIN codes : codes[k] \in Code /\ codes[k].name \in Names
         /\ \A c \in DOMAIN credentials :
              credentials[c] \in Credential /\ credentials[c].name \in Names
<1>1. ASSUME NEW r \in DOMAIN registrations
      PROVE  registrations[r] \in Registration /\ registrations[r].name \in Names
  <2>1. registrations[r] \in Registration
    BY DEF TypeOK
  <2> QED
    BY <2>1 DEF Registration
<1>2. ASSUME NEW k \in DOMAIN codes PROVE codes[k] \in Code /\ codes[k].name \in Names
  <2>1. codes[k] \in Code
    BY DEF TypeOK
  <2> QED
    BY <2>1 DEF Code
<1>3. ASSUME NEW c \in DOMAIN credentials
      PROVE  credentials[c] \in Credential /\ credentials[c].name \in Names
  <2>1. credentials[c] \in Credential
    BY DEF TypeOK
  <2> QED
    BY <2>1 DEF Credential
<1>4. registrations \in Seq(Registration)
  BY DEF TypeOK
<1> QED
  BY <1>1, <1>2, <1>3, <1>4

\* Expiring changes pending requests that are overdue, and all of them.
LEMMA ExpireFacts ==
  ASSUME TypeOK
  PROVE  /\ LazyExpire(registrations) \in Seq(Registration)
         /\ DOMAIN LazyExpire(registrations) = DOMAIN registrations
         /\ Len(LazyExpire(registrations)) = Len(registrations)
         /\ \A r \in DOMAIN registrations :
              LET before == registrations[r]
                  after == LazyExpire(registrations)[r]
              IN /\ before \in Registration /\ after \in Registration
                 /\ after.name = before.name
                 /\ after.status = IF r <= overdue /\ before.status = "pending"
                                   THEN "expired" ELSE before.status
<1>1. ASSUME NEW r \in DOMAIN registrations
      PROVE  /\ registrations[r] \in Registration
             /\ LazyExpire(registrations)[r] \in Registration
             /\ LazyExpire(registrations)[r].name = registrations[r].name
             /\ LazyExpire(registrations)[r].status =
                  IF r <= overdue /\ registrations[r].status = "pending"
                  THEN "expired" ELSE registrations[r].status
  <2>1. registrations[r] \in Registration
    BY DEF TypeOK
  <2> QED
    BY <2>1 DEF LazyExpire, Registration
<1>2. LazyExpire(registrations) =
        [r \in DOMAIN registrations |-> LazyExpire(registrations)[r]]
  BY DEF LazyExpire
<1>3. registrations \in Seq(Registration)
  BY DEF TypeOK
<1> HIDE DEF LazyExpire
<1> QED
  BY <1>1, <1>2, <1>3, RowsReplaced

\* A mint adds one live token and kills the others of the same name.
LEMMA MintFacts ==
  ASSUME TypeOK, NEW n \in Names, NEW ticket \in Ticket, Mint(n, ticket)
  PROVE  /\ credentials' \in Seq(Credential)
         /\ Len(credentials) \in Nat /\ Len(credentials') = Len(credentials) + 1
         /\ DOMAIN credentials' = DOMAIN credentials \cup {Len(credentials')}
         /\ Len(credentials') \notin DOMAIN credentials
         /\ credentials'[Len(credentials')] = [name |-> n, ticket |-> ticket, live |-> TRUE]
         /\ \A c \in DOMAIN credentials :
              /\ credentials[c] \in Credential /\ credentials'[c] \in Credential
              /\ credentials'[c].name = credentials[c].name
              /\ credentials'[c].ticket = credentials[c].ticket
              /\ credentials'[c].live <=> credentials[c].live /\ credentials[c].name # n
<1> DEFINE rest == [c \in DOMAIN credentials |-> IF credentials[c].name = n
                                                THEN [credentials[c] EXCEPT !.live = FALSE]
                                                ELSE credentials[c]]
           new == [name |-> n, ticket |-> ticket, live |-> TRUE]
<1>1. credentials' = Append(rest, new)
  BY DEF Mint
<1>2. ASSUME NEW c \in DOMAIN credentials
      PROVE  /\ credentials[c] \in Credential /\ rest[c] \in Credential
             /\ rest[c].name = credentials[c].name
             /\ rest[c].ticket = credentials[c].ticket
             /\ rest[c].live <=> credentials[c].live /\ credentials[c].name # n
  <2>1. credentials[c] \in Credential
    BY DEF TypeOK
  <2> QED
    BY <2>1 DEF Credential
<1>3. rest = [c \in DOMAIN credentials |-> rest[c]] /\ DOMAIN rest = DOMAIN credentials
  OBVIOUS
<1>4. new \in Credential
  BY DEF Credential
<1>5. credentials \in Seq(Credential)
  BY DEF TypeOK
<1> HIDE DEF rest, new
<1>6. rest \in Seq(Credential) /\ Len(rest) = Len(credentials)
  BY <1>2, <1>3, <1>5, RowsReplaced
<1>7. /\ credentials' \in Seq(Credential)
      /\ Len(rest) \in Nat /\ Len(credentials') = Len(rest) + 1
      /\ DOMAIN credentials' = DOMAIN rest \cup {Len(rest) + 1}
      /\ Len(rest) + 1 \notin DOMAIN rest
      /\ credentials'[Len(rest) + 1] = new
      /\ \A c \in DOMAIN rest : credentials'[c] = rest[c]
  BY <1>1, <1>4, <1>6, AppendFacts
<1> QED
  BY <1>2, <1>3, <1>6, <1>7 DEF new

\* A new code supersedes the open ones of the same name.
LEMMA CodeFacts ==
  ASSUME TypeOK, NEW n \in Names, IssueCode(n)
  PROVE  /\ codes' \in Seq(Code)
         /\ DOMAIN codes' = DOMAIN codes \cup {Len(codes')}
         /\ Len(codes') \notin DOMAIN codes
         /\ codes'[Len(codes')] = [name |-> n, status |-> "open"]
         /\ \A k \in DOMAIN codes :
              /\ codes[k] \in Code /\ codes'[k] \in Code
              /\ codes'[k].name = codes[k].name
              /\ codes'[k].status = IF codes[k].name = n /\ codes[k].status = "open"
                                    THEN "superseded" ELSE codes[k].status
<1> DEFINE rest == [k \in DOMAIN codes |-> IF codes[k].name = n /\ codes[k].status = "open"
                                          THEN [codes[k] EXCEPT !.status = "superseded"]
                                          ELSE codes[k]]
           new == [name |-> n, status |-> "open"]
<1>1. codes' = Append(rest, new)
  BY DEF IssueCode
<1>2. ASSUME NEW k \in DOMAIN codes
      PROVE  /\ codes[k] \in Code /\ rest[k] \in Code
             /\ rest[k].name = codes[k].name
             /\ rest[k].status = IF codes[k].name = n /\ codes[k].status = "open"
                                 THEN "superseded" ELSE codes[k].status
  <2>1. codes[k] \in Code
    BY DEF TypeOK
  <2> QED
    BY <2>1 DEF Code
<1>3. rest = [k \in DOMAIN codes |-> rest[k]] /\ DOMAIN rest = DOMAIN codes
  OBVIOUS
<1>4. new \in Code
  BY DEF Code
<1>5. codes \in Seq(Code)
  BY DEF TypeOK
<1> HIDE DEF rest, new
<1>6. rest \in Seq(Code) /\ Len(rest) = Len(codes)
  BY <1>2, <1>3, <1>5, RowsReplaced
<1>7. /\ codes' \in Seq(Code)
      /\ Len(codes') = Len(rest) + 1
      /\ DOMAIN codes' = DOMAIN rest \cup {Len(rest) + 1}
      /\ Len(rest) + 1 \notin DOMAIN rest
      /\ codes'[Len(rest) + 1] = new
      /\ \A k \in DOMAIN rest : codes'[k] = rest[k]
  BY <1>1, <1>4, <1>6, AppendFacts
<1> QED
  BY <1>2, <1>3, <1>6, <1>7 DEF new

----------------------------------------------------------------------------
(* What the actions do to the rows                                         *)

\* A request is one more row; overdue ones are marked in passing.
LEMMA RegisterFacts ==
  ASSUME TypeOK, NEW n \in Names, Register(n)
  PROVE  /\ registrations' \in Seq(Registration)
         /\ DOMAIN registrations' = DOMAIN registrations \cup {Len(registrations')}
         /\ Len(registrations') \notin DOMAIN registrations
         /\ registrations'[Len(registrations')] = [name |-> n, status |-> "pending"]
         /\ \A r \in DOMAIN registrations :
              registrations'[r] = LazyExpire(registrations)[r]
<1> DEFINE rest == LazyExpire(registrations)
           new == [name |-> n, status |-> "pending"]
<1>1. registrations' = Append(rest, new)
  BY DEF Register
<1>2. new \in Registration
  BY DEF Registration
<1>3. rest \in Seq(Registration) /\ DOMAIN rest = DOMAIN registrations
  BY ExpireFacts
<1> HIDE DEF rest, new
<1>4. /\ registrations' \in Seq(Registration)
      /\ Len(registrations') = Len(rest) + 1
      /\ DOMAIN registrations' = DOMAIN rest \cup {Len(rest) + 1}
      /\ Len(rest) + 1 \notin DOMAIN rest
      /\ registrations'[Len(rest) + 1] = new
      /\ \A r \in DOMAIN rest : registrations'[r] = rest[r]
  BY <1>1, <1>2, <1>3, AppendFacts
<1> QED
  BY <1>3, <1>4 DEF rest, new

\* The status of the row r of a table of registrations becomes s.
LEMMA StatusFacts ==
  ASSUME NEW regs \in Seq(Registration), NEW r \in DOMAIN regs,
         NEW s \in {"pending", "approved", "rejected", "expired", "delivered"},
         NEW after, after = [regs EXCEPT ![r].status = s]
  PROVE  /\ after \in Seq(Registration)
         /\ DOMAIN after = DOMAIN regs
         /\ regs[r] \in Registration /\ after[r].name = regs[r].name /\ after[r].status = s
         /\ \A x \in DOMAIN regs \ {r} : after[x] = regs[x]
<1> DEFINE row == [regs[r] EXCEPT !.status = s]
<1>1. regs[r] \in Registration
  OBVIOUS
<1>2. row \in Registration /\ row.name = regs[r].name /\ row.status = s
  BY <1>1 DEF Registration
<1>3. after = [regs EXCEPT ![r] = row]
  OBVIOUS
<1> HIDE DEF row
<1> QED
  BY <1>1, <1>2, <1>3, RowReplaced

\* An approval changes one row of the requests, and may create an identity.
LEMMA ApproveFacts ==
  ASSUME TypeOK, NEW r \in DOMAIN registrations, Approve(r)
  PROVE  /\ registrations[r] \in Registration
         /\ registrations[r].status = "pending" /\ ~(r <= overdue)
         /\ registrations' \in Seq(Registration)
         /\ DOMAIN registrations' = DOMAIN registrations
         /\ registrations'[r].name = registrations[r].name
         /\ registrations'[r].status = "approved"
         /\ \A x \in DOMAIN registrations \ {r} :
              registrations'[x] = LazyExpire(registrations)[x]
         /\ identities' \in [Names -> Identity]
         /\ identities'[registrations[r].name].kind = "clanker"
         /\ \A n \in Names : identities[n].kind # "none" => identities'[n] = identities[n]
<1>1. LazyExpire(registrations)[r].status = "pending"
  BY DEF Approve
<1>2. /\ registrations[r] \in Registration
      /\ LazyExpire(registrations)[r].name = registrations[r].name
      /\ registrations[r].status = "pending" /\ ~(r <= overdue)
  BY <1>1, ExpireFacts
<1>3. registrations' = [LazyExpire(registrations) EXCEPT ![r].status = "approved"]
  BY DEF Approve
<1>4. /\ registrations' \in Seq(Registration)
      /\ DOMAIN registrations' = DOMAIN registrations
      /\ registrations'[r].name = registrations[r].name
      /\ registrations'[r].status = "approved"
      /\ \A x \in DOMAIN registrations \ {r} :
           registrations'[x] = LazyExpire(registrations)[x]
  <2> DEFINE regs == LazyExpire(registrations)
  <2>1. /\ regs \in Seq(Registration) /\ r \in DOMAIN regs
        /\ DOMAIN regs = DOMAIN registrations
        /\ regs[r].name = registrations[r].name
    BY <1>2, ExpireFacts
  <2>2. registrations' = [regs EXCEPT ![r].status = "approved"]
    BY <1>3
  <2> HIDE DEF regs
  <2>3. /\ registrations' \in Seq(Registration)
        /\ DOMAIN registrations' = DOMAIN regs
        /\ registrations'[r].name = regs[r].name
        /\ registrations'[r].status = "approved"
        /\ \A x \in DOMAIN regs \ {r} : registrations'[x] = regs[x]
    BY <2>1, <2>2, StatusFacts
  <2> QED
    BY <2>1, <2>3 DEF regs
<1> DEFINE n == registrations[r].name
           row == [kind |-> "clanker", status |-> "active"]
<1>5. n \in Names /\ row \in Identity /\ row.kind = "clanker"
  BY <1>2 DEF Registration, Identity
<1>6. identities[n].kind = "none" /\ identities' = [identities EXCEPT ![n] = row]
  BY DEF Approve
<1> HIDE DEF n, row
<1>7. /\ identities' \in [Names -> Identity] /\ identities'[n].kind = "clanker"
      /\ \A x \in Names : identities[x].kind # "none" => identities'[x] = identities[x]
  BY <1>5, <1>6 DEF TypeOK
<1> QED
  BY <1>2, <1>4, <1>7 DEF n

\* Rejecting and delivering write one row.
LEMMA RejectFacts ==
  ASSUME TypeOK, NEW r \in DOMAIN registrations, Reject(r)
  PROVE  /\ registrations' \in Seq(Registration)
         /\ DOMAIN registrations' = DOMAIN registrations
         /\ registrations'[r].name = registrations[r].name
         /\ registrations[r].status = "pending" /\ registrations'[r].status = "rejected"
         /\ \A x \in DOMAIN registrations \ {r} : registrations'[x] = registrations[x]
<1>1. /\ registrations' = [registrations EXCEPT ![r].status = "rejected"]
      /\ registrations[r].status = "pending"
  BY DEF Reject
<1> QED
  BY <1>1, RowTypes, StatusFacts

\* A delivered poll marks its request.
LEMMA DeliverPolledFacts ==
  ASSUME TypeOK, call.registration \in DOMAIN registrations, DeliverPolled
  PROVE  LET r == call.registration
         IN /\ registrations' \in Seq(Registration)
            /\ DOMAIN registrations' = DOMAIN registrations
            /\ registrations'[r].name = registrations[r].name
            /\ registrations'[r].status = "delivered"
            /\ \A x \in DOMAIN registrations \ {r} : registrations'[x] = registrations[x]
<1>1. registrations' = [registrations EXCEPT ![call.registration].status = "delivered"]
  BY DEF DeliverPolled
<1> QED
  BY <1>1, RowTypes, StatusFacts

\* A delivered enrollment marks its code, and the granted request of that name.
LEMMA DeliverEnrolledFacts ==
  ASSUME TypeOK, call.step = "enrolled" => call.code \in DOMAIN codes, DeliverEnrolled
  PROVE  /\ call.code \in DOMAIN codes
         /\ codes' \in Seq(Code) /\ DOMAIN codes' = DOMAIN codes
         /\ codes[call.code] \in Code
         /\ codes'[call.code].name = codes[call.code].name
         /\ codes'[call.code].status = "redeemed"
         /\ \A k \in DOMAIN codes \ {call.code} : codes'[k] = codes[k]
         /\ registrations' \in Seq(Registration)
         /\ DOMAIN registrations' = DOMAIN registrations
         /\ \A r \in DOMAIN registrations :
              /\ registrations[r] \in Registration
              /\ registrations'[r].name = registrations[r].name
              /\ registrations'[r].status =
                   IF /\ registrations[r].name = codes[call.code].name
                      /\ registrations[r].status = "approved"
                   THEN "delivered" ELSE registrations[r].status
<1>1. call.code \in DOMAIN codes
  BY DEF DeliverEnrolled
<1> DEFINE k == call.code
           row == [codes[k] EXCEPT !.status = "redeemed"]
<1>2. codes \in Seq(Code) /\ codes[k] \in Code
  BY <1>1 DEF TypeOK
<1>3. row \in Code /\ row.name = codes[k].name /\ row.status = "redeemed"
  BY <1>2 DEF Code
<1>4. codes' = [codes EXCEPT ![k] = row]
  BY DEF DeliverEnrolled
<1> HIDE DEF k, row
<1>5. /\ codes' \in Seq(Code) /\ DOMAIN codes' = DOMAIN codes /\ codes'[k] = row
      /\ \A x \in DOMAIN codes \ {k} : codes'[x] = codes[x]
  BY <1>1, <1>2, <1>3, <1>4, RowReplaced DEF k
<1>6. registrations' = [r \in DOMAIN registrations |->
        IF registrations[r].name = codes[k].name /\ registrations[r].status = "approved"
        THEN [registrations[r] EXCEPT !.status = "delivered"]
        ELSE registrations[r]]
  BY DEF DeliverEnrolled, k
<1>7. ASSUME NEW r \in DOMAIN registrations
      PROVE  /\ registrations[r] \in Registration /\ registrations'[r] \in Registration
             /\ registrations'[r].name = registrations[r].name
             /\ registrations'[r].status =
                  IF registrations[r].name = codes[k].name /\ registrations[r].status = "approved"
                  THEN "delivered" ELSE registrations[r].status
  <2>1. registrations[r] \in Registration
    BY DEF TypeOK
  <2> QED
    BY <1>6, <2>1 DEF Registration
<1>8. registrations' = [r \in DOMAIN registrations |-> registrations'[r]]
  BY <1>6
<1>9. registrations' \in Seq(Registration) /\ DOMAIN registrations' = DOMAIN registrations
  BY <1>7, <1>8, RowsReplaced DEF TypeOK
<1> QED
  BY <1>1, <1>2, <1>3, <1>5, <1>7, <1>9 DEF k

\* Revoking an identity kills its tokens and nobody else's.
LEMMA RevokeFacts ==
  ASSUME TypeOK, NEW n \in Names, RevokeIdentity(n)
  PROVE  /\ identities' \in [Names -> Identity]
         /\ identities'[n].status = "revoked"
         /\ \A x \in Names : /\ identities'[x].kind = identities[x].kind
                             /\ x # n => identities'[x] = identities[x]
         /\ credentials' \in Seq(Credential)
         /\ DOMAIN credentials' = DOMAIN credentials
         /\ Len(credentials') = Len(credentials)
         /\ \A c \in DOMAIN credentials :
              /\ credentials[c] \in Credential
              /\ credentials'[c].name = credentials[c].name
              /\ credentials'[c].ticket = credentials[c].ticket
              /\ credentials'[c].live <=> credentials[c].live /\ credentials[c].name # n
<1> DEFINE row == [identities[n] EXCEPT !.status = "revoked"]
<1>1. identities[n] \in Identity
  BY DEF TypeOK
<1>2. row \in Identity /\ row.kind = identities[n].kind /\ row.status = "revoked"
  BY <1>1 DEF Identity
<1>3. identities' = [identities EXCEPT ![n] = row]
  BY DEF RevokeIdentity
<1> HIDE DEF row
<1>4. /\ identities' \in [Names -> Identity] /\ identities'[n].status = "revoked"
      /\ \A x \in Names : /\ identities'[x].kind = identities[x].kind
                          /\ x # n => identities'[x] = identities[x]
  BY <1>2, <1>3 DEF TypeOK
<1>5. credentials' = [c \in DOMAIN credentials |-> IF credentials[c].name = n
                                                  THEN [credentials[c] EXCEPT !.live = FALSE]
                                                  ELSE credentials[c]]
  BY DEF RevokeIdentity
<1>6. ASSUME NEW c \in DOMAIN credentials
      PROVE  /\ credentials[c] \in Credential /\ credentials'[c] \in Credential
             /\ credentials'[c].name = credentials[c].name
             /\ credentials'[c].ticket = credentials[c].ticket
             /\ credentials'[c].live <=> credentials[c].live /\ credentials[c].name # n
  <2>1. credentials[c] \in Credential
    BY DEF TypeOK
  <2> QED
    BY <1>5, <2>1 DEF Credential
<1>7. credentials' = [c \in DOMAIN credentials |-> credentials'[c]]
  BY <1>5
<1>8. /\ credentials' \in Seq(Credential) /\ DOMAIN credentials' = DOMAIN credentials
      /\ Len(credentials') = Len(credentials)
  BY <1>6, <1>7, RowsReplaced DEF TypeOK
<1> QED
  BY <1>4, <1>6, <1>8

\* A logout ends one token, whose name and ticket stay.
LEMMA LogoutFacts ==
  ASSUME TypeOK, NEW c \in DOMAIN credentials, Logout(c)
  PROVE  /\ credentials' \in Seq(Credential)
         /\ DOMAIN credentials' = DOMAIN credentials
         /\ Len(credentials') = Len(credentials)
         /\ \A d \in DOMAIN credentials :
              /\ credentials[d] \in Credential
              /\ credentials'[d].name = credentials[d].name
              /\ credentials'[d].ticket = credentials[d].ticket
              /\ credentials'[d].live <=> credentials[d].live /\ d # c
<1> DEFINE row == [credentials[c] EXCEPT !.live = FALSE]
<1>1. \A d \in DOMAIN credentials : credentials[d] \in Credential
  BY DEF TypeOK
<1>2. /\ row \in Credential /\ row.name = credentials[c].name
      /\ row.ticket = credentials[c].ticket /\ ~row.live
  BY <1>1 DEF Credential
<1>3. credentials \in Seq(Credential) /\ credentials' = [credentials EXCEPT ![c] = row]
  BY DEF TypeOK, Logout
<1> HIDE DEF row
<1>4. /\ credentials' \in Seq(Credential) /\ DOMAIN credentials' = DOMAIN credentials
      /\ credentials'[c] = row /\ Len(credentials') = Len(credentials)
      /\ \A d \in DOMAIN credentials \ {c} : credentials'[d] = credentials[d]
  BY <1>2, <1>3, RowReplaced
<1> QED
  BY <1>1, <1>2, <1>4

----------------------------------------------------------------------------
(* The inductive invariant                                                 *)

\* A registration that was granted has its identity.
Granted ==
  \A r \in DOMAIN registrations :
    registrations[r].status \in {"approved", "delivered"}
      => identities[registrations[r].name].kind # "none"

\* The newest token waits to be delivered for the ticket.
InHand(ticket) ==
  /\ Len(credentials) \in DOMAIN credentials \ sent
  /\ credentials[Len(credentials)].live
  /\ credentials[Len(credentials)].ticket = ticket

\* Between its transactions a call has the newest token in hand, and its ticket
\* is as the first transaction found it.
CallFits ==
  /\ call.step = "polled" =>
       /\ call.registration \in DOMAIN registrations
       /\ registrations[call.registration].status = "approved"
       /\ InHand(ByPoll(call.registration))
  /\ call.step = "enrolled" =>
       /\ call.code \in DOMAIN codes
       /\ codes[call.code].status = "open"
       /\ InHand(ByCode(call.code))

\* The ticket of the token c is for the same clanker; it is marked as paid; it
\* can still be paid.
Fit(c) ==
  LET ticket == credentials[c].ticket
  IN IF ticket.by = "code"
     THEN ticket.id \in DOMAIN codes /\ codes[ticket.id].name = credentials[c].name
     ELSE /\ ticket.id \in DOMAIN registrations
          /\ registrations[ticket.id].name = credentials[c].name
Marked(c) ==
  LET ticket == credentials[c].ticket
  IN IF ticket.by = "code" THEN codes[ticket.id].status = "redeemed"
     ELSE registrations[ticket.id].status = "delivered"
Payable(c) ==
  LET ticket == credentials[c].ticket
  IN IF ticket.by = "code" THEN codes[ticket.id].status # "redeemed"
     ELSE registrations[ticket.id].status = "approved"

TicketFits == \A c \in DOMAIN credentials : Fit(c)

SentIsMarked == \A c \in sent : Marked(c)

IInv ==
  /\ TypeOK
  /\ OneLiveToken
  /\ OneRegistrationPerName
  /\ OneOpenCode
  /\ RevokedGetsNoneByCode
  /\ Granted
  /\ CallFits
  /\ TicketFits
  /\ SentIsMarked
  /\ TicketPaysOnce
  /\ FailureCostsNoTicket

\* Every step keeps the types.
LEMMA TypeStep == TypeOK /\ CallFits /\ [Next]_vars => TypeOK'
<1> SUFFICES ASSUME TypeOK, CallFits, [Next]_vars PROVE TypeOK'
  OBVIOUS
<1>0. Idle \in Call /\ DOMAIN registrations \subseteq Nat /\ DOMAIN codes \subseteq Nat
  BY DEF Call, TypeOK
<1>1. ASSUME NEW n \in Names, Register(n) PROVE TypeOK'
  BY <1>1, RegisterFacts DEF Register, TypeOK
<1>2. ASSUME NEW r \in DOMAIN registrations, Approve(r) PROVE TypeOK'
  <2>1. registrations[r].name \in Names
    BY <1>2, ApproveFacts DEF Registration
  <2>2. call' \in Call
    BY <1>2, <2>1 DEF Approve, Call
  <2>3. UNCHANGED <<codes, credentials, overdue, lapsed, sent, failures>>
    BY <1>2 DEF Approve
  <2>4. registrations' \in Seq(Registration) /\ identities' \in [Names -> Identity]
    BY <1>2, ApproveFacts
  <2> QED
    BY <2>2, <2>3, <2>4 DEF TypeOK
<1>3. ASSUME NEW r \in DOMAIN registrations, Reject(r) PROVE TypeOK'
  <2>1. registrations' \in Seq(Registration)
    BY <1>3, RejectFacts
  <2> QED
    BY <1>3, <2>1 DEF Reject, TypeOK
<1>4. ASSUME NEW r \in DOMAIN registrations, Poll(r) PROVE TypeOK'
  <2>1. registrations[r].name \in Names
    BY RowTypes
  <2>2. ByPoll(r) \in Ticket
    BY <1>0 DEF ByPoll, Ticket
  <2>3. credentials' \in Seq(Credential) /\ DOMAIN credentials \subseteq DOMAIN credentials'
    BY <1>4, <2>1, <2>2, MintFacts DEF Poll
  <2>4. registrations' \in Seq(Registration)
    BY <1>4, ExpireFacts DEF Poll
  <2>5. call' \in Call
    BY <1>0, <1>4 DEF Poll, Call
  <2> QED
    BY <1>4, <2>3, <2>4, <2>5 DEF Poll, TypeOK
<1>5. ASSUME DeliverPolled PROVE TypeOK'
  <2>1. call.registration \in DOMAIN registrations /\ Len(credentials) \in DOMAIN credentials
    BY <1>5 DEF DeliverPolled, CallFits, InHand
  <2>2. registrations' \in Seq(Registration)
    BY <1>5, <2>1, DeliverPolledFacts
  <2> QED
    BY <1>0, <1>5, <2>1, <2>2 DEF DeliverPolled, TypeOK
<1>6. ASSUME IssueFirstCode PROVE TypeOK'
  <2>1. call.name \in Names
    BY <1>6 DEF IssueFirstCode, TypeOK, Call, Idle
  <2>2. codes' \in Seq(Code)
    BY <1>6, <2>1, CodeFacts DEF IssueFirstCode
  <2> QED
    BY <1>0, <1>6, <2>2 DEF IssueFirstCode, TypeOK
<1>7. ASSUME NEW n \in Names, IssueAnotherCode(n) PROVE TypeOK'
  <2>1. codes' \in Seq(Code)
    BY <1>7, CodeFacts DEF IssueAnotherCode
  <2> QED
    BY <1>7, <2>1 DEF IssueAnotherCode, TypeOK
<1>8. ASSUME NEW k \in DOMAIN codes, Enroll(k) PROVE TypeOK'
  <2>1. codes[k].name \in Names
    BY RowTypes
  <2>2. ByCode(k) \in Ticket
    BY <1>0 DEF ByCode, Ticket
  <2>3. credentials' \in Seq(Credential) /\ DOMAIN credentials \subseteq DOMAIN credentials'
    BY <1>8, <2>1, <2>2, MintFacts DEF Enroll
  <2>4. call' \in Call
    BY <1>0, <1>8 DEF Enroll, Call
  <2> QED
    BY <1>8, <2>3, <2>4 DEF Enroll, TypeOK
<1>9. ASSUME DeliverEnrolled PROVE TypeOK'
  <2>1. call.code \in DOMAIN codes /\ Len(credentials) \in DOMAIN credentials
    BY <1>9 DEF DeliverEnrolled, CallFits, InHand
  <2>2. codes' \in Seq(Code) /\ registrations' \in Seq(Registration)
    BY <1>9, <2>1, DeliverEnrolledFacts
  <2> QED
    BY <1>0, <1>9, <2>1, <2>2 DEF DeliverEnrolled, TypeOK
<1>10. ASSUME NEW n \in Names, CreateHuman(n) PROVE TypeOK'
  <2>1. [kind |-> "human", status |-> "active"] \in Identity
    BY DEF Identity
  <2> QED
    BY <1>10, <2>1 DEF CreateHuman, TypeOK
<1>11. ASSUME NEW n \in Names, RevokeIdentity(n) PROVE TypeOK'
  <2>1. /\ identities' \in [Names -> Identity] /\ credentials' \in Seq(Credential)
        /\ DOMAIN credentials' = DOMAIN credentials
    BY <1>11, RevokeFacts
  <2> QED
    BY <1>11, <2>1 DEF RevokeIdentity, TypeOK
<1>12. ASSUME NEW c \in DOMAIN credentials, Logout(c) PROVE TypeOK'
  <2>1. credentials' \in Seq(Credential) /\ DOMAIN credentials' = DOMAIN credentials
    BY <1>12, LogoutFacts
  <2> QED
    BY <1>12, <2>1 DEF Logout, TypeOK
<1>13. ASSUME RegistrationAges \/ CodeLapses \/ Fail \/ UNCHANGED vars PROVE TypeOK'
  BY <1>0, <1>13 DEF RegistrationAges, CodeLapses, Fail, vars, tables, TypeOK
<1> HIDE DEF TypeOK
<1> QED
  BY <1>1, <1>2, <1>3, <1>4, <1>5, <1>6, <1>7, <1>8, <1>9, <1>10, <1>11, <1>12, <1>13
  DEF Next

----------------------------------------------------------------------------
(* Rows stay, and change in a few ways only                                *)

RegistrationsMove ==
  /\ DOMAIN registrations \subseteq DOMAIN registrations'
  /\ DOMAIN registrations' # DOMAIN registrations => \E n \in Names : Register(n)
  /\ \A r \in DOMAIN registrations :
       LET before == registrations[r].status
           after == registrations'[r].status
       IN /\ registrations'[r].name = registrations[r].name
          /\ \/ before = after
             \/ before = "pending" /\ after = "approved" /\ ~(r <= overdue) /\ Approve(r)
             \/ before = "pending" /\ after = "expired" /\ r <= overdue
             \/ before = "pending" /\ after = "rejected"
             \/ /\ before = "approved" /\ after = "delivered"
                /\ DeliverPolled \/ DeliverEnrolled

CodesMove ==
  /\ DOMAIN codes \subseteq DOMAIN codes'
  /\ DOMAIN codes' # DOMAIN codes => \E n \in Names : IssueCode(n)
  /\ \A k \in DOMAIN codes :
       LET before == codes[k].status
           after == codes'[k].status
       IN /\ codes'[k].name = codes[k].name
          /\ \/ before = after
             \/ before = "open" /\ after = "superseded"
             \/ after = "redeemed" /\ DeliverEnrolled

TokensMove ==
  /\ DOMAIN credentials \subseteq DOMAIN credentials'
  /\ DOMAIN credentials' # DOMAIN credentials =>
       (\E r \in DOMAIN registrations : Poll(r)) \/ (\E k \in DOMAIN codes : Enroll(k))
  /\ \A c \in DOMAIN credentials :
       /\ credentials'[c].name = credentials[c].name
       /\ credentials'[c].ticket = credentials[c].ticket
       /\ credentials'[c].live => credentials[c].live
       /\ credentials[c].live /\ ~credentials'[c].live =>
            \/ identities'[credentials[c].name].status = "revoked"
            \/ Logout(c)
            \/ \E d \in DOMAIN credentials' \ DOMAIN credentials :
                 credentials'[d].name = credentials[c].name

\* A new token replaces the live one of its name.
LEMMA MintMoves ==
  ASSUME TypeOK, NEW n \in Names, NEW ticket \in Ticket, Mint(n, ticket),
         (\E r \in DOMAIN registrations : Poll(r)) \/ (\E k \in DOMAIN codes : Enroll(k))
  PROVE  TokensMove
<1> DEFINE d == Len(credentials')
<1>0. credentials'[d] = [name |-> n, ticket |-> ticket, live |-> TRUE]
  BY MintFacts
<1>1. DOMAIN credentials' = DOMAIN credentials \cup {d} /\ d \notin DOMAIN credentials
  BY MintFacts
<1>3. \A c \in DOMAIN credentials :
        /\ credentials'[c].name = credentials[c].name
        /\ credentials'[c].ticket = credentials[c].ticket
        /\ credentials'[c].live <=> credentials[c].live /\ credentials[c].name # n
  BY MintFacts
<1> HIDE DEF d
<1>2. ASSUME NEW c \in DOMAIN credentials, credentials[c].live, ~credentials'[c].live
      PROVE  \E x \in DOMAIN credentials' \ DOMAIN credentials :
               credentials'[x].name = credentials[c].name
  <2>0. credentials'[d].name = n
    BY <1>0
  <2>1. d \in DOMAIN credentials' \ DOMAIN credentials /\ credentials[c].name = n
    BY <1>1, <1>2, <1>3
  <2> QED
    BY <2>0, <2>1
<1> QED
  BY <1>1, <1>2, <1>3 DEF TokensMove

\* Rows change only along their life cycles.
LEMMA RowsMove ==
  ASSUME TypeOK, CallFits, [Next]_vars
  PROVE  RegistrationsMove /\ CodesMove /\ TokensMove
<1>r. ASSUME UNCHANGED registrations PROVE RegistrationsMove
  BY <1>r DEF RegistrationsMove
<1>k. ASSUME UNCHANGED codes PROVE CodesMove
  BY <1>k DEF CodesMove
<1>c. ASSUME UNCHANGED credentials PROVE TokensMove
  BY <1>c DEF TokensMove
<1>e. ASSUME registrations' = LazyExpire(registrations) PROVE RegistrationsMove
  BY <1>e, ExpireFacts DEF RegistrationsMove
<1> DEFINE Moves == RegistrationsMove /\ CodesMove /\ TokensMove
<1>1. ASSUME NEW n \in Names, Register(n) PROVE Moves
  <2>1. RegistrationsMove
    BY <1>1, RegisterFacts, ExpireFacts DEF RegistrationsMove
  <2> QED
    BY <1>1, <1>k, <1>c, <2>1 DEF Register
<1>2. ASSUME NEW r \in DOMAIN registrations, Approve(r) PROVE Moves
  <2>1. RegistrationsMove
    BY <1>2, ApproveFacts, ExpireFacts DEF RegistrationsMove
  <2> QED
    BY <1>2, <1>k, <1>c, <2>1 DEF Approve
<1>3. ASSUME NEW r \in DOMAIN registrations, Reject(r) PROVE Moves
  <2>1. RegistrationsMove
    BY <1>3, RejectFacts DEF RegistrationsMove
  <2> QED
    BY <1>3, <1>k, <1>c, <2>1 DEF Reject
<1>4. ASSUME NEW r \in DOMAIN registrations, Poll(r) PROVE Moves
  <2>1. registrations[r].name \in Names /\ ByPoll(r) \in Ticket
    BY RowTypes DEF ByPoll, Ticket, TypeOK
  <2>2. Mint(registrations[r].name, ByPoll(r))
    BY <1>4 DEF Poll
  <2>3. TokensMove
    BY <1>4, <2>1, <2>2, MintMoves
  <2> QED
    BY <1>4, <1>k, <1>e, <2>3 DEF Poll
<1>5. ASSUME DeliverPolled PROVE Moves
  <2>1. /\ call.registration \in DOMAIN registrations
        /\ registrations[call.registration].status = "approved"
    BY <1>5 DEF DeliverPolled, CallFits
  <2>2. RegistrationsMove
    BY <1>5, <2>1, DeliverPolledFacts DEF RegistrationsMove
  <2> QED
    BY <1>5, <1>k, <1>c, <2>2 DEF DeliverPolled
<1>6. ASSUME IssueFirstCode PROVE Moves
  <2>1. call.name \in Names
    BY <1>6 DEF IssueFirstCode, TypeOK, Call, Idle
  <2>2. CodesMove
    BY <1>6, <2>1, CodeFacts DEF IssueFirstCode, CodesMove
  <2> QED
    BY <1>6, <1>r, <1>c, <2>2 DEF IssueFirstCode
<1>7. ASSUME NEW n \in Names, IssueAnotherCode(n) PROVE Moves
  <2>1. CodesMove
    BY <1>7, CodeFacts DEF IssueAnotherCode, CodesMove
  <2> QED
    BY <1>7, <1>r, <1>c, <2>1 DEF IssueAnotherCode
<1>8. ASSUME NEW k \in DOMAIN codes, Enroll(k) PROVE Moves
  <2>1. codes[k].name \in Names /\ ByCode(k) \in Ticket
    BY RowTypes DEF ByCode, Ticket, TypeOK
  <2>2. Mint(codes[k].name, ByCode(k))
    BY <1>8 DEF Enroll
  <2>3. TokensMove
    BY <1>8, <2>1, <2>2, MintMoves
  <2> QED
    BY <1>8, <1>k, <1>r, <2>3 DEF Enroll
<1>9. ASSUME DeliverEnrolled PROVE Moves
  <2>1. call.step = "enrolled" => call.code \in DOMAIN codes
    BY DEF CallFits
  <2>2. RegistrationsMove /\ CodesMove
    BY <1>9, <2>1, DeliverEnrolledFacts DEF RegistrationsMove, CodesMove
  <2> QED
    BY <1>9, <1>c, <2>2 DEF DeliverEnrolled
<1>10. ASSUME NEW n \in Names, CreateHuman(n) PROVE Moves
  BY <1>10, <1>r, <1>k, <1>c DEF CreateHuman
<1>11. ASSUME NEW n \in Names, RevokeIdentity(n) PROVE Moves
  <2>1. TokensMove
    BY <1>11, RevokeFacts DEF TokensMove
  <2> QED
    BY <1>11, <1>r, <1>k, <2>1 DEF RevokeIdentity
<1>12. ASSUME NEW c \in DOMAIN credentials, Logout(c) PROVE Moves
  <2>1. TokensMove
    BY <1>12, LogoutFacts DEF TokensMove
  <2> QED
    BY <1>12, <1>r, <1>k, <2>1 DEF Logout
<1>13. ASSUME RegistrationAges \/ CodeLapses \/ Fail \/ UNCHANGED vars PROVE Moves
  BY <1>13, <1>r, <1>k, <1>c DEF RegistrationAges, CodeLapses, Fail, vars, tables
<1> HIDE DEF Moves
<1>14. Moves
  BY <1>1, <1>2, <1>3, <1>4, <1>5, <1>6, <1>7, <1>8, <1>9, <1>10, <1>11, <1>12, <1>13
  DEF Next
<1> QED
  BY <1>14 DEF Moves

\* An identity stays, and stops being active only when it is revoked.
LEMMA IdentitiesMove ==
  ASSUME TypeOK, [Next]_vars
  PROVE  \A n \in Names :
           /\ identities[n].kind # "none" => identities'[n].kind # "none"
           /\ identities[n].status = "active" =>
                identities'[n].status = "active" \/ RevokeIdentity(n)
<1> DEFINE Moves == \A n \in Names :
           /\ identities[n].kind # "none" => identities'[n].kind # "none"
           /\ identities[n].status = "active" =>
                identities'[n].status = "active" \/ RevokeIdentity(n)
<1>1. ASSUME NEW r \in DOMAIN registrations, Approve(r) PROVE Moves
  <2>1. registrations[r].name \in Names
    BY RowTypes
  <2>2. identities' = [identities EXCEPT ![registrations[r].name] =
                         [kind |-> "clanker", status |-> "active"]]
    BY <1>1 DEF Approve
  <2> QED
    BY <2>1, <2>2 DEF TypeOK
<1>2. ASSUME NEW n \in Names, CreateHuman(n) PROVE Moves
  BY <1>2 DEF CreateHuman, TypeOK
<1>3. ASSUME NEW n \in Names, RevokeIdentity(n) PROVE Moves
  BY <1>3, RevokeFacts
<1>4. ASSUME UNCHANGED identities PROVE Moves
  BY <1>4
<1>5. ASSUME NEW n, Register(n) \/ IssueAnotherCode(n) PROVE UNCHANGED identities
  BY <1>5 DEF Register, IssueAnotherCode
<1>6. ASSUME NEW i, Reject(i) \/ Poll(i) \/ Enroll(i) \/ Logout(i)
      PROVE  UNCHANGED identities
  BY <1>6 DEF Reject, Poll, Enroll, Logout
<1>7. ASSUME \/ DeliverPolled \/ IssueFirstCode \/ DeliverEnrolled
             \/ RegistrationAges \/ CodeLapses \/ Fail \/ UNCHANGED vars
      PROVE  UNCHANGED identities
  BY <1>7 DEF DeliverPolled, IssueFirstCode, DeliverEnrolled, RegistrationAges, CodeLapses,
              Fail, vars, tables
<1> HIDE DEF Moves
<1>8. Moves
  BY <1>1, <1>2, <1>3, <1>4, <1>5, <1>6, <1>7 DEF Next
<1> QED
  BY <1>8 DEF Moves

----------------------------------------------------------------------------
(* The parts of the invariant                                              *)

\* Every step keeps one claim to a name, and gives what is granted an identity.
LEMMA RegistrationStep ==
  ASSUME IInv, [Next]_vars
  PROVE  OneRegistrationPerName' /\ Granted'
<1> DEFINE Claims == {"pending", "approved", "delivered"}
<1>0. TypeOK /\ CallFits /\ Granted
  BY DEF IInv
<1>1. RegistrationsMove
  BY <1>0, RowsMove
<1>2. \A r \in DOMAIN registrations :
        /\ registrations'[r].name = registrations[r].name
        /\ registrations'[r].status \in Claims => registrations[r].status \in Claims
  BY <1>1 DEF RegistrationsMove
<1>3. Granted'
  <2>1. ASSUME NEW r \in DOMAIN registrations,
               registrations'[r].status \in {"approved", "delivered"}
        PROVE  identities'[registrations'[r].name].kind # "none"
    <3>1. registrations[r].name \in Names /\ registrations'[r].name = registrations[r].name
      BY <1>0, <1>2, RowTypes
    <3>2. CASE registrations[r].status \in {"approved", "delivered"}
      BY <1>0, <3>1, <3>2, IdentitiesMove DEF Granted
    <3>3. CASE Approve(r)
      <4>1. identities'[registrations[r].name].kind = "clanker"
        BY <1>0, <3>3, ApproveFacts
      <4> QED
        BY <3>1, <4>1
    <3> QED
      BY <1>1, <2>1, <3>2, <3>3 DEF RegistrationsMove
  <2>2. ASSUME NEW r \in DOMAIN registrations' \ DOMAIN registrations
        PROVE  registrations'[r].status = "pending"
    <3>1. PICK n \in Names : Register(n)
      BY <1>1, <2>2 DEF RegistrationsMove
    <3>2. r = Len(registrations')
      BY <1>0, <3>1, RegisterFacts
    <3> QED
      BY <1>0, <3>1, <3>2, RegisterFacts
  <2> QED
    BY <2>1, <2>2 DEF Granted
<1>4. ASSUME NEW r \in DOMAIN registrations', NEW s \in DOMAIN registrations',
             registrations'[r].name = registrations'[s].name,
             registrations'[r].status \in Claims, registrations'[s].status \in Claims
      PROVE  r = s
  <2>1. CASE r \in DOMAIN registrations /\ s \in DOMAIN registrations
    BY <1>2, <1>4, <2>1 DEF IInv, OneRegistrationPerName
  <2>2. CASE DOMAIN registrations' # DOMAIN registrations
    <3>1. PICK n \in Names : Register(n)
      BY <1>1, <2>2 DEF RegistrationsMove
    <3> DEFINE new == Len(registrations')
    <3>a. registrations'[new] = [name |-> n, status |-> "pending"]
      BY <1>0, <3>1, RegisterFacts
    <3>b. DOMAIN registrations' = DOMAIN registrations \cup {new}
      BY <1>0, <3>1, RegisterFacts
    <3> HIDE DEF new
    <3>2. registrations'[new].name = n
      BY <3>a
    <3>3. identities[n].kind = "none" /\ ~HasLive(n)
      BY <3>1 DEF Register
    <3>4. \A x \in DOMAIN registrations :
            registrations[x].status \in Claims => registrations[x].name # n
      BY <1>0, <3>3 DEF Granted, HasLive
    <3>5. \A x \in DOMAIN registrations :
            registrations'[x].status \in Claims => registrations'[x].name # n
      BY <1>2, <3>4
    <3> QED
      BY <1>4, <2>1, <3>b, <3>2, <3>5
  <2> QED
    BY <2>1, <2>2
<1> QED
  BY <1>3, <1>4 DEF OneRegistrationPerName

\* Every step keeps one open code per name.
LEMMA CodeStep ==
  ASSUME IInv, [Next]_vars
  PROVE  OneOpenCode'
<1>0. TypeOK /\ CallFits /\ OneOpenCode
  BY DEF IInv
<1>1. CodesMove
  BY <1>0, RowsMove
<1>2. \A k \in DOMAIN codes :
        /\ codes'[k].name = codes[k].name
        /\ codes'[k].status = "open" => codes[k].status = "open"
  BY <1>1 DEF CodesMove
<1>3. ASSUME NEW j \in DOMAIN codes', NEW k \in DOMAIN codes',
             codes'[j].name = codes'[k].name,
             codes'[j].status = "open", codes'[k].status = "open"
      PROVE  j = k
  <2>1. CASE j \in DOMAIN codes /\ k \in DOMAIN codes
    BY <1>0, <1>2, <1>3, <2>1 DEF OneOpenCode
  <2>2. CASE DOMAIN codes' # DOMAIN codes
    <3>1. PICK n \in Names : IssueCode(n)
      BY <1>1, <2>2 DEF CodesMove
    <3> DEFINE new == Len(codes')
    <3>a. codes'[new] = [name |-> n, status |-> "open"]
      BY <1>0, <3>1, CodeFacts
    <3>b. DOMAIN codes' = DOMAIN codes \cup {new}
      BY <1>0, <3>1, CodeFacts
    <3>c. \A x \in DOMAIN codes : codes'[x].status = "open" => codes'[x].name # n
      BY <1>0, <3>1, CodeFacts
    <3> HIDE DEF new
    <3>2. codes'[new].name = n
      BY <3>a
    <3> QED
      BY <1>3, <2>1, <3>b, <3>c, <3>2
  <2> QED
    BY <2>1, <2>2
<1> QED
  BY <1>3 DEF OneOpenCode

\* Every step keeps one live token per name, and none by code to whom is revoked.
LEMMA TokenStep ==
  ASSUME IInv, [Next]_vars
  PROVE  OneLiveToken' /\ RevokedGetsNoneByCode'
<1>0. TypeOK /\ CallFits /\ OneLiveToken /\ RevokedGetsNoneByCode
  BY DEF IInv
<1>1. TokensMove
  BY <1>0, RowsMove
<1>2. \A c \in DOMAIN credentials :
        /\ credentials'[c].name = credentials[c].name
        /\ credentials'[c].ticket = credentials[c].ticket
        /\ credentials'[c].live => credentials[c].live
  BY <1>1 DEF TokensMove
<1>3. ASSUME NEW new \in DOMAIN credentials' \ DOMAIN credentials
      PROVE  /\ DOMAIN credentials' = DOMAIN credentials \cup {new}
             /\ \A c \in DOMAIN credentials :
                  credentials'[c].live => credentials'[c].name # credentials'[new].name
             /\ credentials'[new].ticket.by = "code" =>
                  identities'[credentials'[new].name].status = "active"
  <2>1. CASE \E r \in DOMAIN registrations : Poll(r)
    <3>1. PICK r \in DOMAIN registrations : Poll(r)
      BY <2>1
    <3>2. /\ registrations[r].name \in Names /\ ByPoll(r) \in Ticket
          /\ Mint(registrations[r].name, ByPoll(r)) /\ ByPoll(r).by = "registration"
      BY <1>0, <3>1, RowTypes DEF Poll, ByPoll, Ticket, TypeOK
    <3>3. /\ DOMAIN credentials' = DOMAIN credentials \cup {Len(credentials')}
          /\ credentials'[Len(credentials')] =
               [name |-> registrations[r].name, ticket |-> ByPoll(r), live |-> TRUE]
      BY <1>0, <3>2, MintFacts
    <3>4. new = Len(credentials')
      BY <3>3
    <3>5. \A c \in DOMAIN credentials :
            /\ credentials'[c].name = credentials[c].name
            /\ credentials'[c].live <=> credentials[c].live /\ credentials[c].name # registrations[r].name
      BY <1>0, <3>2, MintFacts
    <3>6. /\ credentials'[new].name = registrations[r].name
          /\ credentials'[new].ticket = ByPoll(r)
      BY <3>3, <3>4
    <3>7. DOMAIN credentials' = DOMAIN credentials \cup {new}
      BY <3>3, <3>4
    <3> QED
      BY <3>2, <3>5, <3>6, <3>7
  <2>2. CASE \E k \in DOMAIN codes : Enroll(k)
    <3>1. PICK k \in DOMAIN codes : Enroll(k)
      BY <2>2
    <3>2. /\ codes[k].name \in Names /\ ByCode(k) \in Ticket
          /\ Mint(codes[k].name, ByCode(k))
          /\ identities'[codes[k].name].status = "active"
      BY <1>0, <3>1, RowTypes DEF Enroll, ByCode, Ticket, TypeOK
    <3>3. /\ DOMAIN credentials' = DOMAIN credentials \cup {Len(credentials')}
          /\ credentials'[Len(credentials')] =
               [name |-> codes[k].name, ticket |-> ByCode(k), live |-> TRUE]
      BY <1>0, <3>2, MintFacts
    <3>4. new = Len(credentials')
      BY <3>3
    <3>5. \A c \in DOMAIN credentials :
            /\ credentials'[c].name = credentials[c].name
            /\ credentials'[c].live <=> credentials[c].live /\ credentials[c].name # codes[k].name
      BY <1>0, <3>2, MintFacts
    <3>6. /\ credentials'[new].name = codes[k].name
          /\ credentials'[new].ticket = ByCode(k)
      BY <3>3, <3>4
    <3>7. DOMAIN credentials' = DOMAIN credentials \cup {new}
      BY <3>3, <3>4
    <3> QED
      BY <3>2, <3>5, <3>6, <3>7
  <2> QED
    BY <1>1, <2>1, <2>2 DEF TokensMove
<1>4. ASSUME NEW c \in DOMAIN credentials', NEW d \in DOMAIN credentials',
             credentials'[c].live, credentials'[d].live,
             credentials'[c].name = credentials'[d].name
      PROVE  c = d
  BY <1>0, <1>2, <1>3, <1>4 DEF OneLiveToken
<1>5. ASSUME NEW c \in DOMAIN credentials', credentials'[c].live,
             credentials'[c].ticket.by = "code"
      PROVE  identities'[credentials'[c].name].status = "active"
  <2>1. CASE c \in DOMAIN credentials
    <3>1. /\ identities[credentials[c].name].status = "active"
          /\ credentials[c].name \in Names /\ credentials'[c].name = credentials[c].name
      BY <1>0, <1>2, <1>5, <2>1, RowTypes DEF RevokedGetsNoneByCode
    <3>2. ~RevokeIdentity(credentials[c].name)
      BY <1>0, <1>5, <2>1, <3>1, RevokeFacts
    <3> QED
      BY <1>0, <3>1, <3>2, IdentitiesMove
  <2> QED
    BY <1>3, <1>5, <2>1
<1> QED
  BY <1>4, <1>5 DEF OneLiveToken, RevokedGetsNoneByCode

\* Steps that deliver nothing: nothing more is sent, and unless they mint no
\* call gets a token in hand.
LEMMA Quiet ==
  ASSUME [Next]_vars, ~DeliverPolled, ~DeliverEnrolled
  PROVE  /\ sent' = sent
         /\ \/ \E r \in DOMAIN registrations : Poll(r)
            \/ \E k \in DOMAIN codes : Enroll(k)
            \/ call'.step \notin {"polled", "enrolled"}
            \/ call' = call /\ UNCHANGED tables
<1> DEFINE Rest == \/ call'.step \notin {"polled", "enrolled"}
                   \/ call' = call /\ UNCHANGED tables
<1>1. ASSUME NEW n, \/ Register(n) \/ IssueAnotherCode(n) \/ CreateHuman(n)
                    \/ RevokeIdentity(n) \/ Reject(n) \/ Logout(n)
      PROVE  sent' = sent /\ Rest
  BY <1>1 DEF Register, IssueAnotherCode, CreateHuman, RevokeIdentity, Reject, Logout, Idle
<1>2. ASSUME NEW r, Approve(r) PROVE sent' = sent /\ Rest
  BY <1>2 DEF Approve
<1>3. ASSUME NEW i, Poll(i) \/ Enroll(i) PROVE sent' = sent
  BY <1>3 DEF Poll, Enroll
<1>4. ASSUME \/ IssueFirstCode \/ RegistrationAges \/ CodeLapses \/ Fail \/ UNCHANGED vars
      PROVE  sent' = sent /\ Rest
  BY <1>4 DEF IssueFirstCode, RegistrationAges, CodeLapses, Fail, vars, tables, Idle
<1> HIDE DEF Rest
<1>5. /\ sent' = sent
      /\ \/ \E r \in DOMAIN registrations : Poll(r)
         \/ \E k \in DOMAIN codes : Enroll(k)
         \/ Rest
  BY <1>1, <1>2, <1>3, <1>4 DEF Next
<1> QED
  BY <1>5 DEF Rest

\* No step takes away what holds of a ticket, but for the deliveries.
LEMMA TicketsStay ==
  ASSUME IInv, [Next]_vars, NEW c \in DOMAIN credentials
  PROVE  /\ Fit(c)'
         /\ Marked(c) => Marked(c)'
         /\ Payable(c) /\ ~DeliverPolled /\ ~DeliverEnrolled => Payable(c)'
<1>0. TypeOK /\ CallFits /\ Fit(c)
  BY DEF IInv, TicketFits
<1>1. RegistrationsMove /\ CodesMove /\ TokensMove
  BY <1>0, RowsMove
<1> DEFINE ticket == credentials[c].ticket
<1>2. /\ credentials'[c].ticket = ticket /\ credentials'[c].name = credentials[c].name
  BY <1>1 DEF TokensMove
<1>3. CASE ticket.by = "code"
  <2>1. ticket.id \in DOMAIN codes /\ codes[ticket.id].name = credentials[c].name
    BY <1>0, <1>3 DEF Fit
  <2>2. /\ ticket.id \in DOMAIN codes' /\ codes'[ticket.id].name = credentials[c].name
        /\ codes[ticket.id].status = "redeemed" => codes'[ticket.id].status = "redeemed"
        /\ codes[ticket.id].status # "redeemed" /\ ~DeliverEnrolled
             => codes'[ticket.id].status # "redeemed"
    BY <1>1, <2>1 DEF CodesMove
  <2> QED
    BY <1>2, <1>3, <2>2 DEF Fit, Marked, Payable
<1>4. CASE ticket.by # "code"
  <2>1. /\ ticket.id \in DOMAIN registrations
        /\ registrations[ticket.id].name = credentials[c].name
    BY <1>0, <1>4 DEF Fit
  <2>2. /\ ticket.id \in DOMAIN registrations'
        /\ registrations'[ticket.id].name = credentials[c].name
        /\ registrations[ticket.id].status = "delivered"
             => registrations'[ticket.id].status = "delivered"
        /\ registrations[ticket.id].status = "approved" /\ ~DeliverPolled /\ ~DeliverEnrolled
             => registrations'[ticket.id].status = "approved"
    BY <1>1, <2>1 DEF RegistrationsMove
  <2> QED
    BY <1>2, <1>4, <2>2 DEF Fit, Marked, Payable
<1> QED
  BY <1>3, <1>4

\* A mint takes its token in hand.
LEMMA PollInHand ==
  ASSUME IInv, NEW r \in DOMAIN registrations, Poll(r)
  PROVE  /\ CallFits'
         /\ \E new : /\ DOMAIN credentials' = DOMAIN credentials \cup {new}
                     /\ Fit(new)' /\ Payable(new)'
<1> PICK new : new = Len(credentials')
  OBVIOUS
<1>0. TypeOK /\ sent \subseteq DOMAIN credentials
  BY DEF IInv, TypeOK
<1>1. /\ registrations[r].name \in Names /\ ByPoll(r) \in Ticket
      /\ Mint(registrations[r].name, ByPoll(r)) /\ ByPoll(r).by # "code" /\ ByPoll(r).id = r
  BY <1>0, RowTypes DEF Poll, ByPoll, Ticket, TypeOK
<1>2. credentials'[new] = [name |-> registrations[r].name, ticket |-> ByPoll(r), live |-> TRUE]
  BY <1>0, <1>1, MintFacts
<1>3. DOMAIN credentials' = DOMAIN credentials \cup {new} /\ new \notin DOMAIN credentials
  BY <1>0, <1>1, MintFacts
<1>4. /\ DOMAIN registrations' = DOMAIN registrations
      /\ registrations'[r].name = registrations[r].name
      /\ registrations'[r].status = "approved"
  BY <1>0, ExpireFacts DEF Poll
<1>5. call' = [step |-> "polled", registration |-> r] /\ sent' = sent
  BY DEF Poll
<1>6. new \in DOMAIN credentials' \ sent'
  BY <1>0, <1>3, <1>5
<1>7. InHand(ByPoll(r))'
  BY <1>2, <1>6 DEF InHand, ByPoll
<1>8. CallFits'
  BY <1>4, <1>5, <1>7 DEF CallFits
<1>9. credentials'[new].ticket = ByPoll(r) /\ credentials'[new].name = registrations[r].name
  BY <1>2
<1>10. Fit(new)' /\ Payable(new)'
  BY <1>1, <1>4, <1>9 DEF Fit, Payable
<1> QED
  BY <1>3, <1>8, <1>10

\* An enrollment's call names its code and the token it has just made.
LEMMA EnrollInHand ==
  ASSUME IInv, NEW k \in DOMAIN codes, Enroll(k)
  PROVE  /\ CallFits'
         /\ \E new : /\ DOMAIN credentials' = DOMAIN credentials \cup {new}
                     /\ Fit(new)' /\ Payable(new)'
<1> PICK new : new = Len(credentials')
  OBVIOUS
<1>0. TypeOK /\ sent \subseteq DOMAIN credentials
  BY DEF IInv, TypeOK
<1>1. /\ codes[k].name \in Names /\ ByCode(k) \in Ticket
      /\ Mint(codes[k].name, ByCode(k)) /\ ByCode(k).by = "code" /\ ByCode(k).id = k
  BY <1>0, RowTypes DEF Enroll, ByCode, Ticket, TypeOK
<1>2. credentials'[new] = [name |-> codes[k].name, ticket |-> ByCode(k), live |-> TRUE]
  BY <1>0, <1>1, MintFacts
<1>3. DOMAIN credentials' = DOMAIN credentials \cup {new} /\ new \notin DOMAIN credentials
  BY <1>0, <1>1, MintFacts
<1>4. UNCHANGED codes /\ codes[k].status = "open"
  BY DEF Enroll
<1>5. call' = [step |-> "enrolled", code |-> k] /\ sent' = sent
  BY DEF Enroll
<1>6. new \in DOMAIN credentials' \ sent'
  BY <1>0, <1>3, <1>5
<1>7. InHand(ByCode(k))'
  BY <1>2, <1>6 DEF InHand, ByCode
<1>8. CallFits'
  BY <1>4, <1>5, <1>7 DEF CallFits
<1>9. credentials'[new].ticket = ByCode(k) /\ credentials'[new].name = codes[k].name
  BY <1>2
<1>10. Fit(new)' /\ Payable(new)'
  BY <1>1, <1>4, <1>9 DEF Fit, Payable
<1> QED
  BY <1>3, <1>8, <1>10

\* What the two deliveries have in common: another live token that was not sent
\* is of another clanker, and the token in hand is the first that its ticket pays.
LEMMA HandIsAlone ==
  ASSUME IInv, NEW ticket, InHand(ticket),
         IF ticket.by = "code" THEN codes[ticket.id].status # "redeemed"
         ELSE registrations[ticket.id].status # "delivered"
  PROVE  LET last == Len(credentials)
         IN /\ \A c \in DOMAIN credentials \ (sent \cup {last}) :
                 credentials[c].live => /\ Fit(c) /\ Payable(c)
                                        /\ credentials[c].name # credentials[last].name
            /\ \A c \in sent : credentials[c].ticket # ticket
<1> DEFINE last == Len(credentials)
<1>1. last \in DOMAIN credentials /\ credentials[last].live /\ credentials[last].ticket = ticket
  BY DEF InHand
<1>2. OneLiveToken /\ TicketFits /\ SentIsMarked /\ FailureCostsNoTicket
  BY DEF IInv
<1> HIDE DEF last
<1>3. \A c \in DOMAIN credentials \ (sent \cup {last}) :
        credentials[c].live => Fit(c) /\ Payable(c)
  BY <1>2 DEF TicketFits, FailureCostsNoTicket, Payable
<1>4. \A c \in DOMAIN credentials \ (sent \cup {last}) :
        credentials[c].live => credentials[c].name # credentials[last].name
  BY <1>1, <1>2 DEF OneLiveToken
<1>5. ASSUME NEW c \in sent, credentials[c].ticket = ticket PROVE FALSE
  BY <1>2, <1>5 DEF SentIsMarked, Marked
<1> QED
  BY <1>3, <1>4, <1>5 DEF last

TicketInv ==
  CallFits /\ TicketFits /\ SentIsMarked /\ TicketPaysOnce /\ FailureCostsNoTicket

\* A poll that is delivered pays its ticket once.
LEMMA DeliverPolledStep ==
  ASSUME IInv, [Next]_vars, DeliverPolled
  PROVE  TicketInv'
<1> PICK r, last : r = call.registration /\ last = Len(credentials)
  OBVIOUS
<1>1. /\ UNCHANGED <<credentials, codes>> /\ sent' = sent \cup {last} /\ call' = Idle
      /\ TypeOK /\ TicketPaysOnce /\ TicketFits /\ SentIsMarked
  BY DEF DeliverPolled, IInv
<1>2. /\ r \in DOMAIN registrations /\ registrations[r].status = "approved"
      /\ InHand(ByPoll(r)) /\ ByPoll(r).by # "code" /\ ByPoll(r).id = r
  BY DEF IInv, CallFits, DeliverPolled, ByPoll
<1>3. /\ DOMAIN registrations' = DOMAIN registrations
      /\ registrations'[r].status = "delivered"
      /\ \A x \in DOMAIN registrations \ {r} : registrations'[x] = registrations[x]
  BY <1>1, <1>2, DeliverPolledFacts
<1>4. /\ \A c \in DOMAIN credentials \ (sent \cup {last}) :
           credentials[c].live => /\ Fit(c) /\ Payable(c)
                                  /\ credentials[c].name # credentials[last].name
      /\ \A c \in sent : credentials[c].ticket # ByPoll(r)
  BY <1>2, HandIsAlone
<1>5. last \in DOMAIN credentials /\ credentials[last].ticket = ByPoll(r)
  BY <1>2 DEF InHand
<1>6. sent \subseteq DOMAIN credentials
  BY <1>1 DEF TypeOK
<1>7. registrations[r].name = credentials[last].name
  BY <1>1, <1>2, <1>5 DEF TicketFits, Fit
<1>8. CallFits'
  BY <1>1 DEF CallFits, Idle
<1>9. TicketFits'
  BY <1>1, TicketsStay DEF TicketFits
<1>10. SentIsMarked'
  <2>1. ASSUME NEW c \in sent PROVE Marked(c)'
    BY <1>1, <1>6, TicketsStay DEF SentIsMarked
  <2>2. Marked(last)'
    BY <1>1, <1>2, <1>3, <1>5 DEF Marked
  <2> QED
    BY <1>1, <2>1, <2>2 DEF SentIsMarked, Marked
<1>11. TicketPaysOnce'
  BY <1>1, <1>4, <1>5 DEF TicketPaysOnce
<1>12. FailureCostsNoTicket'
  <2>1. ASSUME NEW c \in DOMAIN credentials \ (sent \cup {last}), credentials[c].live
        PROVE  Payable(c)'
    <3>1. Fit(c) /\ Payable(c) /\ credentials[c].name # credentials[last].name
      BY <1>4, <2>1
    <3>2. CASE credentials[c].ticket.by = "code"
      BY <1>1, <3>1, <3>2 DEF Payable
    <3>3. CASE credentials[c].ticket.by # "code"
      BY <1>1, <1>3, <1>7, <3>1, <3>3 DEF Payable, Fit
    <3> QED
      BY <3>2, <3>3
  <2> QED
    BY <1>1, <2>1 DEF FailureCostsNoTicket, Payable
<1> QED
  BY <1>8, <1>9, <1>10, <1>11, <1>12 DEF TicketInv

\* An enrollment that is delivered pays its ticket once.
LEMMA DeliverEnrolledStep ==
  ASSUME IInv, [Next]_vars, DeliverEnrolled
  PROVE  TicketInv'
<1> PICK k, last : k = call.code /\ last = Len(credentials)
  OBVIOUS
<1>1. /\ UNCHANGED credentials /\ sent' = sent \cup {last} /\ call' = Idle
      /\ TypeOK /\ TicketPaysOnce /\ TicketFits /\ SentIsMarked
  BY DEF DeliverEnrolled, IInv
<1>2. /\ k \in DOMAIN codes /\ codes[k].status = "open"
      /\ InHand(ByCode(k)) /\ ByCode(k).by = "code" /\ ByCode(k).id = k
  BY DEF IInv, CallFits, DeliverEnrolled, ByCode
<1>3. /\ DOMAIN codes' = DOMAIN codes /\ codes'[k].status = "redeemed"
      /\ \A x \in DOMAIN codes \ {k} : codes'[x] = codes[x]
      /\ DOMAIN registrations' = DOMAIN registrations
      /\ \A x \in DOMAIN registrations :
           registrations[x].name # codes[k].name
             => registrations'[x].status = registrations[x].status
  BY <1>1, <1>2, DeliverEnrolledFacts
<1>4. /\ \A c \in DOMAIN credentials \ (sent \cup {last}) :
           credentials[c].live => /\ Fit(c) /\ Payable(c)
                                  /\ credentials[c].name # credentials[last].name
      /\ \A c \in sent : credentials[c].ticket # ByCode(k)
  BY <1>2, HandIsAlone
<1>5. last \in DOMAIN credentials /\ credentials[last].ticket = ByCode(k)
  BY <1>2 DEF InHand
<1>6. sent \subseteq DOMAIN credentials
  BY <1>1 DEF TypeOK
<1>7. codes[k].name = credentials[last].name
  BY <1>1, <1>2, <1>5 DEF TicketFits, Fit
<1>8. CallFits'
  BY <1>1 DEF CallFits, Idle
<1>9. TicketFits'
  BY <1>1, TicketsStay DEF TicketFits
<1>10. SentIsMarked'
  <2>1. ASSUME NEW c \in sent PROVE Marked(c)'
    BY <1>1, <1>6, TicketsStay DEF SentIsMarked
  <2>2. Marked(last)'
    BY <1>1, <1>2, <1>3, <1>5 DEF Marked
  <2> QED
    BY <1>1, <2>1, <2>2 DEF SentIsMarked, Marked
<1>11. TicketPaysOnce'
  BY <1>1, <1>4, <1>5 DEF TicketPaysOnce
<1>12. FailureCostsNoTicket'
  <2>1. ASSUME NEW c \in DOMAIN credentials \ (sent \cup {last}), credentials[c].live
        PROVE  Payable(c)'
    <3>1. Fit(c) /\ Payable(c) /\ credentials[c].name # codes[k].name
      BY <1>4, <1>7, <2>1
    <3>2. CASE credentials[c].ticket.by = "code"
      BY <1>1, <1>3, <3>1, <3>2 DEF Payable, Fit
    <3>3. CASE credentials[c].ticket.by # "code"
      BY <1>1, <1>3, <3>1, <3>3 DEF Payable, Fit
    <3> QED
      BY <3>2, <3>3
  <2> QED
    BY <1>1, <2>1 DEF FailureCostsNoTicket, Payable
<1> QED
  BY <1>8, <1>9, <1>10, <1>11, <1>12 DEF TicketInv

\* Every step keeps what is said of tickets.
LEMMA TicketStep ==
  ASSUME IInv, [Next]_vars
  PROVE  TicketInv'
<1> SUFFICES ASSUME ~DeliverPolled, ~DeliverEnrolled PROVE TicketInv'
  BY DeliverPolledStep, DeliverEnrolledStep
<1>0. /\ TypeOK /\ CallFits /\ TicketFits /\ SentIsMarked /\ TicketPaysOnce
      /\ FailureCostsNoTicket /\ sent \subseteq DOMAIN credentials
  BY DEF IInv, TypeOK
<1>1. sent' = sent
  BY Quiet
<1>2. TokensMove
  BY <1>0, RowsMove
<1>3. \A c \in DOMAIN credentials :
        /\ c \in DOMAIN credentials' /\ credentials'[c].ticket = credentials[c].ticket
        /\ credentials'[c].live => credentials[c].live
  BY <1>2 DEF TokensMove
<1>4. ASSUME NEW c \in DOMAIN credentials
      PROVE  /\ Fit(c)'
             /\ c \in sent => Marked(c)'
             /\ c \notin sent /\ credentials'[c].live => Payable(c)'
  <2>1. c \in sent => Marked(c)
    BY <1>0 DEF SentIsMarked
  <2>2. c \notin sent /\ credentials[c].live => Payable(c)
    BY <1>0 DEF FailureCostsNoTicket, Payable
  <2> QED
    BY <1>3, <2>1, <2>2, TicketsStay
<1>5. /\ CallFits'
      /\ \A c \in DOMAIN credentials' \ DOMAIN credentials : Fit(c)' /\ Payable(c)'
  <2>1. CASE \E r \in DOMAIN registrations : Poll(r)
    BY <2>1, PollInHand
  <2>2. CASE \E k \in DOMAIN codes : Enroll(k)
    BY <2>2, EnrollInHand
  <2>3. CASE ~(\E r \in DOMAIN registrations : Poll(r)) /\ ~(\E k \in DOMAIN codes : Enroll(k))
    <3>1. DOMAIN credentials' = DOMAIN credentials
      BY <1>2, <2>3 DEF TokensMove
    <3>2. \/ call'.step \notin {"polled", "enrolled"}
          \/ call' = call /\ UNCHANGED tables
      BY <2>3, Quiet
    <3>3. CallFits'
      <4>1. CASE call'.step \notin {"polled", "enrolled"}
        BY <4>1 DEF CallFits
      <4>2. CASE call' = call /\ UNCHANGED tables
        BY <1>0, <1>1, <4>2 DEF CallFits, InHand, tables
      <4> QED
        BY <3>2, <4>1, <4>2
    <3> QED
      BY <3>1, <3>3
  <2> QED
    BY <2>1, <2>2, <2>3
<1>6. TicketFits'
  <2>1. ASSUME NEW c \in DOMAIN credentials' PROVE Fit(c)'
    BY <1>4, <1>5
  <2> QED
    BY <2>1 DEF TicketFits
<1>7. SentIsMarked'
  <2>1. ASSUME NEW c \in sent' PROVE Marked(c)'
    BY <1>0, <1>1, <1>4
  <2> QED
    BY <2>1 DEF SentIsMarked
<1>8. TicketPaysOnce'
  BY <1>0, <1>1, <1>3 DEF TicketPaysOnce
<1>9. FailureCostsNoTicket'
  <2>1. \A c \in DOMAIN credentials' \ sent' : credentials'[c].live => Payable(c)'
    BY <1>1, <1>4, <1>5
  <2> QED
    BY <2>1 DEF FailureCostsNoTicket, Payable
<1> QED
  BY <1>5, <1>6, <1>7, <1>8, <1>9 DEF TicketInv

----------------------------------------------------------------------------
(* The theorems                                                            *)

\* The invariant holds for ever.
LEMMA Invariant == Spec => []IInv
<1>1. Init => IInv
  <2> SUFFICES ASSUME Init PROVE IInv
    OBVIOUS
  <2>1. /\ DOMAIN registrations = {} /\ DOMAIN codes = {} /\ DOMAIN credentials = {}
        /\ call = Idle /\ sent = {}
    BY DEF Init
  <2>2. identities \in [Names -> Identity]
    BY DEF Init, Identity
  <2>3. TypeOK
    BY <2>2 DEF Init, TypeOK, Call
  <2> QED
    BY <2>1, <2>3 DEF IInv, OneLiveToken, OneRegistrationPerName, OneOpenCode,
       RevokedGetsNoneByCode, Granted, CallFits, TicketFits, SentIsMarked, TicketPaysOnce,
       FailureCostsNoTicket, Idle
<1>2. IInv /\ [Next]_vars => IInv'
  <2> SUFFICES ASSUME IInv, [Next]_vars PROVE IInv'
    OBVIOUS
  <2>1. TypeOK'
    BY TypeStep DEF IInv
  <2>2. OneRegistrationPerName' /\ Granted'
    BY RegistrationStep
  <2>3. OneOpenCode'
    BY CodeStep
  <2>4. OneLiveToken' /\ RevokedGetsNoneByCode'
    BY TokenStep
  <2>5. TicketInv'
    BY TicketStep
  <2> QED
    BY <2>1, <2>2, <2>3, <2>4, <2>5 DEF IInv, TicketInv
<1> QED
  BY <1>1, <1>2, PTL DEF Spec

\* The tables keep their types (schema.py:21-82).
THEOREM TypeCorrect == Spec => []TypeOK
BY Invariant, PTL DEF IInv

\* However clankers are enrolled and re-enrolled, and wherever calls fail, none has
\* two live tokens (auth.mint_agent_token).
THEOREM OneLiveTokenHolds == Spec => []OneLiveToken
BY Invariant, PTL DEF IInv

\* A name is requested, granted and delivered once (registry.register_request).
THEOREM OneRegistrationHolds == Spec => []OneRegistrationPerName
BY Invariant, PTL DEF IInv

\* Only the newest code of a clanker can be redeemed (registry.issue_code).
THEOREM OneOpenCodeHolds == Spec => []OneOpenCode
BY Invariant, PTL DEF IInv

\* A registration or a code is paid out once (registry.poll, registry.enroll).
THEOREM TicketPaysOnceHolds == Spec => []TicketPaysOnce
BY Invariant, PTL DEF IInv

\* A failure between minting and delivering does not use up the registration or the
\* code.
THEOREM FailureCostsNoTicketHolds == Spec => []FailureCostsNoTicket
BY Invariant, PTL DEF IInv

\* A revoked identity keeps and gets no token by a code (auth.revoke_identity,
\* registry.enroll).
THEOREM RevokedGetsNoneHolds == Spec => []RevokedGetsNoneByCode
BY Invariant, PTL DEF IInv

\* Requests go forward only, and expiry decides as the clock says
\* (registry._lazy_expire, approve, reject, poll, enroll).
THEOREM RequestsGoForwardHolds == Spec => RequestsGoForward
<1>1. IInv /\ [Next]_vars =>
        [\A r \in DOMAIN registrations :
           LET before == registrations[r].status
               after == registrations'[r].status
           IN before # after =>
                \/ before = "pending" /\ after = "approved" /\ r > overdue
                \/ before = "pending" /\ after = "expired" /\ r <= overdue
                \/ before = "pending" /\ after = "rejected"
                \/ before = "approved" /\ after = "delivered"]_vars
  <2> SUFFICES ASSUME IInv, [Next]_vars, NEW r \in DOMAIN registrations,
                      registrations[r].status # registrations'[r].status
               PROVE  LET before == registrations[r].status
                          after == registrations'[r].status
                      IN \/ before = "pending" /\ after = "approved" /\ r > overdue
                         \/ before = "pending" /\ after = "expired" /\ r <= overdue
                         \/ before = "pending" /\ after = "rejected"
                         \/ before = "approved" /\ after = "delivered"
    OBVIOUS
  <2>1. RegistrationsMove /\ r \in Nat /\ overdue \in Nat
    BY RowsMove DEF IInv, TypeOK
  <2> QED
    BY <2>1 DEF RegistrationsMove
<1> QED
  BY <1>1, Invariant, PTL DEF Spec, RequestsGoForward

\* Tokens die by revocation, logout or replacement, and stay dead
\* (auth.mint_agent_token, revoke_identity, revoke_credential).
THEOREM TokensDieByRightHolds == Spec => TokensDieByRight
<1>1. IInv /\ [Next]_vars =>
        [\A c \in DOMAIN credentials :
           credentials[c].live # credentials'[c].live =>
             /\ credentials[c].live
             /\ \/ identities'[credentials[c].name].status = "revoked"
                \/ Logout(c)
                \/ \E d \in DOMAIN credentials' \ DOMAIN credentials :
                     credentials'[d].name = credentials[c].name]_vars
  <2> SUFFICES ASSUME IInv, [Next]_vars, NEW c \in DOMAIN credentials,
                      credentials[c].live # credentials'[c].live
               PROVE  /\ credentials[c].live
                      /\ \/ identities'[credentials[c].name].status = "revoked"
                         \/ Logout(c)
                         \/ \E d \in DOMAIN credentials' \ DOMAIN credentials :
                              credentials'[d].name = credentials[c].name
    OBVIOUS
  <2>1. TypeOK /\ TypeOK' /\ TokensMove /\ c \in DOMAIN credentials'
    BY RowsMove, TypeStep DEF IInv, TokensMove
  <2>2. credentials[c].live \in BOOLEAN /\ credentials'[c].live \in BOOLEAN
    <3>1. credentials[c] \in Credential /\ credentials'[c] \in Credential
      BY <2>1 DEF TypeOK
    <3> QED
      BY <3>1 DEF Credential
  <2>3. credentials'[c].live => credentials[c].live
    BY <2>1 DEF TokensMove
  <2>4. credentials[c].live /\ ~credentials'[c].live
    BY <2>2, <2>3
  <2> QED
    BY <2>1, <2>4 DEF TokensMove
<1> QED
  BY <1>1, Invariant, PTL DEF Spec, TokensDieByRight
=============================================================================
