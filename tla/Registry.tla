------------------------------- MODULE Registry -------------------------------
(***************************************************************************)
(* How a clanker gets its token: it registers a name, a human approves or   *)
(* rejects, and the token comes by poll or against a one-time enrollment    *)
(* code.  Codes can be issued again for a clanker that lost its token, and  *)
(* each new token revokes the one before.                                   *)
(*                                                                         *)
(* All of these calls are handlers on the event loop, so none runs while    *)
(* another does.  But approving and both deliveries take two transactions,  *)
(* and the process may stop, or the second fail, in between.                *)
(*                                                                         *)
(* Rows are numbered by their ids; identities by their names, which are     *)
(* unique and stay for ever.  Claim secrets are left out: a poll with a     *)
(* wrong one is refused and leaves nothing behind, and so is the expiry     *)
(* that a refused or fruitless call has made and not committed.  So are the *)
(* notifications, which nothing here reads.                                 *)
(*                                                                         *)
(* Naming: X_Bug, just before X, is X with a plausible bug; nothing uses it.*)
(***************************************************************************)
EXTENDS Naturals, Sequences

CONSTANTS
  Names,
  MaxRegistrations, MaxCodes, MaxFailures    \* bounds of the model

ASSUME BoundsAssumption ==
  MaxRegistrations \in Nat /\ MaxCodes \in Nat /\ MaxFailures \in Nat

VARIABLES
  identities,     \* kind and status of each name; kind "none": no such row
  registrations,  \* rows: name and status
  codes,          \* enrollment codes: for whom, and open, superseded or redeemed
  credentials,    \* agent tokens: of whom, minted for which ticket, not revoked?
  overdue,        \* this many of the oldest registrations are past PENDING_TTL
  lapsed,         \* this many of the oldest codes are past CODE_TTL
  call,           \* the call that has made its first transaction
  sent,           \* the credentials whose token was put in a response
  failures

tables == <<identities, registrations, codes, credentials>>
vars == <<identities, registrations, codes, credentials, overdue, lapsed, call, sent,
          failures>>

Idle == [step |-> "idle"]

\* What entitles to a token.  The code keeps it as the credential's label.
ByPoll(r) == [by |-> "registration", id |-> r]
ByCode(k) == [by |-> "code", id |-> k]

----------------------------------------------------------------------------
(* Registering and deciding *)

\* registry._lazy_expire: what the UPDATE makes of the table.
LazyExpire(regs) ==
  [r \in DOMAIN regs |-> IF r <= overdue /\ regs[r].status = "pending"
                         THEN [regs[r] EXCEPT !.status = "expired"]
                         ELSE regs[r]]

\* Read before anything is expired: an overdue request still blocks its name.
HasLive_Approved(n) == \E r \in DOMAIN registrations :
  registrations[r].name = n /\ registrations[r].status = "approved"
HasLive(n) == \E r \in DOMAIN registrations :
  registrations[r].name = n /\ registrations[r].status \in {"pending", "approved"}

Register(n) ==
  /\ call = Idle /\ Len(registrations) < MaxRegistrations
  /\ identities[n].kind = "none"
  /\ ~HasLive(n)
  /\ registrations' = Append(LazyExpire(registrations), [name |-> n, status |-> "pending"])
  /\ UNCHANGED <<identities, codes, credentials, overdue, lapsed, call, sent, failures>>

\* First transaction of registry.approve; a name that has become an identity
\* makes the INSERT fail.
Approve_Overdue(r) ==
  /\ call = Idle /\ Len(codes) < MaxCodes
  /\ registrations[r].status = "pending"
  /\ identities[registrations[r].name].kind = "none"
  /\ identities' = [identities EXCEPT ![registrations[r].name] =
                      [kind |-> "clanker", status |-> "active"]]
  /\ registrations' = [registrations EXCEPT ![r].status = "approved"]
  /\ call' = [step |-> "code", name |-> registrations[r].name]
  /\ UNCHANGED <<codes, credentials, overdue, lapsed, sent, failures>>
Approve(r) ==
  /\ call = Idle /\ Len(codes) < MaxCodes
  /\ LazyExpire(registrations)[r].status = "pending"
  /\ identities[registrations[r].name].kind = "none"
  /\ identities' = [identities EXCEPT ![registrations[r].name] =
                      [kind |-> "clanker", status |-> "active"]]
  /\ registrations' = [LazyExpire(registrations) EXCEPT ![r].status = "approved"]
  /\ call' = [step |-> "code", name |-> registrations[r].name]
  /\ UNCHANGED <<codes, credentials, overdue, lapsed, sent, failures>>

\* registry.reject expires nothing.
Reject(r) ==
  /\ call = Idle
  /\ registrations[r].status = "pending"
  /\ registrations' = [registrations EXCEPT ![r].status = "rejected"]
  /\ UNCHANGED <<identities, codes, credentials, overdue, lapsed, call, sent, failures>>

----------------------------------------------------------------------------
(* Codes *)

\* registry.issue_code: the open codes of n are superseded, a new one is open.
IssueCode_Beside(n) ==
  codes' = Append(codes, [name |-> n, status |-> "open"])
IssueCode(n) ==
  codes' = Append([k \in DOMAIN codes |->
                     IF codes[k].name = n /\ codes[k].status = "open"
                     THEN [codes[k] EXCEPT !.status = "superseded"]
                     ELSE codes[k]],
                  [name |-> n, status |-> "open"])

\* The second transaction of an approval.
IssueFirstCode ==
  /\ call.step = "code"
  /\ IssueCode(call.name)
  /\ call' = Idle
  /\ UNCHANGED <<identities, registrations, credentials, overdue, lapsed, sent, failures>>

IssueAnotherCode(n) ==
  /\ call = Idle /\ Len(codes) < MaxCodes
  /\ identities[n] = [kind |-> "clanker", status |-> "active"]
  /\ IssueCode(n)
  /\ UNCHANGED <<identities, registrations, credentials, overdue, lapsed, call, sent,
                 failures>>

----------------------------------------------------------------------------
(* Tokens *)

\* auth.mint_agent_token: the row of the new token, and no other live one of n.
Mint_Beside(n, ticket) ==
  credentials' = Append(credentials, [name |-> n, ticket |-> ticket, live |-> TRUE])
Mint_All(n, ticket) ==
  credentials' = Append([c \in DOMAIN credentials |-> [credentials[c] EXCEPT !.live = FALSE]],
                        [name |-> n, ticket |-> ticket, live |-> TRUE])
Mint(n, ticket) ==
  credentials' = Append([c \in DOMAIN credentials |->
                           IF credentials[c].name = n
                           THEN [credentials[c] EXCEPT !.live = FALSE]
                           ELSE credentials[c]],
                        [name |-> n, ticket |-> ticket, live |-> TRUE])

\* registry.poll of an approved registration.  It does not look at the identity.
Poll(r) ==
  /\ call = Idle
  /\ registrations[r].status = "approved"
  /\ Mint(registrations[r].name, ByPoll(r))
  /\ registrations' = LazyExpire(registrations)
  /\ call' = [step |-> "polled", registration |-> r]
  /\ UNCHANGED <<identities, codes, overdue, lapsed, sent, failures>>

DeliverPolled_Unmarked ==
  /\ call.step = "polled"
  /\ sent' = sent \cup {Len(credentials)}
  /\ call' = Idle
  /\ UNCHANGED <<identities, registrations, codes, credentials, overdue, lapsed, failures>>
DeliverPolled ==
  /\ call.step = "polled"
  /\ registrations' = [registrations EXCEPT ![call.registration].status = "delivered"]
  /\ sent' = sent \cup {Len(credentials)}
  /\ call' = Idle
  /\ UNCHANGED <<identities, codes, credentials, overdue, lapsed, failures>>

\* registry.enroll with an open code of an active identity.
Enroll_Burnt(k) ==
  /\ call = Idle
  /\ codes[k].status = "open" /\ k > lapsed
  /\ identities[codes[k].name].status = "active"
  /\ Mint(codes[k].name, ByCode(k))
  /\ codes' = [codes EXCEPT ![k].status = "redeemed"]
  /\ call' = [step |-> "enrolled", code |-> k]
  /\ UNCHANGED <<identities, registrations, overdue, lapsed, sent, failures>>
Enroll_Anyone(k) ==
  /\ call = Idle
  /\ codes[k].status = "open" /\ k > lapsed
  /\ Mint(codes[k].name, ByCode(k))
  /\ call' = [step |-> "enrolled", code |-> k]
  /\ UNCHANGED <<identities, registrations, codes, overdue, lapsed, sent, failures>>
Enroll(k) ==
  /\ call = Idle
  /\ codes[k].status = "open" /\ k > lapsed
  /\ identities[codes[k].name].status = "active"
  /\ Mint(codes[k].name, ByCode(k))
  /\ call' = [step |-> "enrolled", code |-> k]
  /\ UNCHANGED <<identities, registrations, codes, overdue, lapsed, sent, failures>>

DeliverEnrolled ==
  /\ call.step = "enrolled"
  /\ codes' = [codes EXCEPT ![call.code].status = "redeemed"]
  /\ registrations' = [r \in DOMAIN registrations |->
       IF /\ registrations[r].name = codes[call.code].name
          /\ registrations[r].status = "approved"
       THEN [registrations[r] EXCEPT !.status = "delivered"]
       ELSE registrations[r]]
  /\ sent' = sent \cup {Len(credentials)}
  /\ call' = Idle
  /\ UNCHANGED <<identities, credentials, overdue, lapsed, failures>>

----------------------------------------------------------------------------
(* Identities, time and failures *)

\* auth.create_human takes any name that is no identity's, a requested one too.
CreateHuman(n) ==
  /\ call = Idle
  /\ identities[n].kind = "none"
  /\ identities' = [identities EXCEPT ![n] = [kind |-> "human", status |-> "active"]]
  /\ UNCHANGED <<registrations, codes, credentials, overdue, lapsed, call, sent, failures>>

RevokeIdentity(n) ==
  /\ call = Idle
  /\ identities[n].kind # "none"
  /\ identities' = [identities EXCEPT ![n].status = "revoked"]
  /\ credentials' = [c \in DOMAIN credentials |->
                       IF credentials[c].name = n
                       THEN [credentials[c] EXCEPT !.live = FALSE]
                       ELSE credentials[c]]
  /\ UNCHANGED <<registrations, codes, overdue, lapsed, call, sent, failures>>

\* The holder of a token that authenticates revokes it.
Logout(c) ==
  /\ call = Idle
  /\ c \in sent /\ credentials[c].live
  /\ identities[credentials[c].name].status = "active"
  /\ credentials' = [credentials EXCEPT ![c].live = FALSE]
  /\ UNCHANGED <<identities, registrations, codes, overdue, lapsed, call, sent, failures>>

RegistrationAges ==
  /\ overdue < Len(registrations)
  /\ overdue' = overdue + 1
  /\ UNCHANGED <<tables, lapsed, call, sent, failures>>

CodeLapses ==
  /\ lapsed < Len(codes)
  /\ lapsed' = lapsed + 1
  /\ UNCHANGED <<tables, overdue, call, sent, failures>>

\* The process stops, or sqlite refuses the second transaction.
Fail ==
  /\ call # Idle /\ failures < MaxFailures
  /\ call' = Idle /\ failures' = failures + 1
  /\ UNCHANGED <<tables, overdue, lapsed, sent>>

Init ==
  /\ identities = [n \in Names |-> [kind |-> "none", status |-> "active"]]
  /\ registrations = <<>> /\ codes = <<>> /\ credentials = <<>>
  /\ overdue = 0 /\ lapsed = 0
  /\ call = Idle /\ sent = {} /\ failures = 0

Next ==
  \/ \E n \in Names : Register(n)
  \/ \E r \in DOMAIN registrations : Approve(r)
  \/ \E r \in DOMAIN registrations : Reject(r)
  \/ \E r \in DOMAIN registrations : Poll(r)
  \/ DeliverPolled
  \/ IssueFirstCode
  \/ \E n \in Names : IssueAnotherCode(n)
  \/ \E k \in DOMAIN codes : Enroll(k)
  \/ DeliverEnrolled
  \/ \E n \in Names : CreateHuman(n)
  \/ \E n \in Names : RevokeIdentity(n)
  \/ \E c \in DOMAIN credentials : Logout(c)
  \/ RegistrationAges
  \/ CodeLapses
  \/ Fail

Spec == Init /\ [][Next]_vars

----------------------------------------------------------------------------
(* Properties *)

Identity == [kind : {"none", "human", "clanker"}, status : {"active", "revoked"}]
Registration == [name : Names,
                 status : {"pending", "approved", "rejected", "expired", "delivered"}]
Code == [name : Names, status : {"open", "superseded", "redeemed"}]
Ticket == [by : {"registration", "code"}, id : Nat]
Credential == [name : Names, ticket : Ticket, live : BOOLEAN]
Call == {Idle}
   \cup [step : {"code"}, name : Names]
   \cup [step : {"polled"}, registration : Nat]
   \cup [step : {"enrolled"}, code : Nat]

\* The tables, the call in hand and the two clocks keep their types.
TypeOK ==
  /\ identities \in [Names -> Identity]
  /\ registrations \in Seq(Registration)
  /\ codes \in Seq(Code)
  /\ credentials \in Seq(Credential)
  /\ overdue \in Nat /\ lapsed \in Nat
  /\ call \in Call
  /\ sent \subseteq DOMAIN credentials
  /\ failures \in Nat

\* A clanker has one live token at most, by whichever way and after whatever
\* failures it got it: auth.mint_agent_token rotates, the schema has no such
\* constraint.
OneLiveToken ==
  \A c, d \in DOMAIN credentials :
    credentials[c].live /\ credentials[d].live /\ credentials[c].name = credentials[d].name
      => c = d

\* One request at most is waiting, granted or delivered for a name, though what
\* register_request and approve read is spread over three tables.
OneRegistrationPerName ==
  \A r, s \in DOMAIN registrations :
    /\ registrations[r].name = registrations[s].name
    /\ {registrations[r].status, registrations[s].status}
         \subseteq {"pending", "approved", "delivered"}
    => r = s

\* The code that an admin handed out last is the only one that can be redeemed.
OneOpenCode ==
  \A j, k \in DOMAIN codes :
    codes[j].name = codes[k].name /\ codes[j].status = "open" /\ codes[k].status = "open"
      => j = k

\* A registration or a code puts a token in a response once, also when its first
\* delivery failed half-way and is repeated.
TicketPaysOnce ==
  \A c, d \in sent : credentials[c].ticket = credentials[d].ticket => c = d

\* A live token that no response carried (a failure came between minting and
\* delivering) has not used up its ticket: the registration is approved still, and
\* polling again brings a token; or the code is not redeemed, and enrolling again
\* does, unless the code has lapsed or a newer one has superseded it meanwhile.
FailureCostsNoTicket ==
  \A c \in DOMAIN credentials \ sent :
    credentials[c].live =>
      LET ticket == credentials[c].ticket
      IN IF ticket.by = "code" THEN codes[ticket.id].status # "redeemed"
         ELSE registrations[ticket.id].status = "approved"

\* A revoked identity has no live token that it got by a code: revoke_identity
\* revokes them all, and enroll mints none for it afterwards.  A poll would, see
\* registry.poll.
RevokedGetsNoneByCode ==
  \A c \in DOMAIN credentials :
    credentials[c].live /\ credentials[c].ticket.by = "code"
      => identities[credentials[c].name].status = "active"

\* Requests go one way, none is approved when it is overdue, none expires before.
RequestsGoForward ==
  [][\A r \in DOMAIN registrations :
       LET before == registrations[r].status
           after == registrations'[r].status
       IN before # after =>
            \/ before = "pending" /\ after = "approved" /\ r > overdue
            \/ before = "pending" /\ after = "expired" /\ r <= overdue
            \/ before = "pending" /\ after = "rejected"
            \/ before = "approved" /\ after = "delivered"]_vars

\* A token dies when its identity is revoked, its holder logs out, or a newer one
\* of the same clanker replaces it; nothing revives it.
TokensDieByRight ==
  [][\A c \in DOMAIN credentials :
       credentials[c].live # credentials'[c].live =>
         /\ credentials[c].live
         /\ \/ identities'[credentials[c].name].status = "revoked"
            \/ Logout(c)
            \/ \E d \in DOMAIN credentials' \ DOMAIN credentials :
                 credentials'[d].name = credentials[c].name]_vars
=============================================================================
