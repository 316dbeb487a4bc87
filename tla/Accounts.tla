------------------------------- MODULE Accounts -------------------------------
(***************************************************************************)
(* Accounts of the merchant portal: one-time codes, sign-up, invitations,  *)
(* team members and sessions, over the tables of repository/portal.go.     *)
(*                                                                         *)
(* Every handler is a sequence of statements on its own connection, in no  *)
(* transaction; most errors of lookups are taken for "not found", and some *)
(* of writes are only logged. The codes are in the memory of the process.  *)
(* Resending an invitation is left out: its upsert names a unique index    *)
(* the schema does not have, so it fails and changes nothing.              *)
(***************************************************************************)
EXTENDS Naturals, FiniteSets

CONSTANTS
  Agents,       \* goroutines that serve requests
  Emails, Phones, Merchants,
  Founder,      \* the email of a user who signed up earlier ...
  Home,         \* ... and the merchant that was created for it
  MaxRequests,  \* bound: requests
  MaxInvites,   \* bound: invitations
  MaxFaults,    \* bound: failed statements and restarts
  None

ASSUME AccountConstants ==
  /\ Founder \in Emails /\ Home \in Merchants
  /\ {MaxRequests, MaxInvites, MaxFaults} \subseteq Nat
  /\ None \notin Emails \cup Merchants

VARIABLES
  otp,          \* otpStore: per phone, the email the current code was asked for
  pc,           \* per agent: the next statement
  job,          \* per agent: whom and what its request is about
  merchants,    \* merchants: a row per merchant, with the email that founded it
  users,        \* users: rows, told apart by merchant and email
  members,      \* team_members: rows per merchant and email (0, 1, or several)
  invitations,  \* team_invitations: rows
  expired,      \* those whose expires_at has passed
  sessions,     \* sessions: rows per user (0, 1, or several)
  invited,      \* every merchant and email there was ever an invitation for
  loggedIn,     \* users that were given a token by a login or sign-up
  broken,       \* statements that requests broke off at, or lost, and nobody made up for
  requests, invites, faults  \* how much of each bound is used

handling == <<pc, job>>
team == <<members, invitations, expired, invited>>
login == <<sessions, loggedIn>>
record == <<broken, requests, invites, faults>>
cvars == <<otp, handling, merchants, users, team, login, record>>

Account == Merchants \X Emails
(* What a request that came as far still has to do for its account.        *)
Owed == {"user", "member", "login"} \X Account
Invitation == [merchant : Merchants, email : Emails, id : 1..MaxInvites]
NoJob == [phone |-> None, merchant |-> None, email |-> None, asked |-> FALSE]

AccountsTypeOK ==
  /\ otp \in [Phones -> Emails \cup {None}]
  /\ pc \in [Agents -> {"idle", "code", "spend", "lookup", "merchant", "user", "member",
                        "uninvite", "session", "clear", "login", "isMember",
                        "isInvited", "invite", "revoke", "token", "accept",
                        "accepted"}]
  /\ job \in [Agents -> [phone : Phones \cup {None}, merchant : Merchants \cup {None},
                         email : Emails \cup {None}, asked : BOOLEAN]]
  /\ \A a \in Agents : pc[a] = "idle" <=> job[a] = NoJob
  /\ merchants \in [Merchants -> Emails \cup {None}]
  /\ users \subseteq Account
  /\ \A u \in users : merchants[u[1]] # None
  /\ members \in [Account -> 0..2]
  /\ invitations \subseteq Invitation /\ expired \subseteq invitations
  /\ invited \subseteq Account
  /\ sessions \in [Account -> 0..2]
  /\ \A u \in Account : sessions[u] > 0 => u \in users
  /\ loggedIn \subseteq users
  /\ broken \subseteq Owed
  /\ requests \in 0..MaxRequests /\ invites \in 0..MaxInvites /\ faults \in 0..MaxFaults

AccountsInit ==
  /\ otp = [p \in Phones |-> None]
  /\ pc = [a \in Agents |-> "idle"]
  /\ job = [a \in Agents |-> NoJob]
  /\ merchants = [m \in Merchants |-> IF m = Home THEN Founder ELSE None]
  /\ users = {<<Home, Founder>>}
  /\ members = [u \in Account |-> 0]
  /\ invitations = {} /\ expired = {} /\ invited = {}
  /\ sessions = [u \in Account |-> IF u \in users THEN 1 ELSE 0]
  /\ loggedIn = {}
  /\ broken = {} /\ requests = 0 /\ invites = 0 /\ faults = 0

OneMore(count) == IF count = 2 THEN 2 ELSE count + 1

Begin(a, step, what) ==
  /\ pc[a] = "idle"
  /\ requests < MaxRequests
  /\ requests' = requests + 1
  /\ pc' = [pc EXCEPT ![a] = step]
  /\ job' = [job EXCEPT ![a] = what]
  /\ UNCHANGED <<broken, invites, faults>>

Goto(a, step) ==
  /\ pc' = [pc EXCEPT ![a] = step]
  /\ job' = IF step = "idle" THEN [job EXCEPT ![a] = NoJob] ELSE job

At(a, step, next) == pc[a] = step /\ Goto(a, next)

Who(a) == <<job[a].merchant, job[a].email>>

(* The statement fails: the error is returned, logged or overlooked.       *)
Fault ==
  /\ faults < MaxFaults
  /\ faults' = faults + 1
  /\ UNCHANGED <<requests, invites>>

(* What is missing when the agent's statement is not executed.             *)
Lost(a) == {<<pc[a], Who(a)>>} \cap Owed

FailsTo(a, step, next) ==
  /\ At(a, step, next)
  /\ Fault
  /\ broken' = broken \cup Lost(a)
  /\ UNCHANGED <<otp, merchants, users, team, login>>

-----------------------------------------------------------------------------
(* SendOTP                                                                 *)

AskCode(a, p, e) ==
  /\ otp[p] = None
  /\ Begin(a, "code", [NoJob EXCEPT !.phone = p, !.email = e])
  /\ UNCHANGED <<otp, merchants, users, team, login>>

(* Looking for a code and storing one are two critical sections.           *)
SetCode(a) ==
  /\ At(a, "code", "idle")
  /\ otp' = [otp EXCEPT ![job[a].phone] = job[a].email]
  /\ UNCHANGED <<merchants, users, team, login, record>>

ExpireCode(p) ==
  /\ otp[p] # None
  /\ otp' = [otp EXCEPT ![p] = None]
  /\ UNCHANGED <<handling, merchants, users, team, login, record>>

-----------------------------------------------------------------------------
(* Signup                                                                  *)

(* A visitor comes with the code, and the email it was asked for.          *)
Signup(a, p) ==
  /\ otp[p] # None
  /\ Begin(a, "spend", [NoJob EXCEPT !.phone = p, !.email = otp[p]])
  /\ UNCHANGED <<otp, merchants, users, team, login>>

(* The phone's code is deleted, be it another one by now.                  *)
SpendCode(a) ==
  /\ At(a, "spend", "lookup")
  /\ otp' = [otp EXCEPT ![job[a].phone] = None]
  /\ UNCHANGED <<merchants, users, team, login, record>>

LiveInvitations(e) == {inv \in invitations \ expired : inv.email = e}

(* An invited visitor joins that merchant (that of the newest invitation;  *)
(* the order of the rows is not kept here, so it may be any of them) ...   *)
JoinInviter(a) ==
  /\ pc[a] = "lookup"
  /\ pc' = [pc EXCEPT ![a] = "user"]
  /\ \E inv \in LiveInvitations(job[a].email) :
       job' = [job EXCEPT ![a].merchant = inv.merchant, ![a].asked = TRUE]
  /\ UNCHANGED <<otp, merchants, users, team, login, record>>

(* ... any other gets one, as does one whose invitation cannot be read.    *)
NotInvited(a) ==
  /\ LiveInvitations(job[a].email) = {}
  /\ At(a, "lookup", "merchant")
  /\ UNCHANGED <<otp, merchants, users, team, login, record>>

CreateMerchant(a) ==
  /\ pc[a] = "merchant"
  /\ pc' = [pc EXCEPT ![a] = "user"]
  /\ \E m \in {n \in Merchants : merchants[n] = None} :
       /\ merchants' = [merchants EXCEPT ![m] = job[a].email]
       /\ job' = [job EXCEPT ![a].merchant = m]
  /\ UNCHANGED <<otp, users, team, login, record>>

AfterUser(a) == IF job[a].asked THEN "member" ELSE "session"

(* A merchant has one user of an email; otherwise the sign-up ends here,   *)
(* and the code is gone.                                                   *)
CreateUser(a) ==
  /\ Who(a) \notin users
  /\ At(a, "user", AfterUser(a))
  /\ users' = users \cup {Who(a)}
  /\ UNCHANGED <<otp, merchants, team, login, record>>

UserExists(a) ==
  /\ Who(a) \in users
  /\ At(a, "user", "idle")
  /\ UNCHANGED <<otp, merchants, users, team, login, record>>

(* bcrypt refuses a password over 72 bytes, which nobody has checked: no   *)
(* statement fails, and the merchant that was just created is without      *)
(* user.                                                                   *)
HashRefused(a) ==
  /\ At(a, "user", "idle")
  /\ broken' = broken \cup Lost(a)
  /\ UNCHANGED <<otp, merchants, users, team, login, requests, invites, faults>>

AddMember(a) ==
  /\ members' = [members EXCEPT ![Who(a)] = OneMore(@)]
  /\ broken' = broken \ {<<"member", Who(a)>>}
  /\ UNCHANGED <<otp, merchants, users, invitations, expired, invited, login,
                 requests, invites, faults>>

CreateMember(a) == At(a, "member", "uninvite") /\ AddMember(a)

(* DeleteByEmail deletes all of them.                                      *)
DeleteInvitations(m, e) ==
  /\ invitations' = {inv \in invitations : inv.merchant # m \/ inv.email # e}
  /\ expired' = expired \cap invitations'
  /\ UNCHANGED <<otp, merchants, users, members, invited, login>>

SignupUninvites(a) ==
  /\ At(a, "uninvite", "session")
  /\ DeleteInvitations(job[a].merchant, job[a].email)
  /\ UNCHANGED record

AddSession(u) ==
  /\ sessions' = [sessions EXCEPT ![u] = OneMore(@)]
  /\ broken' = broken \ {<<"login", u>>}

CreateSession(a) ==
  /\ At(a, "session", "idle")
  /\ AddSession(Who(a))
  /\ loggedIn' = loggedIn \cup {Who(a)}
  /\ UNCHANGED <<otp, merchants, users, team, requests, invites, faults>>

(* Variant: the error of creating the merchant is logged like the others.  *)
SignupFailsSoftly(a) ==
  \/ FailsTo(a, "lookup", "merchant")
  \/ FailsTo(a, "merchant", "user")
  \/ FailsTo(a, "user", "idle")
  \/ FailsTo(a, "member", "uninvite")
  \/ FailsTo(a, "uninvite", "session")
  \/ FailsTo(a, "session", "idle")

(* An invitation that cannot be read counts as none; errors of the last    *)
(* statements are logged.                                                  *)
SignupFails(a) ==
  \/ FailsTo(a, "lookup", "merchant")
  \/ FailsTo(a, "merchant", "idle")
  \/ FailsTo(a, "user", "idle")
  \/ FailsTo(a, "member", "uninvite")
  \/ FailsTo(a, "uninvite", "session")
  \/ FailsTo(a, "session", "idle")

-----------------------------------------------------------------------------
(* Login                                                                   *)

(* Login takes the newest user of the email; the order of the rows is not  *)
(* kept here, so it may be any of them.                                    *)
Login(a, u) ==
  /\ Begin(a, "clear", [NoJob EXCEPT !.merchant = u[1], !.email = u[2]])
  /\ UNCHANGED <<otp, merchants, users, team, login>>

ClearSessions(a) ==
  /\ At(a, "clear", "login")
  /\ sessions' = [sessions EXCEPT ![Who(a)] = 0]
  /\ UNCHANGED <<otp, merchants, users, team, loggedIn, record>>

(* Variant: the new session is stored before the old ones are deleted.     *)
LoginStoresFirst(a) ==
  /\ At(a, "login", "idle")
  /\ sessions' = [sessions EXCEPT ![Who(a)] = 0]
  /\ broken' = broken \ {<<"login", Who(a)>>}
  /\ loggedIn' = loggedIn \cup {Who(a)}
  /\ UNCHANGED <<otp, merchants, users, team, requests, invites, faults>>

LoginStores(a) ==
  /\ At(a, "login", "idle")
  /\ AddSession(Who(a))
  /\ loggedIn' = loggedIn \cup {Who(a)}
  /\ UNCHANGED <<otp, merchants, users, team, requests, invites, faults>>

(* Reading the merchant can fail too: the new session is there, and the    *)
(* user does not get its token.                                            *)
LoginFails(a) ==
  \/ FailsTo(a, "clear", "login")
  \/ FailsTo(a, "login", "idle")
  \/ /\ At(a, "login", "idle")
     /\ Fault
     /\ AddSession(Who(a))
     /\ UNCHANGED <<otp, merchants, users, team, loggedIn>>

-----------------------------------------------------------------------------
(* InviteMember, RevokeInvitation, AcceptInvitation: with a session        *)

PortalAuth(u) == u \in users /\ sessions[u] > 0

InviteMember(a, u, e) ==
  /\ PortalAuth(u)
  /\ Begin(a, "isMember", [NoJob EXCEPT !.merchant = u[1], !.email = e])
  /\ UNCHANGED <<otp, merchants, users, team, login>>

CheckMember(a) ==
  /\ At(a, "isMember", IF members[Who(a)] > 0 THEN "idle" ELSE "isInvited")
  /\ UNCHANGED <<otp, merchants, users, team, login, record>>

(* An expired invitation is in the way as well.                            *)
CheckInvited(a) ==
  /\ At(a, "isInvited",
        IF \E inv \in invitations : <<inv.merchant, inv.email>> = Who(a)
          THEN "idle" ELSE "invite")
  /\ UNCHANGED <<otp, merchants, users, team, login, record>>

Invite(a) ==
  /\ At(a, "invite", "idle")
  /\ invites < MaxInvites
  /\ invites' = invites + 1
  /\ invitations' = invitations \cup
       {[merchant |-> job[a].merchant, email |-> job[a].email, id |-> invites']}
  /\ invited' = invited \cup {Who(a)}
  /\ UNCHANGED <<otp, merchants, users, members, expired, login, broken, requests, faults>>

ExpireInvitation(inv) ==
  /\ inv \in invitations \ expired
  /\ expired' = expired \cup {inv}
  /\ UNCHANGED <<otp, handling, merchants, users, members, invitations, invited, login, record>>

RevokeInvitation(a, u, e) ==
  /\ PortalAuth(u)
  /\ Begin(a, "revoke", [NoJob EXCEPT !.merchant = u[1], !.email = e])
  /\ UNCHANGED <<otp, merchants, users, team, login>>

Revoke(a) ==
  /\ At(a, "revoke", "idle")
  /\ DeleteInvitations(job[a].merchant, job[a].email)
  /\ UNCHANGED record

AcceptInvitation(a, u) ==
  /\ PortalAuth(u)
  /\ Begin(a, "token", [NoJob EXCEPT !.merchant = u[1], !.email = u[2]])
  /\ UNCHANGED <<otp, merchants, users, team, login>>

(* Variant: does not compare the emails.                                   *)
MayAcceptAny(a, inv) == inv \in invitations \ expired

MayAccept(a, inv) == inv \in invitations \ expired /\ inv.email = job[a].email

(* The request's token is that of an invitation of the user's email ...    *)
ReadInvitation(a) ==
  /\ pc[a] = "token"
  /\ pc' = [pc EXCEPT ![a] = "accept"]
  /\ \E inv \in invitations :
       /\ MayAccept(a, inv)
       /\ job' = [job EXCEPT ![a].merchant = inv.merchant]
  /\ UNCHANGED <<otp, merchants, users, team, login, record>>

(* ... or of another's, or of none that is still there.                    *)
WrongInvitation(a) ==
  /\ At(a, "token", "idle")
  /\ UNCHANGED <<otp, merchants, users, team, login, record>>

Join(a) == At(a, "accept", "accepted") /\ AddMember(a)

AcceptUninvites(a) ==
  /\ At(a, "accepted", "idle")
  /\ DeleteInvitations(job[a].merchant, job[a].email)
  /\ UNCHANGED record

TeamFails(a) ==
  \/ FailsTo(a, "isMember", "isInvited")
  \/ FailsTo(a, "isInvited", "invite")
  \/ FailsTo(a, "invite", "idle")
  \/ FailsTo(a, "revoke", "idle")
  \/ FailsTo(a, "accept", "idle")
  \/ FailsTo(a, "accepted", "idle")

-----------------------------------------------------------------------------

(* The process restarts; it had the codes in memory.                       *)
Restart ==
  /\ Fault
  /\ broken' = broken \cup UNION {Lost(a) : a \in Agents}
  /\ otp' = [p \in Phones |-> None]
  /\ pc' = [a \in Agents |-> "idle"]
  /\ job' = [a \in Agents |-> NoJob]
  /\ UNCHANGED <<merchants, users, team, login>>

Enter(a) ==
  \/ \E p \in Phones : Signup(a, p) \/ \E e \in Emails : AskCode(a, p, e)
  \/ SetCode(a) \/ SpendCode(a) \/ JoinInviter(a) \/ NotInvited(a) \/ CreateMerchant(a)
  \/ CreateUser(a) \/ UserExists(a) \/ HashRefused(a) \/ CreateMember(a)
  \/ SignupUninvites(a) \/ CreateSession(a) \/ SignupFails(a)
  \/ \E u \in users : Login(a, u)
  \/ ClearSessions(a) \/ LoginStores(a) \/ LoginFails(a)

Work(a) ==
  \/ \E u \in users :
       \/ \E e \in Emails : InviteMember(a, u, e) \/ RevokeInvitation(a, u, e)
       \/ AcceptInvitation(a, u)
  \/ CheckMember(a) \/ CheckInvited(a) \/ Invite(a)
  \/ Revoke(a) \/ ReadInvitation(a) \/ WrongInvitation(a)
  \/ Join(a) \/ AcceptUninvites(a) \/ TeamFails(a)

AccountsNext ==
  \/ \E a \in Agents : Enter(a) \/ Work(a)
  \/ \E p \in Phones : ExpireCode(p)
  \/ \E inv \in invitations : ExpireInvitation(inv)
  \/ Restart

AccountsSpec == AccountsInit /\ [][AccountsNext]_cvars

-----------------------------------------------------------------------------
(* Properties                                                              *)

(* Whoever belongs to a merchant, as its user or in its team, founded it,  *)
(* or was once invited to it by that email: however sign-ups, acceptances, *)
(* revocations and failures interleave.                                    *)
JoinedWasInvited ==
  \A u \in Account :
    /\ u \in users => merchants[u[1]] = u[2] \/ u \in invited
    /\ members[u] > 0 => u \in invited

(* As soon as no request is under way, every merchant has a user, every    *)
(* user that did not found its merchant is in its team, and whoever was    *)
(* given a token has a session, but for those whose own sign-up or login   *)
(* broke off at that very statement with nobody making up for it since.    *)
(* Each of these takes several statements; a failure, restart or refused   *)
(* password harms only those it happens to, and logins, which delete the   *)
(* sessions of others, leave the one that was stored last: if any is left, *)
(* that one is.                                                            *)
WholeUnlessBroken ==
  (\A a \in Agents : pc[a] = "idle") =>
    /\ \A m \in Merchants : merchants[m] # None =>
         (\E u \in users : u[1] = m) \/ <<"user", <<m, merchants[m]>>>> \in broken
    /\ \A u \in users : merchants[u[1]] # u[2] =>
         members[u] > 0 \/ <<"member", u>> \in broken
    /\ \A u \in loggedIn : sessions[u] > 0 \/ <<"login", u>> \in broken

=============================================================================
