---------------------------- MODULE AccountsProofs ----------------------------
(***************************************************************************)
(* Theorems about module Accounts: whoever belongs to a merchant founded   *)
(* it or was invited, and what a broken request leaves undone harms nobody *)
(* else, for any number of agents, requests and faults.                    *)
(***************************************************************************)
EXTENDS Accounts, TLAPS

Steps == {"code", "spend", "lookup", "merchant", "user", "member", "uninvite", "session",
          "clear", "login", "isMember", "isInvited", "invite", "revoke", "token", "accept",
          "accepted"}
Jobs == [phone : Phones \cup {None}, merchant : Merchants \cup {None},
         email : Emails \cup {None}, asked : BOOLEAN]

(* What a request knows at a step: past the lookup it has a merchant that  *)
(* exists; a visitor who makes a user founded that merchant, or was asked  *)
(* to join it; whoever gets a row in a team was invited, and whoever gets  *)
(* a session is a user.                                                    *)
JobSound(s, j, rows, accounts, asked) ==
  /\ s \in Steps /\ j.email \in Emails
  /\ s \in {"code", "spend"} => j.phone \in Phones
  /\ s \in {"spend", "lookup", "merchant"} => ~j.asked
  /\ s \notin {"code", "spend", "lookup", "merchant"} =>
       j.merchant \in Merchants /\ rows[j.merchant] # None
  /\ s = "user" /\ ~j.asked => rows[j.merchant] = j.email
  /\ s = "user" /\ j.asked => <<j.merchant, j.email>> \in asked
  /\ s \in {"member", "accept"} => <<j.merchant, j.email>> \in asked
  /\ s \in {"member", "uninvite", "session", "clear", "login"} =>
       <<j.merchant, j.email>> \in accounts

Placed(s, j, rows, accounts, asked) ==
  (s = "idle" /\ j = NoJob) \/ JobSound(s, j, rows, accounts, asked)

JobsSound ==
  /\ pc \in [Agents -> Steps \cup {"idle"}]
  /\ job \in [Agents -> Jobs]
  /\ \A a \in Agents : Placed(pc[a], job[a], merchants, users, invited)

(* The tables: users and invitations are those of merchants that exist, a  *)
(* user is its merchant's founder or invited, and so is a team member.     *)
UsersSound ==
  /\ merchants \in [Merchants -> Emails \cup {None}]
  /\ users \subseteq Account
  /\ \A u \in users : merchants[u[1]] # None /\ (merchants[u[1]] = u[2] \/ u \in invited)

TeamSound ==
  /\ members \in [Account -> 0..2]
  /\ \A u \in Account : members[u] > 0 => u \in invited
  /\ invitations \subseteq Invitation /\ expired \subseteq invitations
  /\ invited \subseteq Account
  /\ \A inv \in invitations :
       <<inv.merchant, inv.email>> \in invited /\ merchants[inv.merchant] # None

LoginSound ==
  /\ sessions \in [Account -> 0..2]
  /\ \A u \in Account : sessions[u] > 0 => u \in users
  /\ loggedIn \subseteq users

CountsSound ==
  /\ otp \in [Phones -> Emails \cup {None}]
  /\ requests \in 0..MaxRequests /\ invites \in 0..MaxInvites /\ faults \in 0..MaxFaults
  /\ broken \subseteq Owed

AccountsSound == JobsSound /\ UsersSound /\ TeamSound /\ LoginSound /\ CountsSound

LEMMA Bounds ==
  /\ MaxRequests \in Nat /\ MaxInvites \in Nat /\ MaxFaults \in Nat
  /\ None \notin Emails /\ None \notin Merchants
  BY AccountConstants

-----------------------------------------------------------------------------
(* Nobody is removed, neither a merchant nor a user; and who was invited   *)
(* remains so, whatever becomes of the invitation.                         *)
Grows ==
  /\ invited \subseteq invited'
  /\ users \subseteq users'
  /\ \A m \in Merchants : merchants[m] # None => merchants'[m] = merchants[m]

(* So what a request knows stays true.                                     *)
LEMMA PlacedStays ==
  ASSUME Grows, NEW s, NEW j, Placed(s, j, merchants, users, invited)
  PROVE  Placed(s, j, merchants', users', invited')
<1>1. CASE s = "idle" /\ j = NoJob
  BY <1>1 DEF Placed
<1>2. CASE JobSound(s, j, merchants, users, invited)
  <2>1. JobSound(s, j, merchants', users', invited')
    BY <1>2 DEF JobSound, Grows
  <2> QED
    BY <2>1 DEF Placed
<1> QED
  BY <1>1, <1>2 DEF Placed

(* One agent moves.                                                        *)
LEMMA AgentMoves ==
  ASSUME JobsSound, Grows, NEW a \in Agents, NEW s \in Steps \cup {"idle"}, NEW j \in Jobs,
         pc' = [pc EXCEPT ![a] = s], job' = [job EXCEPT ![a] = j],
         Placed(s, j, merchants', users', invited')
  PROVE  JobsSound'
<1>1. pc' \in [Agents -> Steps \cup {"idle"}] /\ job' \in [Agents -> Jobs]
  BY DEF JobsSound
<1>2. ASSUME NEW b \in Agents PROVE Placed(pc'[b], job'[b], merchants', users', invited')
  <2>1. CASE b = a
    <3>1. pc'[b] = s /\ job'[b] = j
      BY <2>1 DEF JobsSound
    <3> QED
      BY <3>1
  <2>2. CASE b # a
    <3>1. pc'[b] = pc[b] /\ job'[b] = job[b]
      BY <2>2 DEF JobsSound
    <3>2. Placed(pc[b], job[b], merchants, users, invited)
      BY DEF JobsSound
    <3> QED
      BY <3>1, <3>2, PlacedStays
  <2> QED
    BY <2>1, <2>2
<1> QED
  BY <1>1, <1>2 DEF JobsSound

(* A request begins.                                                       *)
LEMMA BeginMoves ==
  ASSUME JobsSound, NEW a \in Agents, NEW s \in Steps, NEW j \in Jobs, Begin(a, s, j),
         UNCHANGED <<merchants, users, invited>>,
         JobSound(s, j, merchants, users, invited)
  PROVE  JobsSound'
<1>1. Grows
  BY DEF Grows
<1>2. pc' = [pc EXCEPT ![a] = s] /\ job' = [job EXCEPT ![a] = j]
  BY DEF Begin
<1>3. Placed(s, j, merchants', users', invited')
  BY DEF Placed
<1> QED
  BY <1>1, <1>2, <1>3, AgentMoves

(* A request goes on, or ends.                                             *)
LEMMA GotoMoves ==
  ASSUME JobsSound, Grows, NEW a \in Agents, NEW s \in Steps \cup {"idle"}, Goto(a, s),
         s # "idle" => JobSound(s, job[a], merchants', users', invited')
  PROVE  JobsSound'
<1>1. CASE s = "idle"
  <2>1. NoJob \in Jobs
    BY DEF NoJob, Jobs
  <2>2. pc' = [pc EXCEPT ![a] = s] /\ job' = [job EXCEPT ![a] = NoJob]
    BY <1>1 DEF Goto
  <2>3. Placed(s, NoJob, merchants', users', invited')
    BY <1>1 DEF Placed
  <2> QED
    BY <2>1, <2>2, <2>3, AgentMoves
<1>2. CASE s # "idle"
  <2>1. job[a] \in Jobs /\ job = [job EXCEPT ![a] = job[a]]
    BY DEF JobsSound
  <2>2. pc' = [pc EXCEPT ![a] = s] /\ job' = [job EXCEPT ![a] = job[a]]
    BY <1>2, <2>1 DEF Goto
  <2>3. Placed(s, job[a], merchants', users', invited')
    BY <1>2 DEF Placed
  <2> QED
    BY <2>1, <2>2, <2>3, AgentMoves
<1> QED
  BY <1>1, <1>2

(* Where a request is, it knows what belongs there.                        *)
LEMMA JobAt ==
  ASSUME JobsSound, NEW a \in Agents, pc[a] # "idle"
  PROVE  JobSound(pc[a], job[a], merchants, users, invited) /\ job[a] \in Jobs
  BY DEF JobsSound, Placed

-----------------------------------------------------------------------------
LEMMA JobsByRequest ==
  ASSUME AccountsSound, NEW a \in Agents,
         \/ \E p \in Phones : Signup(a, p) \/ \E e \in Emails : AskCode(a, p, e)
         \/ \E u \in users :
              \/ Login(a, u) \/ AcceptInvitation(a, u)
              \/ \E e \in Emails : InviteMember(a, u, e) \/ RevokeInvitation(a, u, e)
  PROVE  JobsSound'
<1>1. ASSUME NEW p \in Phones, NEW e \in Emails
      PROVE  [NoJob EXCEPT !.phone = p, !.email = e] \in Jobs
  BY DEF NoJob, Jobs
<1>2. ASSUME NEW m \in Merchants, NEW e \in Emails
      PROVE  [NoJob EXCEPT !.merchant = m, !.email = e] \in Jobs
  BY DEF NoJob, Jobs
<1>3. ASSUME NEW p \in Phones, NEW e \in Emails, NEW s \in {"code", "spend"}
      PROVE  JobSound(s, [NoJob EXCEPT !.phone = p, !.email = e], merchants, users, invited)
  BY DEF JobSound, NoJob, Steps
<1>4. ASSUME NEW m \in Merchants, NEW e \in Emails, merchants[m] # None,
             NEW s \in {"isMember", "revoke", "token"}
      PROVE  JobSound(s, [NoJob EXCEPT !.merchant = m, !.email = e], merchants, users, invited)
  <2> DEFINE j == [NoJob EXCEPT !.merchant = m, !.email = e]
  <2>1. j.merchant = m /\ j.email = e
    BY DEF NoJob
  <2>2. s \in Steps /\ s \notin {"code", "spend", "lookup", "merchant", "user", "member",
                                  "accept", "uninvite", "session", "clear", "login"}
    BY DEF Steps
  <2> HIDE DEF j
  <2>3. JobSound(s, j, merchants, users, invited)
    BY <1>4, <2>1, <2>2 DEF JobSound
  <2> QED
    BY <2>3 DEF j
<1>5. ASSUME NEW u \in users
      PROVE  /\ u[1] \in Merchants /\ u[2] \in Emails /\ u = <<u[1], u[2]>>
             /\ merchants[u[1]] # None
  BY DEF AccountsSound, UsersSound, Account
<1>6. ASSUME NEW p \in Phones, NEW e \in Emails, AskCode(a, p, e)
      PROVE  JobsSound'
  <2> DEFINE j == [NoJob EXCEPT !.phone = p, !.email = e]
  <2>1. Begin(a, "code", j) /\ UNCHANGED <<merchants, users, invited>>
    BY <1>6 DEF AskCode, team
  <2>2. j \in Jobs /\ JobSound("code", j, merchants, users, invited)
    BY <1>1, <1>3
  <2> HIDE DEF j
  <2> QED
    BY <2>1, <2>2, BeginMoves DEF AccountsSound, Steps
<1>7. ASSUME NEW p \in Phones, Signup(a, p)
      PROVE  JobsSound'
  <2> DEFINE j == [NoJob EXCEPT !.phone = p, !.email = otp[p]]
  <2>1. otp[p] \in Emails
    BY <1>7 DEF Signup, AccountsSound, CountsSound
  <2>2. Begin(a, "spend", j) /\ UNCHANGED <<merchants, users, invited>>
    BY <1>7 DEF Signup, team
  <2>3. j \in Jobs /\ JobSound("spend", j, merchants, users, invited)
    BY <2>1, <1>1, <1>3
  <2> HIDE DEF j
  <2> QED
    BY <2>2, <2>3, BeginMoves DEF AccountsSound, Steps
<1>8. ASSUME NEW u \in users, Login(a, u)
      PROVE  JobsSound'
  <2> DEFINE j == [NoJob EXCEPT !.merchant = u[1], !.email = u[2]]
  <2>1. Begin(a, "clear", j) /\ UNCHANGED <<merchants, users, invited>>
    BY <1>8 DEF Login, team
  <2>2. j \in Jobs
    BY <1>2, <1>5
  <2>3. JobSound("clear", j, merchants, users, invited)
    BY <1>5 DEF JobSound, NoJob, Steps
  <2> HIDE DEF j
  <2> QED
    BY <2>1, <2>2, <2>3, BeginMoves DEF AccountsSound, Steps
<1>9. ASSUME NEW u \in users, AcceptInvitation(a, u)
      PROVE  JobsSound'
  <2> DEFINE j == [NoJob EXCEPT !.merchant = u[1], !.email = u[2]]
  <2>1. Begin(a, "token", j) /\ UNCHANGED <<merchants, users, invited>>
    BY <1>9 DEF AcceptInvitation, team
  <2>2. j \in Jobs /\ JobSound("token", j, merchants, users, invited)
    BY <1>2, <1>4, <1>5
  <2> HIDE DEF j
  <2> QED
    BY <2>1, <2>2, BeginMoves DEF AccountsSound, Steps
<1>10. ASSUME NEW u \in users, NEW e \in Emails,
              InviteMember(a, u, e) \/ RevokeInvitation(a, u, e)
       PROVE  JobsSound'
  <2> DEFINE j == [NoJob EXCEPT !.merchant = u[1], !.email = e]
  <2>1. /\ Begin(a, "isMember", j) \/ Begin(a, "revoke", j)
        /\ UNCHANGED <<merchants, users, invited>>
    BY <1>10 DEF InviteMember, RevokeInvitation, team
  <2>2. j \in Jobs
    BY <1>2, <1>5
  <2>3. /\ JobSound("isMember", j, merchants, users, invited)
        /\ JobSound("revoke", j, merchants, users, invited)
    BY <1>4, <1>5
  <2> HIDE DEF j
  <2> QED
    BY <2>1, <2>2, <2>3, BeginMoves DEF AccountsSound, Steps
<1> QED
  BY <1>6, <1>7, <1>8, <1>9, <1>10

(* A statement after which the request is where it knows no more than      *)
(* before.                                                                 *)
LEMMA JobsByGoto ==
  ASSUME AccountsSound, Grows, NEW a \in Agents, NEW s \in Steps, NEW t \in Steps \cup {"idle"},
         At(a, s, t),
         <<s, t>> \in (Steps \X {"idle"}) \cup
           {<<"spend", "lookup">>, <<"lookup", "merchant">>, <<"member", "uninvite">>,
            <<"uninvite", "session">>, <<"clear", "login">>, <<"isMember", "isInvited">>,
            <<"isInvited", "invite">>, <<"accept", "accepted">>}
  PROVE  JobsSound'
<1>1. pc[a] = s /\ s # "idle" /\ Goto(a, t)
  BY DEF At, Steps
<1>2. JobSound(s, job[a], merchants, users, invited)
  BY <1>1, JobAt DEF AccountsSound
<1>3. CASE t = "idle"
  BY <1>1, <1>3, GotoMoves DEF AccountsSound
<1>4. CASE t # "idle"
  <2>1. JobSound(t, job[a], merchants, users, invited)
    BY <1>2, <1>4 DEF JobSound, Steps
  <2>2. Placed(t, job[a], merchants', users', invited')
    BY <2>1, PlacedStays DEF Placed
  <2>3. JobSound(t, job[a], merchants', users', invited')
    BY <1>4, <2>2 DEF Placed
  <2> QED
    BY <1>1, <2>3, GotoMoves DEF AccountsSound
<1> QED
  BY <1>3, <1>4

(* The statements of a sign-up, and reading an invitation by its token.    *)
LEMMA JobsByStatement ==
  ASSUME AccountsSound, Grows, NEW a \in Agents,
         JoinInviter(a) \/ CreateMerchant(a) \/ CreateUser(a) \/ ReadInvitation(a)
  PROVE  JobsSound'
<1> USE DEF AccountsSound
<1>1. ASSUME NEW inv \in invitations
      PROVE  /\ inv.merchant \in Merchants /\ merchants[inv.merchant] # None
             /\ <<inv.merchant, inv.email>> \in invited
  BY DEF TeamSound, Invitation
<1>2. CASE JoinInviter(a)
  <2>1. JobSound("lookup", job[a], merchants, users, invited) /\ job[a] \in Jobs
    BY <1>2, JobAt DEF JoinInviter
  <2>2. PICK inv \in invitations :
          /\ inv.email = job[a].email
          /\ job' = [job EXCEPT ![a].merchant = inv.merchant, ![a].asked = TRUE]
    BY <1>2 DEF JoinInviter, LiveInvitations
  <2> DEFINE j == [job[a] EXCEPT !.merchant = inv.merchant, !.asked = TRUE]
  <2>3. pc' = [pc EXCEPT ![a] = "user"] /\ job' = [job EXCEPT ![a] = j]
    BY <1>2, <2>2 DEF JoinInviter, JobsSound
  <2>4. /\ j \in Jobs /\ j.asked /\ j.merchant = inv.merchant
        /\ j.email = inv.email /\ j.email \in Emails
    BY <1>1, <2>1, <2>2 DEF Jobs, JobSound
  <2> HIDE DEF j
  <2>5. JobSound("user", j, merchants, users, invited)
    BY <1>1, <2>4 DEF JobSound, Steps
  <2>6. Placed("user", j, merchants', users', invited')
    BY <2>5, PlacedStays DEF Placed
  <2> QED
    BY <2>3, <2>4, <2>6, AgentMoves DEF Steps
<1>3. CASE CreateMerchant(a)
  <2>1. JobSound("merchant", job[a], merchants, users, invited) /\ job[a] \in Jobs
    BY <1>3, JobAt DEF CreateMerchant
  <2>2. PICK m \in Merchants :
          /\ merchants' = [merchants EXCEPT ![m] = job[a].email]
          /\ job' = [job EXCEPT ![a].merchant = m]
    BY <1>3 DEF CreateMerchant
  <2> DEFINE j == [job[a] EXCEPT !.merchant = m]
  <2>3. pc' = [pc EXCEPT ![a] = "user"] /\ job' = [job EXCEPT ![a] = j]
    BY <1>3, <2>2 DEF CreateMerchant, JobsSound
  <2>4. /\ j \in Jobs /\ ~j.asked /\ j.merchant = m
        /\ j.email = job[a].email /\ j.email \in Emails
    BY <2>1 DEF Jobs, JobSound
  <2> HIDE DEF j
  <2>5. merchants'[m] = j.email /\ j.email # None
    BY <2>2, <2>4, Bounds DEF UsersSound
  <2>6. Placed("user", j, merchants', users', invited')
    BY <2>4, <2>5 DEF Placed, JobSound, Steps
  <2> QED
    BY <2>3, <2>4, <2>6, AgentMoves DEF Steps
<1>4. CASE CreateUser(a)
  <2>1. JobSound("user", job[a], merchants, users, invited) /\ job[a] \in Jobs
    BY <1>4, JobAt DEF CreateUser, At
  <2>2. Goto(a, AfterUser(a)) /\ Who(a) \in users' /\ UNCHANGED <<merchants, invited>>
    BY <1>4 DEF CreateUser, At, team
  <2>3. AfterUser(a) \in {"member", "session"} /\ (AfterUser(a) = "member" => job[a].asked)
    BY DEF AfterUser
  <2>4. JobSound(AfterUser(a), job[a], merchants', users', invited')
    BY <2>1, <2>2, <2>3 DEF JobSound, Who, Steps
  <2> QED
    BY <2>2, <2>3, <2>4, GotoMoves DEF Steps
<1>5. CASE ReadInvitation(a)
  <2>1. JobSound("token", job[a], merchants, users, invited) /\ job[a] \in Jobs
    BY <1>5, JobAt DEF ReadInvitation
  <2>2. PICK inv \in invitations :
          /\ inv.email = job[a].email
          /\ job' = [job EXCEPT ![a].merchant = inv.merchant]
    BY <1>5 DEF ReadInvitation, MayAccept
  <2> DEFINE j == [job[a] EXCEPT !.merchant = inv.merchant]
  <2>3. pc' = [pc EXCEPT ![a] = "accept"] /\ job' = [job EXCEPT ![a] = j]
    BY <1>5, <2>2 DEF ReadInvitation, JobsSound
  <2>4. /\ j \in Jobs /\ j.merchant = inv.merchant
        /\ j.email = inv.email /\ j.email \in Emails
    BY <1>1, <2>1, <2>2 DEF Jobs, JobSound
  <2> HIDE DEF j
  <2>5. JobSound("accept", j, merchants, users, invited)
    BY <1>1, <2>4 DEF JobSound, Steps
  <2>6. Placed("accept", j, merchants', users', invited')
    BY <2>5, PlacedStays DEF Placed
  <2> QED
    BY <2>3, <2>4, <2>6, AgentMoves DEF Steps
<1> QED
  BY <1>2, <1>3, <1>4, <1>5

-----------------------------------------------------------------------------
(* What a step does to the tables.                                         *)
Still == UNCHANGED <<merchants, users, team, login>>

AddsMember(a) == pc[a] \in {"member", "accept"} /\ AddMember(a)

Uninvites(a) ==
  /\ pc[a] \in {"uninvite", "revoke", "accepted"}
  /\ DeleteInvitations(job[a].merchant, job[a].email)

StoresSession(a) ==
  /\ pc[a] \in {"session", "clear", "login"}
  /\ \E n \in 0..2 : sessions' = [sessions EXCEPT ![Who(a)] = n]
  /\ loggedIn' \in {loggedIn, loggedIn \cup {Who(a)}}
  /\ UNCHANGED <<otp, merchants, users, team>>

LEMMA StepKinds ==
  ASSUME AccountsSound, AccountsNext
  PROVE  \/ Still
         \/ \E a \in Agents :
              CreateMerchant(a) \/ CreateUser(a) \/ AddsMember(a) \/ Uninvites(a)
                \/ StoresSession(a) \/ Invite(a)
         \/ \E inv \in invitations : ExpireInvitation(inv)
<1>1. ASSUME NEW a \in Agents, NEW s, NEW t, FailsTo(a, s, t)
      PROVE  Still
  BY <1>1 DEF FailsTo, Still
<1>2. ASSUME NEW a \in Agents, SignupFails(a) \/ TeamFails(a)
      PROVE  Still
  BY <1>1, <1>2 DEF SignupFails, TeamFails
<1>3. ASSUME NEW a \in Agents, pc[a] \in {"session", "clear", "login"}
      PROVE  Who(a) \in Account
  <2>1. JobSound(pc[a], job[a], merchants, users, invited)
    BY <1>3, JobAt DEF AccountsSound
  <2> QED
    BY <1>3, <2>1 DEF JobSound, Who, Account
<1>4. ASSUME NEW a \in Agents, AddSession(Who(a)), pc[a] \in {"session", "login"}
      PROVE  \E n \in 0..2 : sessions' = [sessions EXCEPT ![Who(a)] = n]
  <2>1. sessions[Who(a)] \in 0..2
    BY <1>3, <1>4 DEF AccountsSound, LoginSound
  <2>2. OneMore(sessions[Who(a)]) \in 0..2
    BY <2>1 DEF OneMore
  <2> QED
    BY <1>4, <2>2 DEF AddSession
<1>5. ASSUME NEW a \in Agents, ClearSessions(a)
      PROVE  StoresSession(a)
  BY <1>5 DEF ClearSessions, At, StoresSession
<1>6. ASSUME NEW a \in Agents, LoginFails(a)
      PROVE  Still \/ StoresSession(a)
  BY <1>1, <1>4, <1>6 DEF LoginFails, At, StoresSession
<1>7. ASSUME NEW a \in Agents, CreateSession(a) \/ LoginStores(a)
      PROVE  StoresSession(a)
  BY <1>4, <1>7 DEF CreateSession, LoginStores, At, StoresSession
<1>8. ASSUME NEW a \in Agents, CreateMember(a) \/ Join(a)
      PROVE  AddsMember(a)
  BY <1>8 DEF CreateMember, Join, At, AddsMember
<1>9. ASSUME NEW a \in Agents, SignupUninvites(a) \/ Revoke(a) \/ AcceptUninvites(a)
      PROVE  Uninvites(a)
  BY <1>9 DEF SignupUninvites, Revoke, AcceptUninvites, At, Uninvites
<1>10. ASSUME NEW a \in Agents,
              \/ SetCode(a) \/ SpendCode(a) \/ JoinInviter(a) \/ NotInvited(a) \/ UserExists(a)
              \/ HashRefused(a) \/ CheckMember(a) \/ CheckInvited(a) \/ ReadInvitation(a) \/ WrongInvitation(a)
       PROVE  Still
  BY <1>10 DEF SetCode, SpendCode, JoinInviter, NotInvited, UserExists, HashRefused,
               CheckMember, CheckInvited, ReadInvitation, WrongInvitation, Still
<1>11. ASSUME NEW a \in Agents, NEW p \in Phones, NEW e \in Emails,
              Signup(a, p) \/ AskCode(a, p, e)
       PROVE  Still
  BY <1>11 DEF Signup, AskCode, Still
<1>12. ASSUME NEW a \in Agents, NEW p \in Phones, Signup(a, p)
       PROVE  Still
  BY <1>12 DEF Signup, Still
<1>13. ASSUME NEW a \in Agents, NEW u \in users, Login(a, u) \/ AcceptInvitation(a, u)
       PROVE  Still
  BY <1>13 DEF Login, AcceptInvitation, Still
<1>14. ASSUME NEW a \in Agents, NEW u \in users, NEW e \in Emails,
              InviteMember(a, u, e) \/ RevokeInvitation(a, u, e)
       PROVE  Still
  BY <1>14 DEF InviteMember, RevokeInvitation, Still
<1>15. ASSUME NEW p \in Phones, ExpireCode(p)
       PROVE  Still
  BY <1>15 DEF ExpireCode, Still
<1>16. ASSUME Restart
       PROVE  Still
  BY <1>16 DEF Restart, Still
<1>17. ASSUME NEW a \in Agents, Enter(a)
       PROVE  \/ Still
              \/ CreateMerchant(a) \/ CreateUser(a) \/ AddsMember(a) \/ Uninvites(a)
              \/ StoresSession(a)
  BY <1>2, <1>5, <1>6, <1>7, <1>8, <1>9, <1>10, <1>11, <1>12, <1>13, <1>17 DEF Enter
<1>18. ASSUME NEW a \in Agents, Work(a)
       PROVE  Still \/ AddsMember(a) \/ Uninvites(a) \/ Invite(a)
  BY <1>2, <1>8, <1>9, <1>10, <1>13, <1>14, <1>18 DEF Work
<1> QED
  BY <1>15, <1>16, <1>17, <1>18 DEF AccountsNext

LEMMA StepGrows ==
  ASSUME AccountsSound, AccountsNext
  PROVE  Grows
<1>1. ASSUME NEW a \in Agents, CreateMerchant(a)
      PROVE  Grows
  BY <1>1 DEF CreateMerchant, Grows, AccountsSound, UsersSound, team
<1>2. ASSUME NEW a \in Agents, CreateUser(a)
      PROVE  Grows
  BY <1>2 DEF CreateUser, Grows, team
<1>3. ASSUME NEW a \in Agents, AddsMember(a) \/ Uninvites(a) \/ StoresSession(a) \/ Invite(a)
      PROVE  Grows
  BY <1>3 DEF AddsMember, AddMember, Uninvites, DeleteInvitations, StoresSession, Invite,
              Grows, team
<1>4. ASSUME Still \/ \E inv \in invitations : ExpireInvitation(inv)
      PROVE  Grows
  BY <1>4 DEF Still, ExpireInvitation, Grows, team
<1> QED
  BY <1>1, <1>2, <1>3, <1>4, StepKinds

LEMMA StepUsers ==
  ASSUME AccountsSound, AccountsNext
  PROVE  UsersSound'
<1> USE DEF AccountsSound, UsersSound
<1>0. Grows
  BY StepGrows
<1>1. ASSUME NEW a \in Agents, CreateMerchant(a)
      PROVE  UsersSound'
  <2>1. JobSound("merchant", job[a], merchants, users, invited)
    BY <1>1, JobAt DEF CreateMerchant
  <2>2. job[a].email \in Emails /\ UNCHANGED <<users, invited>>
    BY <1>1, <2>1 DEF JobSound, CreateMerchant, team
  <2>3. merchants' \in [Merchants -> Emails \cup {None}]
    BY <1>1, <2>2 DEF CreateMerchant
  <2>4. ASSUME NEW u \in users
        PROVE  merchants'[u[1]] # None /\ (merchants'[u[1]] = u[2] \/ u \in invited)
    <3>1. u[1] \in Merchants /\ merchants[u[1]] # None
      BY DEF Account
    <3>2. merchants'[u[1]] = merchants[u[1]]
      BY <1>0, <3>1 DEF Grows
    <3> QED
      BY <3>1, <3>2
  <2> QED
    BY <2>2, <2>3, <2>4
<1>2. ASSUME NEW a \in Agents, CreateUser(a)
      PROVE  UsersSound'
  <2>1. JobSound("user", job[a], merchants, users, invited)
    BY <1>2, JobAt DEF CreateUser, At
  <2>2. /\ Who(a) = <<job[a].merchant, job[a].email>> /\ Who(a) \in Account
        /\ merchants[Who(a)[1]] # None
        /\ merchants[Who(a)[1]] = Who(a)[2] \/ Who(a) \in invited
    BY <2>1 DEF JobSound, Who, Account
  <2>3. users' = users \cup {Who(a)} /\ UNCHANGED <<merchants, invited>>
    BY <1>2 DEF CreateUser, team
  <2> HIDE DEF Who
  <2> QED
    BY <2>2, <2>3
<1>3. ASSUME UNCHANGED <<merchants, users>>
      PROVE  UsersSound'
  BY <1>0, <1>3 DEF Grows
<1>4. ASSUME NEW a \in Agents, AddsMember(a) \/ Uninvites(a) \/ StoresSession(a) \/ Invite(a)
      PROVE  UNCHANGED <<merchants, users>>
  BY <1>4 DEF AddsMember, AddMember, Uninvites, DeleteInvitations, StoresSession, Invite
<1>5. ASSUME Still \/ \E inv \in invitations : ExpireInvitation(inv)
      PROVE  UNCHANGED <<merchants, users>>
  BY <1>5 DEF Still, ExpireInvitation
<1> QED
  BY <1>1, <1>2, <1>3, <1>4, <1>5, StepKinds

LEMMA StepTeam ==
  ASSUME AccountsSound, AccountsNext
  PROVE  TeamSound'
<1> USE DEF AccountsSound, TeamSound
<1>0. Grows
  BY StepGrows
<1>1. ASSUME NEW inv \in invitations
      PROVE  /\ <<inv.merchant, inv.email>> \in invited'
             /\ inv.merchant \in Merchants /\ merchants'[inv.merchant] # None
  <2>1. inv.merchant \in Merchants /\ merchants[inv.merchant] # None
    BY DEF Invitation
  <2> QED
    BY <1>0, <2>1 DEF Grows
<1>2. ASSUME UNCHANGED team
      PROVE  TeamSound'
  BY <1>1, <1>2 DEF team
<1>3. ASSUME NEW a \in Agents, CreateMerchant(a) \/ CreateUser(a) \/ StoresSession(a) \/ Still
      PROVE  UNCHANGED team
  BY <1>3 DEF CreateMerchant, CreateUser, StoresSession, Still
<1>4. ASSUME NEW a \in Agents, AddsMember(a)
      PROVE  TeamSound'
  <2>1. JobSound(pc[a], job[a], merchants, users, invited)
    BY <1>4, JobAt DEF AddsMember
  <2>2. Who(a) \in invited /\ Who(a) \in Account
    BY <1>4, <2>1 DEF AddsMember, JobSound, Who, Account
  <2>3. members' = [members EXCEPT ![Who(a)] = OneMore(@)]
        /\ UNCHANGED <<invitations, expired, invited>>
    BY <1>4 DEF AddsMember, AddMember
  <2>4. members[Who(a)] \in 0..2
    BY <2>2
  <2>5. OneMore(members[Who(a)]) \in 0..2
    BY <2>4 DEF OneMore
  <2> HIDE DEF Who
  <2>6. /\ members' \in [Account -> 0..2]
        /\ \A u \in Account : members'[u] > 0 => u \in invited'
    BY <2>2, <2>3, <2>5
  <2> QED
    BY <1>1, <2>3, <2>6
<1>5. ASSUME NEW a \in Agents, Uninvites(a)
      PROVE  TeamSound'
  <2>1. /\ invitations' \subseteq invitations /\ expired' = expired \cap invitations'
        /\ UNCHANGED <<members, invited>>
    BY <1>5 DEF Uninvites, DeleteInvitations
  <2> QED
    BY <1>1, <2>1
<1>6. ASSUME NEW a \in Agents, Invite(a)
      PROVE  TeamSound'
  <2>1. JobSound("invite", job[a], merchants, users, invited) /\ invites \in 0..MaxInvites
    BY <1>6, JobAt DEF Invite, At, CountsSound
  <2>2. /\ job[a].merchant \in Merchants /\ job[a].email \in Emails
        /\ merchants[job[a].merchant] # None
    BY <2>1 DEF JobSound
  <2> DEFINE new == [merchant |-> job[a].merchant, email |-> job[a].email, id |-> invites + 1]
  <2>3. invites + 1 \in 1..MaxInvites
    BY <1>6, <2>1, Bounds DEF Invite
  <2>4. new \in Invitation /\ new.merchant = job[a].merchant /\ new.email = job[a].email
    BY <2>2, <2>3 DEF Invitation
  <2>5. /\ invitations' = invitations \cup {new} /\ invited' = invited \cup {Who(a)}
        /\ UNCHANGED <<members, expired, merchants>>
    BY <1>6 DEF Invite
  <2>6. Who(a) = <<new.merchant, new.email>> /\ Who(a) \in Account
    BY <2>2, <2>4 DEF Who, Account
  <2> HIDE DEF new, Who
  <2> QED
    BY <1>1, <2>2, <2>4, <2>5, <2>6
<1>7. ASSUME NEW inv \in invitations, ExpireInvitation(inv)
      PROVE  TeamSound'
  BY <1>1, <1>7 DEF ExpireInvitation
<1>8. ASSUME Still
      PROVE  TeamSound'
  BY <1>2, <1>8 DEF Still
<1> QED
  BY <1>2, <1>3, <1>4, <1>5, <1>6, <1>7, <1>8, StepKinds

LEMMA StepLogin ==
  ASSUME AccountsSound, AccountsNext
  PROVE  LoginSound'
<1> USE DEF AccountsSound, LoginSound
<1>1. users \subseteq users'
  BY StepGrows DEF Grows
<1>2. ASSUME UNCHANGED login
      PROVE  LoginSound'
  BY <1>1, <1>2 DEF login
<1>3. ASSUME NEW a \in Agents,
             CreateMerchant(a) \/ CreateUser(a) \/ AddsMember(a) \/ Uninvites(a) \/ Invite(a)
      PROVE  UNCHANGED login
  BY <1>3 DEF CreateMerchant, CreateUser, AddsMember, AddMember, Uninvites, DeleteInvitations,
              Invite
<1>4. ASSUME Still \/ \E inv \in invitations : ExpireInvitation(inv)
      PROVE  UNCHANGED login
  BY <1>4 DEF Still, ExpireInvitation
<1>5. ASSUME NEW a \in Agents, StoresSession(a)
      PROVE  LoginSound'
  <2>1. JobSound(pc[a], job[a], merchants, users, invited)
    BY <1>5, JobAt DEF StoresSession
  <2>2. Who(a) \in users
    BY <1>5, <2>1 DEF StoresSession, JobSound, Who
  <2>3. PICK n \in 0..2 : sessions' = [sessions EXCEPT ![Who(a)] = n]
    BY <1>5 DEF StoresSession
  <2>4. loggedIn' \subseteq loggedIn \cup {Who(a)} /\ users' = users
    BY <1>5 DEF StoresSession
  <2> QED
    BY <2>2, <2>3, <2>4
<1> QED
  BY <1>2, <1>3, <1>4, <1>5, StepKinds

(* The bounds, and the codes.                                              *)
LEMMA StepCounts ==
  ASSUME AccountsSound, AccountsNext
  PROVE  CountsSound'
<1> USE Bounds DEF AccountsSound, CountsSound
<1> DEFINE Counted == requests' \in 0..MaxRequests /\ invites' \in 0..MaxInvites
                        /\ faults' \in 0..MaxFaults /\ broken' \subseteq Owed
<1>1. ASSUME NEW a \in Agents, NEW s, NEW j, Begin(a, s, j)
      PROVE  Counted
  BY <1>1 DEF Begin
<1>0. ASSUME NEW a
      PROVE  Lost(a) \subseteq Owed
  BY DEF Lost
<1>2. ASSUME Fault, broken' \subseteq broken \cup Owed
      PROVE  Counted
  BY <1>2 DEF Fault
<1>3. ASSUME UNCHANGED record
      PROVE  Counted
  BY <1>3 DEF record
<1>4. ASSUME NEW a \in Agents, Invite(a)
      PROVE  CountsSound'
  BY <1>4 DEF Invite
<1>5. ASSUME Counted, UNCHANGED otp
      PROVE  CountsSound'
  BY <1>5
<1>6. ASSUME NEW a \in Agents, NEW s, NEW t, FailsTo(a, s, t)
      PROVE  CountsSound'
  BY <1>0, <1>2, <1>5, <1>6 DEF FailsTo
<1>7. ASSUME NEW a \in Agents, SignupFails(a) \/ TeamFails(a) \/ LoginFails(a)
      PROVE  CountsSound'
  BY <1>2, <1>5, <1>6, <1>7 DEF SignupFails, TeamFails, LoginFails, AddSession
<1>8. ASSUME NEW a \in Agents, NEW p \in Phones,
             Signup(a, p) \/ \E e \in Emails : AskCode(a, p, e)
      PROVE  CountsSound'
  BY <1>1, <1>5, <1>8 DEF Signup, AskCode
<1>9. ASSUME NEW a \in Agents, NEW u \in users,
             \/ Login(a, u) \/ AcceptInvitation(a, u)
             \/ \E e \in Emails : InviteMember(a, u, e) \/ RevokeInvitation(a, u, e)
      PROVE  CountsSound'
  BY <1>1, <1>5, <1>9 DEF Login, AcceptInvitation, InviteMember, RevokeInvitation
<1>10. ASSUME NEW a \in Agents, SetCode(a) \/ SpendCode(a)
       PROVE  CountsSound'
  <2>1. JobSound(pc[a], job[a], merchants, users, invited) /\ pc[a] \in {"code", "spend"}
    BY <1>10, JobAt DEF SetCode, SpendCode, At
  <2>2. job[a].phone \in Phones /\ job[a].email \in Emails
    BY <2>1 DEF JobSound
  <2>3. otp' \in [Phones -> Emails \cup {None}]
    BY <1>10, <2>2 DEF SetCode, SpendCode
  <2>4. UNCHANGED record
    BY <1>10 DEF SetCode, SpendCode
  <2> QED
    BY <1>3, <2>3, <2>4
<1>11. ASSUME NEW p \in Phones, ExpireCode(p)
       PROVE  CountsSound'
  BY <1>3, <1>11 DEF ExpireCode
<1>12. ASSUME Restart
       PROVE  CountsSound'
  BY <1>0, <1>2, <1>12 DEF Restart
<1>13. ASSUME NEW a \in Agents,
              \/ JoinInviter(a) \/ NotInvited(a) \/ CreateMerchant(a) \/ CreateUser(a)
              \/ UserExists(a) \/ SignupUninvites(a) \/ ClearSessions(a)
       PROVE  CountsSound'
  <2>1. UNCHANGED record /\ UNCHANGED otp
    BY <1>13 DEF JoinInviter, NotInvited, CreateMerchant, CreateUser, UserExists,
                 SignupUninvites, DeleteInvitations, ClearSessions
  <2> QED
    BY <1>3, <1>5, <2>1
<1>14. ASSUME NEW a \in Agents,
              \/ CheckMember(a) \/ CheckInvited(a) \/ Revoke(a) \/ ReadInvitation(a)
              \/ WrongInvitation(a) \/ AcceptUninvites(a)
       PROVE  CountsSound'
  <2>1. UNCHANGED record /\ UNCHANGED otp
    BY <1>14 DEF CheckMember, CheckInvited, Revoke, ReadInvitation, WrongInvitation,
                 AcceptUninvites, DeleteInvitations
  <2> QED
    BY <1>3, <1>5, <2>1
<1>15. ASSUME NEW inv, ExpireInvitation(inv)
       PROVE  CountsSound'
  BY <1>3, <1>5, <1>15 DEF ExpireInvitation
<1>18. ASSUME NEW a \in Agents, HashRefused(a) \/ CreateMember(a) \/ Join(a)
                                 \/ CreateSession(a) \/ LoginStores(a)
       PROVE  CountsSound'
  <2>1. broken' \subseteq broken \cup Lost(a) /\ UNCHANGED <<otp, requests, invites, faults>>
    BY <1>18 DEF HashRefused, CreateMember, Join, AddMember, CreateSession, LoginStores, AddSession
  <2> QED
    BY <1>0, <1>5, <2>1
<1>16. ASSUME NEW a \in Agents, Enter(a)
       PROVE  CountsSound'
  BY <1>7, <1>8, <1>9, <1>10, <1>13, <1>16, <1>18 DEF Enter
<1>17. ASSUME NEW a \in Agents, Work(a)
       PROVE  CountsSound'
  BY <1>4, <1>7, <1>9, <1>14, <1>17, <1>18 DEF Work
<1> QED
  BY <1>11, <1>12, <1>15, <1>16, <1>17 DEF AccountsNext

LEMMA StepJobs ==
  ASSUME AccountsSound, AccountsNext
  PROVE  JobsSound'
<1>0. Grows
  BY StepGrows
<1>1. ASSUME NEW a \in Agents,
             \/ \E p \in Phones : Signup(a, p) \/ \E e \in Emails : AskCode(a, p, e)
             \/ \E u \in users :
                  \/ Login(a, u) \/ AcceptInvitation(a, u)
                  \/ \E e \in Emails : InviteMember(a, u, e) \/ RevokeInvitation(a, u, e)
      PROVE  JobsSound'
  BY <1>1, JobsByRequest
<1>2. ASSUME NEW a \in Agents,
             JoinInviter(a) \/ CreateMerchant(a) \/ CreateUser(a) \/ ReadInvitation(a)
      PROVE  JobsSound'
  BY <1>0, <1>2, JobsByStatement
<1>3. ASSUME NEW a \in Agents, NEW s \in Steps, At(a, s, "idle")
      PROVE  JobsSound'
  <2>1. <<s, "idle">> \in Steps \X {"idle"}
    OBVIOUS
  <2> QED
    BY <1>0, <1>3, <2>1, JobsByGoto
<1>4. ASSUME NEW a \in Agents,
             \/ At(a, "spend", "lookup") \/ At(a, "lookup", "merchant")
             \/ At(a, "member", "uninvite") \/ At(a, "uninvite", "session")
             \/ At(a, "clear", "login") \/ At(a, "isMember", "isInvited")
             \/ At(a, "isInvited", "invite") \/ At(a, "accept", "accepted")
      PROVE  JobsSound'
  BY <1>0, <1>4, JobsByGoto DEF Steps
<1> DEFINE Ends(a) == \E s \in Steps : At(a, s, "idle")
           Goes(a) == \/ At(a, "spend", "lookup") \/ At(a, "lookup", "merchant")
                      \/ At(a, "member", "uninvite") \/ At(a, "uninvite", "session")
                      \/ At(a, "clear", "login") \/ At(a, "isMember", "isInvited")
                      \/ At(a, "isInvited", "invite") \/ At(a, "accept", "accepted")
<1>5. ASSUME NEW a \in Agents, Ends(a) \/ Goes(a)
      PROVE  JobsSound'
  BY <1>3, <1>4, <1>5
<1>6. ASSUME NEW a \in Agents,
             SetCode(a) \/ UserExists(a) \/ HashRefused(a) \/ CreateSession(a) \/ LoginStores(a)
               \/ Invite(a) \/ Revoke(a) \/ WrongInvitation(a) \/ AcceptUninvites(a)
      PROVE  Ends(a)
  BY <1>6 DEF SetCode, UserExists, HashRefused, CreateSession, LoginStores, Invite, Revoke,
              WrongInvitation, AcceptUninvites, Steps
<1>7. ASSUME NEW a \in Agents,
             SpendCode(a) \/ NotInvited(a) \/ CreateMember(a) \/ SignupUninvites(a)
               \/ ClearSessions(a) \/ Join(a)
      PROVE  Goes(a)
  BY <1>7 DEF SpendCode, NotInvited, CreateMember, SignupUninvites, ClearSessions, Join
<1>8. ASSUME NEW a \in Agents, SignupFails(a) \/ TeamFails(a) \/ LoginFails(a)
      PROVE  Ends(a) \/ Goes(a)
  BY <1>8 DEF SignupFails, TeamFails, LoginFails, FailsTo, Steps
<1>9. ASSUME NEW a \in Agents, CheckMember(a) \/ CheckInvited(a)
      PROVE  Ends(a) \/ Goes(a)
  <2>1. At(a, "isMember", "idle") \/ At(a, "isMember", "isInvited") \/ At(a, "isInvited", "idle")
          \/ At(a, "isInvited", "invite")
    BY <1>9 DEF CheckMember, CheckInvited
  <2> QED
    BY <2>1 DEF Steps
<1>10. ASSUME UNCHANGED handling
       PROVE  JobsSound'
  BY <1>0, <1>10, PlacedStays DEF handling, AccountsSound, JobsSound
<1>11. ASSUME (\E p \in Phones : ExpireCode(p)) \/ \E inv \in invitations : ExpireInvitation(inv)
       PROVE  JobsSound'
  BY <1>10, <1>11 DEF ExpireCode, ExpireInvitation
<1>12. ASSUME Restart
       PROVE  JobsSound'
  <2>1. NoJob \in Jobs
    BY DEF NoJob, Jobs
  <2> QED
    BY <1>12, <2>1 DEF Restart, JobsSound, Placed
<1> HIDE DEF Ends, Goes
<1>13. ASSUME NEW a \in Agents, Enter(a)
       PROVE  JobsSound'
  BY <1>1, <1>2, <1>5, <1>6, <1>7, <1>8, <1>13 DEF Enter
<1>14. ASSUME NEW a \in Agents, Work(a)
       PROVE  JobsSound'
  BY <1>1, <1>2, <1>5, <1>6, <1>7, <1>8, <1>9, <1>14 DEF Work
<1> QED
  BY <1>11, <1>12, <1>13, <1>14 DEF AccountsNext

-----------------------------------------------------------------------------
LEMMA SoundInit ==
  ASSUME AccountsInit
  PROVE  AccountsSound
<1> USE AccountConstants, Bounds DEF AccountsInit
<1>1. JobsSound
  BY DEF JobsSound, Placed, NoJob, Jobs
<1>2. users = {<<Home, Founder>>} /\ <<Home, Founder>> \in Account /\ Founder # None
  BY DEF Account
<1>3. merchants \in [Merchants -> Emails \cup {None}] /\ merchants[Home] = Founder
  OBVIOUS
<1>4. UsersSound
  BY <1>2, <1>3 DEF UsersSound
<1>5. TeamSound
  BY DEF TeamSound
<1>6. LoginSound
  BY <1>2 DEF LoginSound
<1>7. CountsSound
  BY DEF CountsSound
<1> QED
  BY <1>1, <1>4, <1>5, <1>6, <1>7 DEF AccountsSound

LEMMA SoundNext ==
  ASSUME AccountsSound, [AccountsNext]_cvars
  PROVE  AccountsSound'
<1>1. CASE AccountsNext
  BY <1>1, StepJobs, StepUsers, StepTeam, StepLogin, StepCounts DEF AccountsSound
<1>2. CASE UNCHANGED cvars
  <2>1. UNCHANGED <<otp, pc, job, merchants, users, members, invitations, expired, invited,
                    sessions, loggedIn, broken, requests, invites, faults>>
    BY <1>2 DEF cvars, handling, team, login, record
  <2> QED
    BY <2>1 DEF AccountsSound, JobsSound, UsersSound, TeamSound, LoginSound, CountsSound
<1> QED
  BY <1>1, <1>2

LEMMA AlwaysSound == AccountsSpec => []AccountsSound
  BY SoundInit, SoundNext, PTL DEF AccountsSpec

(* A request knows an email exactly while it is under way; the tables hold *)
(* only what belongs in them (signup.go, portal.go, repository/portal.go). *)
THEOREM AccountsTypeCorrect == AccountsSpec => []AccountsTypeOK
<1>1. ASSUME AccountsSound
      PROVE  AccountsTypeOK
  <2> USE <1>1 DEF AccountsSound
  <2>1. ASSUME NEW a \in Agents
        PROVE  pc[a] = "idle" <=> job[a] = NoJob
    <3>1. (pc[a] = "idle" /\ job[a] = NoJob) \/ JobSound(pc[a], job[a], merchants, users, invited)
      BY DEF JobsSound, Placed
    <3>2. NoJob.email = None
      BY DEF NoJob
    <3>3. ASSUME JobSound(pc[a], job[a], merchants, users, invited)
          PROVE  pc[a] # "idle" /\ job[a].email # None
      BY <3>3, Bounds DEF JobSound, Steps
    <3> QED
      BY <3>1, <3>2, <3>3
  <2> QED
    BY <2>1 DEF AccountsTypeOK, JobsSound, UsersSound, TeamSound, LoginSound, CountsSound,
                Steps, Jobs
<1> QED
  BY <1>1, AlwaysSound, PTL

(* Whoever belongs to a merchant founded it, or was once invited to it,    *)
(* however sign-ups, acceptances, revocations and failures interleave: the *)
(* invitation a request relies on was read some statements earlier, and    *)
(* may be gone by the time the row is written.                             *)
THEOREM JoinedByInvitation == AccountsSpec => []JoinedWasInvited
<1>1. ASSUME AccountsSound
      PROVE  JoinedWasInvited
  BY <1>1 DEF AccountsSound, UsersSound, TeamSound, JoinedWasInvited
<1> QED
  BY <1>1, AlwaysSound, PTL

-----------------------------------------------------------------------------
(* What is missing is on its way, or a request broke off there: a merchant *)
(* without a user has the visitor who founded it, a user without its row   *)
(* in the team is about to get it, and so is one whose sessions were       *)
(* deleted.                                                                *)
FoundersFollow ==
  \A m \in Merchants : merchants[m] # None =>
    \/ \E u \in users : u[1] = m
    \/ <<"user", <<m, merchants[m]>>>> \in broken
    \/ \E a \in Agents : pc[a] = "user" /\ ~job[a].asked /\ job[a].merchant = m

MembersFollow ==
  \A u \in users : merchants[u[1]] # u[2] =>
    \/ members[u] > 0 \/ <<"member", u>> \in broken
    \/ \E a \in Agents : pc[a] = "member" /\ Who(a) = u

SessionsFollow ==
  \A u \in loggedIn :
    \/ sessions[u] > 0 \/ <<"login", u>> \in broken
    \/ \E a \in Agents : pc[a] = "login" /\ Who(a) = u

Following == FoundersFollow /\ MembersFollow /\ SessionsFollow

LEMMA OneMoreCounts ==
  ASSUME NEW c \in 0..2
  PROVE  OneMore(c) \in 0..2 /\ OneMore(c) > 0
  BY DEF OneMore

(* A step of an agent.                                                     *)
Goes(a) == Enter(a) \/ Work(a)

(* Its statement is lost, or it breaks off.                                *)
Breaks(a) ==
  /\ broken' = broken \cup Lost(a)
  /\ UNCHANGED <<merchants, users, members, sessions, loggedIn>>

(* It stores a session, be the token handed out or not.                    *)
Stores(a) ==
  /\ AddSession(Who(a))
  /\ loggedIn' \in {loggedIn, loggedIn \cup {Who(a)}}
  /\ pc[a] \in {"session", "login"}
  /\ UNCHANGED <<merchants, users, members>>

LEMMA FailsKinds ==
  ASSUME NEW a \in Agents
  PROVE  /\ SignupFails(a) \/ TeamFails(a) => Breaks(a)
         /\ LoginFails(a) => Breaks(a) \/ (Stores(a) /\ pc[a] = "login")
<1>1. ASSUME NEW s, NEW t, FailsTo(a, s, t)
      PROVE  Breaks(a)
  BY <1>1 DEF FailsTo, Breaks, team, login
<1>2. ASSUME At(a, "login", "idle"), AddSession(Who(a)),
             UNCHANGED <<otp, merchants, users, team, loggedIn>>
      PROVE  Stores(a) /\ pc[a] = "login"
  BY <1>2 DEF At, Stores, team
<1> QED
  BY <1>1, <1>2 DEF SignupFails, TeamFails, LoginFails

LEMMA OthersStay ==
  ASSUME AccountsSound, NEW a \in Agents, Goes(a), NEW b \in Agents, b # a
  PROVE  pc'[b] = pc[b] /\ job'[b] = job[b]
<1>1. ASSUME NEW s, NEW t, At(a, s, t)
      PROVE  pc'[b] = pc[b] /\ job'[b] = job[b]
  BY <1>1 DEF At, Goto, AccountsSound, JobsSound
<1>2. ASSUME NEW s, NEW j, Begin(a, s, j)
      PROVE  pc'[b] = pc[b] /\ job'[b] = job[b]
  BY <1>2 DEF Begin, AccountsSound, JobsSound
<1>3. ASSUME JoinInviter(a) \/ CreateMerchant(a) \/ ReadInvitation(a)
      PROVE  pc'[b] = pc[b] /\ job'[b] = job[b]
  BY <1>3 DEF JoinInviter, CreateMerchant, ReadInvitation, AccountsSound, JobsSound
<1>4. ASSUME NEW p \in Phones, Signup(a, p) \/ \E e \in Emails : AskCode(a, p, e)
      PROVE  pc'[b] = pc[b] /\ job'[b] = job[b]
  BY <1>2, <1>4 DEF Signup, AskCode
<1>5. ASSUME NEW u \in users,
             \/ Login(a, u) \/ AcceptInvitation(a, u)
             \/ \E e \in Emails : InviteMember(a, u, e) \/ RevokeInvitation(a, u, e)
      PROVE  pc'[b] = pc[b] /\ job'[b] = job[b]
  BY <1>2, <1>5 DEF Login, AcceptInvitation, InviteMember, RevokeInvitation
<1>6. ASSUME \/ SetCode(a) \/ SpendCode(a) \/ NotInvited(a) \/ CreateUser(a) \/ UserExists(a)
             \/ HashRefused(a) \/ CreateMember(a) \/ SignupUninvites(a) \/ CreateSession(a)
             \/ ClearSessions(a) \/ LoginStores(a)
      PROVE  pc'[b] = pc[b] /\ job'[b] = job[b]
  BY <1>1, <1>6 DEF SetCode, SpendCode, NotInvited, CreateUser, UserExists, HashRefused,
                    CreateMember, SignupUninvites, CreateSession, ClearSessions, LoginStores
<1>7. ASSUME \/ CheckMember(a) \/ CheckInvited(a) \/ Invite(a) \/ Revoke(a) \/ WrongInvitation(a)
             \/ Join(a) \/ AcceptUninvites(a)
      PROVE  pc'[b] = pc[b] /\ job'[b] = job[b]
  BY <1>1, <1>7 DEF CheckMember, CheckInvited, Invite, Revoke, WrongInvitation, Join,
                    AcceptUninvites
<1>8. ASSUME SignupFails(a) \/ TeamFails(a) \/ LoginFails(a)
      PROVE  pc'[b] = pc[b] /\ job'[b] = job[b]
  BY <1>1, <1>8 DEF SignupFails, TeamFails, LoginFails, FailsTo
<1>9. CASE Enter(a)
  BY <1>3, <1>4, <1>5, <1>6, <1>8, <1>9 DEF Enter
<1>10. CASE Work(a)
  BY <1>3, <1>5, <1>7, <1>8, <1>10 DEF Work
<1> QED
  BY <1>9, <1>10 DEF Goes

(* What a step changes, and which step is taken where others have to       *)
(* follow.                                                                 *)
LEMMA StepChanges ==
  ASSUME AccountsSound, NEW a \in Agents, Goes(a)
  PROVE  \/ /\ UNCHANGED <<merchants, users, members, sessions, loggedIn, broken>>
            /\ pc[a] \in {"member", "login"} => FALSE
            /\ pc[a] = "user" => UserExists(a)
         \/ Breaks(a)
         \/ CreateMerchant(a) \/ CreateUser(a)
         \/ CreateMember(a) \/ Join(a)
         \/ ClearSessions(a) \/ Stores(a)
<1> DEFINE Quiet == /\ UNCHANGED <<merchants, users, members, sessions, loggedIn, broken>>
                    /\ pc[a] \notin {"user", "member", "login"}
<1>1. ASSUME NEW p \in Phones, Signup(a, p) \/ \E e \in Emails : AskCode(a, p, e)
      PROVE  Quiet
  BY <1>1 DEF Signup, AskCode, Begin, team, login
<1>2. ASSUME NEW u \in users,
             \/ Login(a, u) \/ AcceptInvitation(a, u)
             \/ \E e \in Emails : InviteMember(a, u, e) \/ RevokeInvitation(a, u, e)
      PROVE  Quiet
  BY <1>2 DEF Login, AcceptInvitation, InviteMember, RevokeInvitation, Begin, team, login
<1>3. ASSUME \/ SetCode(a) \/ SpendCode(a) \/ JoinInviter(a) \/ NotInvited(a)
             \/ SignupUninvites(a)
      PROVE  Quiet
  BY <1>3 DEF SetCode, SpendCode, JoinInviter, NotInvited, SignupUninvites, At,
              DeleteInvitations, team, login, record
<1>4. ASSUME \/ CheckMember(a) \/ CheckInvited(a) \/ Invite(a) \/ Revoke(a) \/ ReadInvitation(a)
             \/ WrongInvitation(a) \/ AcceptUninvites(a)
      PROVE  Quiet
  BY <1>4 DEF CheckMember, CheckInvited, Invite, Revoke, ReadInvitation, WrongInvitation, At,
              AcceptUninvites, DeleteInvitations, team, login, record
<1>5. ASSUME UserExists(a)
      PROVE  UNCHANGED <<merchants, users, members, sessions, loggedIn, broken>> /\ pc[a] = "user"
  BY <1>5 DEF UserExists, At, team, login, record
<1>6. ASSUME HashRefused(a)
      PROVE  Breaks(a)
  BY <1>6 DEF HashRefused, Breaks, team, login
<1>7. ASSUME LoginStores(a) \/ CreateSession(a)
      PROVE  Stores(a)
  BY <1>7 DEF LoginStores, CreateSession, At, Stores, team
<1>8. CASE Enter(a)
  BY <1>1, <1>2, <1>3, <1>5, <1>6, <1>7, <1>8, FailsKinds DEF Enter
<1>9. CASE Work(a)
  BY <1>2, <1>4, <1>9, FailsKinds DEF Work
<1> QED
  BY <1>8, <1>9 DEF Goes

(* Nothing that broke off is forgotten but by a statement that makes up    *)
(* for it.                                                                 *)
LEMMA BrokenStays ==
  ASSUME AccountsSound, NEW a \in Agents, Goes(a), NEW o \in broken
  PROVE  \/ o \in broken'
         \/ o = <<"member", Who(a)>> /\ (CreateMember(a) \/ Join(a))
         \/ o = <<"login", Who(a)>> /\ Stores(a)
  BY StepChanges DEF Breaks, CreateMerchant, CreateUser, CreateMember, Join, AddMember,
                     ClearSessions, Stores, AddSession, record

LEMMA FoundersStillFollow ==
  ASSUME AccountsSound, NEW a \in Agents, Goes(a), Grows, FoundersFollow
  PROVE  FoundersFollow'
<1>1. SUFFICES ASSUME NEW m \in Merchants, merchants'[m] # None
               PROVE  \/ \E u \in users' : u[1] = m
                      \/ <<"user", <<m, merchants'[m]>>>> \in broken'
                      \/ \E b \in Agents : pc'[b] = "user" /\ ~job'[b].asked /\ job'[b].merchant = m
  BY DEF FoundersFollow
<1>2. CASE merchants[m] = None
  <2>1. CreateMerchant(a)
    BY <1>1, <1>2, StepChanges DEF Breaks, CreateUser, CreateMember, Join, AddMember,
                                   ClearSessions, Stores
  <2>2. JobSound("merchant", job[a], merchants, users, invited) /\ job[a] \in Jobs
    BY <2>1, JobAt DEF CreateMerchant, AccountsSound
  <2>3. PICK n \in Merchants : /\ merchants' = [merchants EXCEPT ![n] = job[a].email]
                               /\ job' = [job EXCEPT ![a].merchant = n]
    BY <2>1 DEF CreateMerchant
  <2>4. n = m
    BY <1>1, <1>2, <2>3 DEF AccountsSound, UsersSound
  <2>5. pc'[a] = "user" /\ job'[a] = [job[a] EXCEPT !.merchant = m]
    BY <2>1, <2>3, <2>4 DEF CreateMerchant, AccountsSound, JobsSound
  <2>6. ~job'[a].asked /\ job'[a].merchant = m
    BY <2>2, <2>5 DEF JobSound, Jobs
  <2> QED
    BY <2>5, <2>6
<1>3. CASE merchants[m] # None
  <2>1. merchants'[m] = merchants[m]
    BY <1>3 DEF Grows
  <2>2. CASE \E u \in users : u[1] = m
    BY <2>2 DEF Grows
  <2>3. CASE <<"user", <<m, merchants[m]>>>> \in broken
    BY <2>1, <2>3, BrokenStays
  <2>4. ASSUME NEW b \in Agents, pc[b] = "user", ~job[b].asked, job[b].merchant = m
        PROVE  \/ \E u \in users' : u[1] = m
               \/ <<"user", <<m, merchants'[m]>>>> \in broken'
               \/ \E c \in Agents : pc'[c] = "user" /\ ~job'[c].asked /\ job'[c].merchant = m
    <3>1. CASE b # a
      BY <2>4, <3>1, OthersStay
    <3>2. CASE b = a
      <4>1. CreateUser(a) \/ UserExists(a) \/ Breaks(a)
        BY <2>4, <3>2, StepChanges DEF CreateMerchant, CreateMember, Join, ClearSessions, Stores, At
      <4>2. ASSUME CreateUser(a) \/ UserExists(a)
            PROVE  \E u \in users' : u[1] = m
        <5>1. Who(a) \in users'
          BY <4>2 DEF CreateUser, UserExists
        <5>2. Who(a)[1] = m
          BY <2>4, <3>2 DEF Who
        <5> QED
          BY <5>1, <5>2
      <4>3. ASSUME Breaks(a)
            PROVE  <<"user", <<m, merchants'[m]>>>> \in broken'
        <5>1. JobSound("user", job[a], merchants, users, invited)
          BY <2>4, <3>2, JobAt DEF AccountsSound
        <5>2. Who(a) = <<m, merchants[m]>> /\ Who(a) \in Account
          BY <2>4, <3>2, <5>1 DEF JobSound, Who, Account
        <5>3. <<"user", Who(a)>> \in Lost(a)
          BY <2>4, <3>2, <5>2 DEF Lost, Owed
        <5> QED
          BY <2>1, <4>3, <5>2, <5>3 DEF Breaks
      <4> QED
        BY <4>1, <4>2, <4>3
    <3> QED
      BY <3>1, <3>2
  <2> QED
    BY <1>3, <2>2, <2>3, <2>4 DEF FoundersFollow
<1> QED
  BY <1>2, <1>3

LEMMA MembersStillFollow ==
  ASSUME AccountsSound, NEW a \in Agents, Goes(a), Grows, MembersFollow
  PROVE  MembersFollow'
<1>1. SUFFICES ASSUME NEW u \in users', merchants'[u[1]] # u[2]
               PROVE  \/ members'[u] > 0 \/ <<"member", u>> \in broken'
                      \/ \E b \in Agents : pc'[b] = "member" /\ Who(b)' = u
  BY DEF MembersFollow
<1>2. CASE u \notin users
  <2>1. CreateUser(a)
    BY <1>1, <1>2, StepChanges DEF Breaks, CreateMerchant, CreateMember, Join, AddMember,
                                   ClearSessions, Stores
  <2>2. u = Who(a) /\ merchants' = merchants /\ At(a, "user", AfterUser(a))
    BY <1>2, <2>1 DEF CreateUser
  <2>3. JobSound("user", job[a], merchants, users, invited)
    BY <2>2, JobAt DEF At, AccountsSound
  <2>4. job[a].asked
    BY <1>1, <2>2, <2>3 DEF JobSound, Who
  <2>5. pc'[a] = "member" /\ job' = job
    BY <2>2, <2>4 DEF At, Goto, AfterUser, AccountsSound, JobsSound
  <2> QED
    BY <2>2, <2>5 DEF Who
<1>3. CASE u \in users
  <2>1. u \in Account /\ u[1] \in Merchants /\ merchants[u[1]] # None
    BY <1>3 DEF AccountsSound, UsersSound, Account
  <2>2. merchants[u[1]] # u[2]
    BY <1>1, <2>1 DEF Grows
  <2>3. members \in [Account -> 0..2]
    BY DEF AccountsSound, TeamSound
  <2>4. ASSUME AddMember(a), u = Who(a)
        PROVE  members'[u] > 0
    <3>1. members'[u] = OneMore(members[u])
      BY <2>1, <2>3, <2>4 DEF AddMember
    <3> QED
      BY <2>1, <2>3, <3>1, OneMoreCounts
  <2>5. CASE members[u] > 0
    <3>1. members' = members \/ AddMember(a)
      BY StepChanges DEF Breaks, CreateMerchant, CreateUser, CreateMember, Join, ClearSessions,
                         Stores, team
    <3>2. CASE AddMember(a) /\ u # Who(a)
      BY <2>1, <2>3, <2>5, <3>2 DEF AddMember
    <3> QED
      BY <2>4, <2>5, <3>1, <3>2
  <2>6. CASE <<"member", u>> \in broken
    BY <2>4, <2>6, BrokenStays DEF CreateMember, Join
  <2>7. ASSUME NEW b \in Agents, pc[b] = "member", Who(b) = u
        PROVE  \/ members'[u] > 0 \/ <<"member", u>> \in broken'
               \/ \E c \in Agents : pc'[c] = "member" /\ Who(c)' = u
    <3>1. CASE b # a
      BY <2>7, <3>1, OthersStay DEF Who
    <3>2. CASE b = a
      <4>1. CreateMember(a) \/ Breaks(a)
        BY <2>7, <3>2, StepChanges DEF CreateMerchant, CreateUser, Join, ClearSessions, Stores, At
      <4>2. CASE CreateMember(a)
        BY <2>4, <2>7, <3>2, <4>2 DEF CreateMember
      <4>3. CASE Breaks(a)
        BY <2>1, <2>7, <3>2, <4>3 DEF Breaks, Lost, Owed
      <4> QED
        BY <4>1, <4>2, <4>3
    <3> QED
      BY <3>1, <3>2
  <2> QED
    BY <1>3, <2>2, <2>5, <2>6, <2>7 DEF MembersFollow
<1> QED
  BY <1>2, <1>3

LEMMA SessionsStillFollow ==
  ASSUME AccountsSound, NEW a \in Agents, Goes(a), SessionsFollow
  PROVE  SessionsFollow'
<1>1. SUFFICES ASSUME NEW u \in loggedIn'
               PROVE  \/ sessions'[u] > 0 \/ <<"login", u>> \in broken'
                      \/ \E b \in Agents : pc'[b] = "login" /\ Who(b)' = u
  BY DEF SessionsFollow
<1>2. sessions \in [Account -> 0..2] /\ loggedIn \subseteq Account
  BY DEF AccountsSound, LoginSound, UsersSound
<1>3. ASSUME Stores(a)
      PROVE  /\ Who(a) \in Account /\ sessions' \in [Account -> 0..2]
             /\ sessions'[Who(a)] > 0
             /\ \A v \in Account : v # Who(a) => sessions'[v] = sessions[v]
             /\ loggedIn' \subseteq loggedIn \cup {Who(a)}
  <2>1. JobSound(pc[a], job[a], merchants, users, invited) /\ pc[a] \in {"login", "session"}
    BY <1>3, JobAt DEF Stores, AccountsSound
  <2>2. Who(a) \in Account
    BY <2>1 DEF JobSound, Who, Account
  <2>3. /\ sessions' = [sessions EXCEPT ![Who(a)] = OneMore(@)]
        /\ loggedIn' \subseteq loggedIn \cup {Who(a)}
    BY <1>3 DEF Stores, AddSession
  <2>4. OneMore(sessions[Who(a)]) \in 0..2 /\ OneMore(sessions[Who(a)]) > 0
    BY <1>2, <2>2, OneMoreCounts
  <2> HIDE DEF Who
  <2> QED
    BY <1>2, <2>2, <2>3, <2>4
<1>4. CASE Stores(a) /\ u = Who(a)
  BY <1>3, <1>4
<1>5. CASE ClearSessions(a) /\ u = Who(a)
  <2>1. pc[a] = "clear" /\ pc'[a] = "login" /\ job' = job
    BY <1>5 DEF ClearSessions, At, Goto, AccountsSound, JobsSound
  <2> QED
    BY <1>5, <2>1 DEF Who
<1>6. CASE ~((Stores(a) \/ ClearSessions(a)) /\ u = Who(a))
  <2>1. u \in loggedIn
    BY <1>1, <1>3, <1>6, StepChanges DEF Breaks, CreateMerchant, CreateUser, CreateMember, Join,
                                         AddMember, ClearSessions, login
  <2>2. sessions'[u] = sessions[u]
    <3>1. CASE ClearSessions(a)
      BY <1>2, <1>6, <2>1, <3>1 DEF ClearSessions
    <3>2. CASE Stores(a)
      BY <1>2, <1>3, <1>6, <2>1, <3>2
    <3> QED
      BY <3>1, <3>2, StepChanges DEF Breaks, CreateMerchant, CreateUser, CreateMember, Join,
                                     AddMember, login
  <2>3. CASE sessions[u] > 0
    BY <2>2, <2>3
  <2>4. CASE <<"login", u>> \in broken
    BY <1>6, <2>4, BrokenStays
  <2>5. ASSUME NEW b \in Agents, pc[b] = "login", Who(b) = u
        PROVE  \/ <<"login", u>> \in broken'
               \/ \E c \in Agents : pc'[c] = "login" /\ Who(c)' = u
    <3>1. CASE b # a
      BY <2>5, <3>1, OthersStay DEF Who
    <3>2. CASE b = a
      <4>1. Breaks(a)
        BY <1>6, <2>5, <3>2, StepChanges DEF CreateMerchant, CreateUser, CreateMember, Join,
                                             ClearSessions, At
      <4> QED
        BY <1>2, <2>1, <2>5, <3>2, <4>1 DEF Breaks, Lost, Owed
    <3> QED
      BY <3>1, <3>2
  <2> QED
    BY <2>1, <2>3, <2>4, <2>5 DEF SessionsFollow
<1> QED
  BY <1>4, <1>5, <1>6

(* A restart breaks off every request where it is.                         *)
LEMMA RestartBreaks ==
  ASSUME AccountsSound, Following, Restart
  PROVE  Following'
<1>1. UNCHANGED <<merchants, users, members, sessions, loggedIn>> /\ broken \subseteq broken'
  BY DEF Restart, team, login
<1>2. ASSUME NEW a \in Agents, pc[a] \in {"user", "member", "login"}
      PROVE  /\ <<pc[a], Who(a)>> \in broken'
             /\ JobSound(pc[a], job[a], merchants, users, invited)
  <2>1. JobSound(pc[a], job[a], merchants, users, invited)
    BY <1>2, JobAt DEF AccountsSound
  <2>2. Who(a) \in Account
    BY <1>2, <2>1 DEF JobSound, Who, Account
  <2>3. <<pc[a], Who(a)>> \in Lost(a)
    BY <1>2, <2>2 DEF Lost, Owed
  <2> QED
    BY <2>1, <2>3 DEF Restart
<1>3. FoundersFollow'
  <2>1. ASSUME NEW m \in Merchants, NEW a \in Agents, pc[a] = "user", ~job[a].asked,
               job[a].merchant = m
        PROVE  <<"user", <<m, merchants[m]>>>> \in broken'
    BY <1>2, <2>1 DEF JobSound, Who
  <2> QED
    BY <1>1, <2>1 DEF Following, FoundersFollow
<1>4. MembersFollow'
  BY <1>1, <1>2 DEF Following, MembersFollow
<1>5. SessionsFollow'
  BY <1>1, <1>2 DEF Following, SessionsFollow
<1> QED
  BY <1>3, <1>4, <1>5 DEF Following

LEMMA StillFollowing ==
  ASSUME AccountsSound, Following, [AccountsNext]_cvars
  PROVE  Following'
<1>1. ASSUME NEW a \in Agents, Enter(a) \/ Work(a)
      PROVE  Following'
  <2>1. Goes(a) /\ AccountsNext
    BY <1>1 DEF Goes, AccountsNext
  <2>2. Grows
    BY <2>1, StepGrows
  <2> QED
    BY <2>1, <2>2, FoundersStillFollow, MembersStillFollow, SessionsStillFollow DEF Following
<1>2. ASSUME UNCHANGED <<pc, job, merchants, users, members, sessions, loggedIn, broken>>
      PROVE  Following'
  BY <1>2 DEF Following, FoundersFollow, MembersFollow, SessionsFollow, Who
<1>3. CASE (\E p \in Phones : ExpireCode(p)) \/ (\E inv \in invitations : ExpireInvitation(inv))
             \/ UNCHANGED cvars
  <2>1. UNCHANGED <<pc, job, merchants, users, members, sessions, loggedIn, broken>>
    BY <1>3 DEF ExpireCode, ExpireInvitation, cvars, handling, team, login, record
  <2> QED
    BY <1>2, <2>1
<1> QED
  BY <1>1, <1>3, RestartBreaks DEF AccountsNext

(* A portal at rest is whole but for what a request of the very account    *)
(* left undone: although a sign-up or login takes several statements,      *)
(* others run in between, any of them may fail and the process restart,    *)
(* every other merchant has a user, every other invited user is in the     *)
(* team, and whoever else was given a token has a session.                 *)
THEOREM RestsWhole == AccountsSpec => []WholeUnlessBroken
<1>1. ASSUME AccountsInit
      PROVE  Following
  <2>1. users = {<<Home, Founder>>} /\ loggedIn = {} /\ merchants[Home] = Founder
    BY <1>1, AccountConstants DEF AccountsInit
  <2>2. \A m \in Merchants : merchants[m] # None => m = Home
    BY <1>1 DEF AccountsInit
  <2> QED
    BY <2>1, <2>2 DEF Following, FoundersFollow, MembersFollow, SessionsFollow
<1>2. ASSUME Following
      PROVE  WholeUnlessBroken
  BY <1>2 DEF Following, FoundersFollow, MembersFollow, SessionsFollow, WholeUnlessBroken
<1> QED
  BY <1>1, <1>2, AlwaysSound, StillFollowing, PTL DEF AccountsSpec

=============================================================================
