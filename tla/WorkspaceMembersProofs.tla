------------------------ MODULE WorkspaceMembersProofs ------------------------
(***************************************************************************)
(* Theorems about WorkspaceMembers, for any people, any number of requests *)
(* served at once, of invitations and of requests.                         *)
(*                                                                         *)
(* The inductive invariant adds to the two properties what a request may   *)
(* rely on between its statements: which row it is about, and that a row   *)
(* an acceptance has selected is marked when it is revoked or deleted.     *)
(***************************************************************************)
EXTENDS WorkspaceMembers, TLAPS

HasRow == {"clear", "mail", "undo", "select", "join"}
RowsNamed == \A q \in Desks : desk[q].pc \in HasRow => desk[q].inv \in Invites

\* A row that an acceptance may turn into a membership.
Admits(i) ==
    /\ inv[i].st # "unused"
    /\ inv[i].revoked => inv[i].raced
    /\ inv[i].st = "deleted" => inv[i].raced

JoinsAdmitted == \A q \in Desks : desk[q].pc = "join" => Admits(desk[q].inv)
PendingNotRevoked == \A i \in Invites : inv[i].st = "pending" => ~inv[i].revoked

\* A connection that passed the access check counts like an open one.
RemovedIsCutOff ==
    \A p \in People : role[p] = "none" /\ link[p] # "none" => kept[p] # "no" \/ Leaving(p)

RequestsOK == RowsNamed /\ JoinsAdmitted
MembersIInv ==
    /\ MembersTypeOK
    /\ RequestsOK
    /\ PendingNotRevoked
    /\ MembersWereInvited
    /\ RemovedIsCutOff

LEMMA QuietType == Quiet \in Request
  BY MembersAssumption DEF MembersAssumption, Quiet, Request, InviteRoles

LEMMA MembersInitially == MembersInit => MembersIInv
  <1> SUFFICES ASSUME MembersInit PROVE MembersIInv
    OBVIOUS
  <1>1. Unused \in Invite
    BY MembersAssumption DEF MembersAssumption, Unused, Invite, InviteRoles
  <1>2. MembersTypeOK
    BY <1>1, QuietType, MembersAssumption
       DEF MembersInit, MembersTypeOK, MembersAssumption, InviteRoles
  <1>3. \A q \in Desks : desk[q].pc = "idle"
    BY DEF MembersInit, Quiet
  <1>4. RequestsOK
    BY <1>3 DEF RequestsOK, RowsNamed, JoinsAdmitted, HasRow
  <1>5. PendingNotRevoked
    BY DEF MembersInit, PendingNotRevoked, Unused
  <1>6. MembersWereInvited /\ RemovedIsCutOff
    BY DEF MembersInit, MembersWereInvited, RemovedIsCutOff
  <1> QED
    BY <1>2, <1>4, <1>5, <1>6 DEF MembersIInv

-----------------------------------------------------------------------------
(***************************************************************************)
(* A step that changes a request only: it does not select, and it does not *)
(* end a removal.                                                          *)
(***************************************************************************)
LEMMA RequestStep ==
  ASSUME MembersIInv, NEW q \in Desks, NEW r \in Request,
         desk' = [desk EXCEPT ![q] = r],
         UNCHANGED <<role, inv, link, kept>>, work' \in 0..MaxWork,
         r.pc # "join", r.pc \in HasRow => r.inv \in Invites, desk[q].pc # "close"
  PROVE  MembersIInv'
  <1>1. MembersTypeOK'
    BY DEF MembersIInv, MembersTypeOK
  <1>2. \A d \in Desks : desk'[d] = IF d = q THEN r ELSE desk[d]
    BY DEF MembersIInv, MembersTypeOK
  <1>3. RequestsOK'
    BY <1>2 DEF MembersIInv, RequestsOK, RowsNamed, JoinsAdmitted, Admits
  <1>4. PendingNotRevoked' /\ MembersWereInvited'
    BY DEF MembersIInv, PendingNotRevoked, MembersWereInvited
  <1>5. \A p \in People : Leaving(p) => Leaving(p)'
    BY <1>2 DEF Leaving
  <1>6. RemovedIsCutOff'
    BY <1>5 DEF MembersIInv, RemovedIsCutOff
  <1> QED
    BY <1>1, <1>3, <1>4, <1>6 DEF MembersIInv

LEMMA BeginStep ==
  ASSUME MembersIInv, NEW q \in Desks, NEW r \in Request, Begin(q, r),
         UNCHANGED <<role, inv, link, kept>>,
         r.pc # "join", r.pc \in HasRow => r.inv \in Invites
  PROVE  MembersIInv'
  <1>1. work' \in 0..MaxWork /\ desk[q].pc # "close"
    BY MembersAssumption DEF MembersAssumption, Begin, MembersIInv, MembersTypeOK
  <1> QED
    BY <1>1, RequestStep DEF Begin

LEMMA FinishStep ==
  ASSUME MembersIInv, NEW q \in Desks, Finish(q),
         UNCHANGED <<role, inv, link, kept, work>>, desk[q].pc # "close"
  PROVE  MembersIInv'
  <1>1. work' \in 0..MaxWork
    BY DEF MembersIInv, MembersTypeOK
  <1>2. Quiet.pc = "idle"
    BY DEF Quiet
  <1> QED
    BY <1>1, <1>2, QuietType, RequestStep DEF Finish, HasRow

LEMMA GotoStep ==
  ASSUME MembersIInv, NEW q \in Desks,
         NEW pc \in {"insert", "clear", "mail", "undo"}, Goto(q, pc),
         UNCHANGED <<role, inv, link, kept, work>>, desk[q].pc # "close",
         pc \in HasRow => desk[q].inv \in Invites
  PROVE  MembersIInv'
  <1> DEFINE r == [desk[q] EXCEPT !.pc = pc]
  <1>1. work' \in 0..MaxWork /\ desk[q] \in Request
    BY DEF MembersIInv, MembersTypeOK
  <1>2. r \in Request /\ r.pc = pc /\ r.inv = desk[q].inv
    BY <1>1 DEF Request
  <1>3. desk' = [desk EXCEPT ![q] = r]
    BY <1>1 DEF Goto, MembersIInv, MembersTypeOK
  <1> HIDE DEF r
  <1> QED
    BY <1>1, <1>2, <1>3, RequestStep

-----------------------------------------------------------------------------
(* Invitations. *)

LEMMA AskToInviteStep ==
  ASSUME MembersIInv, NEW q \in Desks, NEW by \in People, NEW p \in People,
         NEW r \in InviteRoles, AskToInvite(q, by, p, r)
  PROVE  MembersIInv'
  <1> DEFINE new == [Quiet EXCEPT !.pc = "list", !.by = by, !.for = p, !.role = r]
  <1>1. new \in Request /\ new.pc = "list"
    BY QuietType DEF Request
  <1>2. Begin(q, new) /\ UNCHANGED <<role, inv, link, kept>>
    BY DEF AskToInvite
  <1> HIDE DEF new
  <1> QED
    BY <1>1, <1>2, BeginStep DEF HasRow

LEMMA ListInvitationsStep ==
  ASSUME MembersIInv, NEW q \in Desks, ListInvitations(q)
  PROVE  MembersIInv'
  <1>1. desk[q].pc = "list" /\ UNCHANGED <<role, inv, link, kept, work>>
    BY DEF ListInvitations
  <1>2. CASE Finish(q)
    BY <1>1, <1>2, FinishStep
  <1>3. CASE Goto(q, "insert")
    BY <1>1, <1>3, GotoStep DEF HasRow
  <1>4. ASSUME NEW i \in Invites, desk' = [desk EXCEPT ![q].pc = "clear", ![q].inv = i]
        PROVE  MembersIInv'
    <2> DEFINE r == [desk[q] EXCEPT !.pc = "clear", !.inv = i]
    <2>1. work' \in 0..MaxWork /\ desk[q] \in Request
      BY <1>1 DEF MembersIInv, MembersTypeOK
    <2>2. r \in Request /\ r.pc = "clear" /\ r.inv = i
      BY <2>1 DEF Request
    <2>3. desk' = [desk EXCEPT ![q] = r]
      BY <1>4, <2>1 DEF MembersIInv, MembersTypeOK
    <2> HIDE DEF r
    <2> QED
      BY <1>1, <2>1, <2>2, <2>3, RequestStep
  <1>5. \A p : Pending(p) \subseteq Invites
    BY DEF Pending
  <1> QED
    BY <1>2, <1>3, <1>4, <1>5 DEF ListInvitations

\* Deleting a row marks it if it was accepted or is selected.
LEMMA DeletedRow ==
  ASSUME MembersIInv, NEW i \in Invites, inv' = Deleted(i), role' = role
  PROVE  /\ inv' \in [Invites -> Invite]
         /\ \A j \in Invites : Selected(j) => Admits(j)'
         /\ PendingNotRevoked' /\ MembersWereInvited'
  <1>1. /\ inv \in [Invites -> Invite]
        /\ \A j \in Invites : Selected(j) => Admits(j)
        /\ PendingNotRevoked /\ MembersWereInvited
    BY DEF MembersIInv, MembersTypeOK, RequestsOK, JoinsAdmitted, Selected
  <1>2. Selected(i) \in BOOLEAN
    BY DEF Selected
  <1> DEFINE gone == [inv[i] EXCEPT !.st = "deleted",
                                    !.raced = @ \/ inv[i].st = "accepted" \/ Selected(i)]
  <1>3. /\ gone \in Invite /\ gone.st = "deleted" /\ gone.to = inv[i].to
        /\ gone.revoked = inv[i].revoked
        /\ gone.raced = (inv[i].raced \/ inv[i].st = "accepted" \/ Selected(i))
    BY <1>1, <1>2 DEF Invite
  <1>4. inv' = [inv EXCEPT ![i] = gone]
    BY <1>1 DEF Deleted
  <1> HIDE DEF gone
  <1>5. inv' \in [Invites -> Invite]
    BY <1>1, <1>3, <1>4
  <1>6. \A j \in Invites : inv'[j] = IF j = i THEN gone ELSE inv[j]
    BY <1>1, <1>4
  <1>7. ASSUME NEW j \in Invites, Selected(j) PROVE Admits(j)'
    BY <1>1, <1>3, <1>6, <1>7 DEF Admits
  <1>8. PendingNotRevoked'
    BY <1>1, <1>3, <1>6 DEF PendingNotRevoked
  <1>9. MembersWereInvited'
    <2> SUFFICES ASSUME NEW p \in People, role[p] # "none", p # Owner
                 PROVE  \E j \in Invites :
                          /\ inv'[j].to = p
                          /\ \/ inv'[j].st = "accepted" /\ (inv'[j].revoked => inv'[j].raced)
                             \/ inv'[j].st = "deleted" /\ inv'[j].raced
      BY DEF MembersWereInvited
    <2>1. PICK j \in Invites :
            /\ inv[j].to = p
            /\ \/ inv[j].st = "accepted" /\ (inv[j].revoked => inv[j].raced)
               \/ inv[j].st = "deleted" /\ inv[j].raced
      BY <1>1 DEF MembersWereInvited
    <2>2. CASE j = i
      BY <1>3, <1>6, <2>1, <2>2
    <2>3. CASE j # i
      BY <1>6, <2>1, <2>3
    <2> QED
      BY <2>2, <2>3
  <1> QED
    BY <1>5, <1>7, <1>8, <1>9

(***************************************************************************)
(* A step of a request that changes rows: the request goes on without a    *)
(* selection, and was not closing connections.                             *)
(***************************************************************************)
LEMMA RowStep ==
  ASSUME MembersIInv, NEW q \in Desks, NEW r \in Request,
         desk' = [desk EXCEPT ![q] = r],
         inv' \in [Invites -> Invite],
         \A j \in Invites : Selected(j) => Admits(j)',
         PendingNotRevoked', MembersWereInvited',
         UNCHANGED <<role, link, kept, work>>,
         r.pc # "join", r.pc \in HasRow => r.inv \in Invites, desk[q].pc # "close"
  PROVE  MembersIInv'
  <1>1. MembersTypeOK'
    BY DEF MembersIInv, MembersTypeOK
  <1>2. \A d \in Desks : desk'[d] = IF d = q THEN r ELSE desk[d]
    BY DEF MembersIInv, MembersTypeOK
  <1>3. RowsNamed'
    BY <1>2 DEF MembersIInv, RequestsOK, RowsNamed
  <1>4. JoinsAdmitted'
    <2>1. ASSUME NEW d \in Desks, desk'[d].pc = "join" PROVE Admits(desk[d].inv)'
      <3>1. d # q /\ desk'[d] = desk[d]
        BY <1>2, <2>1
      <3>2. desk[d].inv \in Invites /\ Selected(desk[d].inv)
        BY <2>1, <3>1 DEF MembersIInv, RequestsOK, RowsNamed, HasRow, Selected
      <3>3. PICK j \in Invites : j = desk[d].inv
        BY <3>2
      <3>4. Admits(j)'
        BY <3>2, <3>3
      <3> QED
        BY <3>1, <3>3, <3>4 DEF Admits
    <2> QED
      BY <2>1 DEF JoinsAdmitted
  <1>5. \A p \in People : Leaving(p) => Leaving(p)'
    BY <1>2 DEF Leaving
  <1>6. RemovedIsCutOff'
    BY <1>5 DEF MembersIInv, RemovedIsCutOff
  <1> QED
    BY <1>1, <1>3, <1>4, <1>6 DEF MembersIInv, RequestsOK

LEMMA ClearExpiredStep ==
  ASSUME MembersIInv, NEW q \in Desks, ClearExpired(q)
  PROVE  MembersIInv'
  <1> DEFINE r == [desk[q] EXCEPT !.pc = "insert", !.inv = 0]
  <1>1. desk[q].inv \in Invites /\ desk[q] \in Request /\ desk[q].pc = "clear"
    BY DEF ClearExpired, MembersIInv, MembersTypeOK, RequestsOK, RowsNamed, HasRow
  <1>2. r \in Request /\ r.pc = "insert"
    BY <1>1 DEF Request
  <1>3. desk' = [desk EXCEPT ![q] = r]
    BY <1>1 DEF ClearExpired, MembersIInv, MembersTypeOK
  <1>4. inv' = Deleted(desk[q].inv) /\ UNCHANGED <<role, link, kept, work>>
    BY DEF ClearExpired
  <1> HIDE DEF r
  <1>5. /\ inv' \in [Invites -> Invite]
        /\ \A j \in Invites : Selected(j) => Admits(j)'
        /\ PendingNotRevoked' /\ MembersWereInvited'
    BY <1>1, <1>4, DeletedRow
  <1> QED
    BY <1>1, <1>2, <1>3, <1>4, <1>5, RowStep DEF HasRow

LEMMA InsertInvitationStep ==
  ASSUME MembersIInv, NEW q \in Desks, InsertInvitation(q)
  PROVE  MembersIInv'
  <1>1. desk[q].pc = "insert" /\ UNCHANGED <<role, link, kept, work>>
    BY DEF InsertInvitation
  <1>2. CASE Finish(q) /\ UNCHANGED inv
    BY <1>1, <1>2, FinishStep
  <1>3. ASSUME NEW i \in Invites, inv[i].st = "unused",
               inv' = [inv EXCEPT ![i] = [Unused EXCEPT !.st = "pending", !.to = desk[q].for,
                                                        !.role = desk[q].role]],
               desk' = [desk EXCEPT ![q].pc = "mail", ![q].inv = i]
        PROVE  MembersIInv'
    <2> DEFINE r == [desk[q] EXCEPT !.pc = "mail", !.inv = i]
               row == [Unused EXCEPT !.st = "pending", !.to = desk[q].for, !.role = desk[q].role]
    <2>1. desk[q] \in Request /\ inv \in [Invites -> Invite]
      BY DEF MembersIInv, MembersTypeOK
    <2>2. r \in Request /\ r.pc = "mail" /\ r.inv = i
      BY <2>1 DEF Request
    <2>3. desk' = [desk EXCEPT ![q] = r]
      BY <1>3, <2>1 DEF MembersIInv, MembersTypeOK
    <2>4. row \in Invite /\ row.st = "pending" /\ ~row.revoked
      BY <2>1 DEF Unused, Invite, Request
    <2>5. inv' = [inv EXCEPT ![i] = row]
      BY <1>3
    <2> HIDE DEF r, row
    <2>6. inv' \in [Invites -> Invite] /\ \A j \in Invites : j # i => inv'[j] = inv[j]
      BY <2>1, <2>4, <2>5
    <2>7. inv'[i] = row
      BY <2>1, <2>5
    <2>8. ASSUME NEW j \in Invites, Selected(j) PROVE Admits(j)'
      <3>1. Admits(j)
        BY <2>8 DEF MembersIInv, RequestsOK, JoinsAdmitted, Selected
      <3> QED
        BY <1>3, <2>6, <3>1 DEF Admits
    <2>9. PendingNotRevoked'
      BY <2>4, <2>6, <2>7 DEF MembersIInv, PendingNotRevoked
    <2>10. MembersWereInvited'
      BY <1>1, <1>3, <2>6 DEF MembersIInv, MembersWereInvited
    <2> QED
      BY <1>1, <2>2, <2>3, <2>6, <2>8, <2>9, <2>10, RowStep
  <1> QED
    BY <1>2, <1>3 DEF InsertInvitation

LEMMA SendInvitationStep ==
  ASSUME MembersIInv, NEW q \in Desks, SendInvitation(q)
  PROVE  MembersIInv'
  <1>1. desk[q].inv \in Invites /\ desk[q].pc = "mail"
    BY DEF SendInvitation, MembersIInv, RequestsOK, RowsNamed, HasRow
  <1> QED
    BY <1>1, FinishStep, GotoStep DEF SendInvitation

LEMMA UndoInvitationStep ==
  ASSUME MembersIInv, NEW q \in Desks, UndoInvitation(q)
  PROVE  MembersIInv'
  <1>1. desk[q].inv \in Invites /\ desk[q].pc = "undo" /\ Finish(q)
    BY DEF UndoInvitation, MembersIInv, RequestsOK, RowsNamed, HasRow
  <1>2. UNCHANGED <<role, link, kept, work>>
    BY DEF UndoInvitation
  <1>3. CASE UNCHANGED inv
    BY <1>1, <1>2, <1>3, FinishStep
  <1>4. CASE inv' = Deleted(desk[q].inv)
    <2>1. /\ inv' \in [Invites -> Invite]
          /\ \A j \in Invites : Selected(j) => Admits(j)'
          /\ PendingNotRevoked' /\ MembersWereInvited'
      BY <1>1, <1>2, <1>4, DeletedRow
    <2>2. Quiet.pc = "idle" /\ desk' = [desk EXCEPT ![q] = Quiet]
      BY <1>1 DEF Quiet, Finish
    <2> QED
      BY <1>1, <1>2, <2>1, <2>2, QuietType, RowStep DEF HasRow
  <1> QED
    BY <1>3, <1>4 DEF UndoInvitation

(* A row that no longer waits is marked if an acceptance has selected it. *)

LEMMA ExpireStep ==
  ASSUME MembersIInv, NEW i \in Invites, Expire(i)
  PROVE  MembersIInv'
  <1> DEFINE row == [inv[i] EXCEPT !.expired = TRUE]
  <1>1. inv \in [Invites -> Invite] /\ UNCHANGED <<role, desk, link, kept, work>>
    BY DEF Expire, MembersIInv, MembersTypeOK
  <1>2. /\ row \in Invite /\ row.st = inv[i].st /\ row.to = inv[i].to
        /\ row.revoked = inv[i].revoked /\ row.raced = inv[i].raced
    BY <1>1 DEF Invite
  <1>3. inv' = [inv EXCEPT ![i] = row]
    BY <1>1 DEF Expire
  <1> HIDE DEF row
  <1>4. inv' \in [Invites -> Invite] /\ \A j \in Invites : inv'[j] = IF j = i THEN row ELSE inv[j]
    BY <1>1, <1>2, <1>3
  <1>5. MembersTypeOK'
    BY <1>1, <1>4 DEF MembersIInv, MembersTypeOK
  <1>6. RequestsOK'
    BY <1>1, <1>2, <1>4 DEF MembersIInv, RequestsOK, RowsNamed, JoinsAdmitted, Admits, HasRow
  <1>7. PendingNotRevoked'
    BY <1>2, <1>4 DEF MembersIInv, PendingNotRevoked
  <1>8. MembersWereInvited'
    BY <1>1, <1>2, <1>4 DEF MembersIInv, MembersWereInvited
  <1>9. RemovedIsCutOff'
    BY <1>1 DEF MembersIInv, RemovedIsCutOff, Leaving
  <1> QED
    BY <1>5, <1>6, <1>7, <1>8, <1>9 DEF MembersIInv

LEMMA RevokeStep ==
  ASSUME MembersIInv, NEW q \in Desks, NEW by \in People, NEW i \in Invites, Revoke(q, by, i)
  PROVE  MembersIInv'
  <1> DEFINE row == [inv[i] EXCEPT !.st = "revoked", !.revoked = TRUE, !.raced = @ \/ Selected(i)]
  <1>1. inv \in [Invites -> Invite] /\ UNCHANGED <<role, desk, link, kept>> /\ inv[i].st = "pending"
    BY DEF Revoke, MembersIInv, MembersTypeOK
  <1>2. Selected(i) \in BOOLEAN
    BY DEF Selected
  <1>3. row \in Invite /\ row.st = "revoked" /\ (Selected(i) => row.raced)
    BY <1>1, <1>2 DEF Invite
  <1>4. inv' = [inv EXCEPT ![i] = row]
    BY <1>1 DEF Revoke
  <1> HIDE DEF row
  <1>5. inv' \in [Invites -> Invite] /\ \A j \in Invites : inv'[j] = IF j = i THEN row ELSE inv[j]
    BY <1>1, <1>3, <1>4
  <1>6. work' \in 0..MaxWork
    BY MembersAssumption DEF MembersAssumption, Revoke, MembersIInv, MembersTypeOK
  <1>7. MembersTypeOK'
    BY <1>1, <1>5, <1>6 DEF MembersIInv, MembersTypeOK
  <1>8. RowsNamed'
    BY <1>1 DEF MembersIInv, RequestsOK, RowsNamed
  <1>9. JoinsAdmitted'
    <2> SUFFICES ASSUME NEW d \in Desks, desk[d].pc = "join" PROVE Admits(desk[d].inv)'
      BY <1>1 DEF JoinsAdmitted
    <2>1. desk[d].inv \in Invites /\ Selected(desk[d].inv) /\ Admits(desk[d].inv)
      BY DEF MembersIInv, RequestsOK, RowsNamed, JoinsAdmitted, HasRow, Selected
    <2> QED
      BY <1>1, <1>3, <1>5, <2>1 DEF Admits
  <1>10. PendingNotRevoked'
    BY <1>3, <1>5 DEF MembersIInv, PendingNotRevoked
  <1>11. MembersWereInvited'
    BY <1>1, <1>5 DEF MembersIInv, MembersWereInvited
  <1>12. RemovedIsCutOff'
    BY <1>1 DEF MembersIInv, RemovedIsCutOff, Leaving
  <1> QED
    BY <1>7, <1>8, <1>9, <1>10, <1>11, <1>12 DEF MembersIInv, RequestsOK

-----------------------------------------------------------------------------
(* Acceptances. *)

LEMMA AskToJoinStep ==
  ASSUME MembersIInv, NEW q \in Desks, NEW i \in Invites, AskToJoin(q, i)
  PROVE  MembersIInv'
  <1> DEFINE new == [Quiet EXCEPT !.pc = "select", !.by = inv[i].to, !.inv = i]
  <1>1. inv[i].to \in People
    BY DEF MembersIInv, MembersTypeOK, Invite
  <1>2. new \in Request /\ new.pc = "select" /\ new.inv = i
    BY <1>1, QuietType DEF Request, Quiet
  <1>3. Begin(q, new) /\ UNCHANGED <<role, inv, link, kept>>
    BY DEF AskToJoin
  <1> HIDE DEF new
  <1> QED
    BY <1>2, <1>3, BeginStep

\* What is selected is pending, hence not revoked.
LEMMA SelectInvitationStep ==
  ASSUME MembersIInv, NEW q \in Desks, SelectInvitation(q)
  PROVE  MembersIInv'
  <1>1. /\ desk[q].pc = "select" /\ desk[q] \in Request /\ desk[q].inv \in Invites
        /\ UNCHANGED <<role, inv, link, kept, work>>
    BY DEF SelectInvitation, MembersIInv, MembersTypeOK, RequestsOK, RowsNamed, HasRow
  <1>2. CASE ~Selects(desk[q].inv)
    BY <1>1, <1>2, FinishStep DEF SelectInvitation
  <1>3. CASE Selects(desk[q].inv)
    <2> DEFINE r == [desk[q] EXCEPT !.pc = "join"]
    <2>1. r \in Request /\ r.pc = "join" /\ r.inv = desk[q].inv
      BY <1>1 DEF Request
    <2>2. desk' = [desk EXCEPT ![q] = r]
      BY <1>1, <1>3 DEF SelectInvitation, Goto, MembersIInv, MembersTypeOK
    <2> HIDE DEF r
    <2>3. MembersTypeOK' /\ \A d \in Desks : desk'[d] = IF d = q THEN r ELSE desk[d]
      BY <1>1, <2>1, <2>2 DEF MembersIInv, MembersTypeOK
    <2>4. Admits(desk[q].inv)
      BY <1>1, <1>3 DEF MembersIInv, PendingNotRevoked, Selects, Admits
    <2>5. RequestsOK'
      BY <1>1, <2>1, <2>3, <2>4
         DEF MembersIInv, RequestsOK, RowsNamed, JoinsAdmitted, Admits, HasRow
    <2>6. \A p \in People : Leaving(p) => Leaving(p)'
      BY <1>1, <2>3 DEF Leaving
    <2>7. PendingNotRevoked' /\ MembersWereInvited' /\ RemovedIsCutOff'
      BY <1>1, <2>6 DEF MembersIInv, PendingNotRevoked, MembersWereInvited, RemovedIsCutOff
    <2> QED
      BY <2>3, <2>5, <2>7 DEF MembersIInv
  <1> QED
    BY <1>2, <1>3

LEMMA CommitJoinStep ==
  ASSUME MembersIInv, NEW q \in Desks, CommitJoin(q)
  PROVE  MembersIInv'
  <1>1. desk[q].pc = "join" /\ Finish(q) /\ UNCHANGED <<link, kept, work>>
    BY DEF CommitJoin
  <1>2. CASE UNCHANGED <<inv, role>>
    BY <1>1, <1>2, FinishStep
  <1>3. ASSUME NEW i \in Invites, i = desk[q].inv, inv' = Accepted(i),
               role' = IF role[inv[i].to] = "none" THEN [role EXCEPT ![inv[i].to] = inv[i].role]
                       ELSE role
        PROVE  MembersIInv'
    <2> DEFINE row == IF inv[i].st = "deleted" THEN inv[i] ELSE [inv[i] EXCEPT !.st = "accepted"]
    <2>1. inv \in [Invites -> Invite] /\ inv[i] \in Invite /\ Admits(i)
      BY <1>1, <1>3 DEF MembersIInv, MembersTypeOK, RequestsOK, JoinsAdmitted
    <2>2. /\ row \in Invite /\ row.to = inv[i].to /\ row.st \in {"accepted", "deleted"}
          /\ row.revoked = inv[i].revoked /\ row.raced = inv[i].raced
          /\ row.st = "deleted" <=> inv[i].st = "deleted"
      BY <2>1 DEF Invite
    <2>3. inv' = [inv EXCEPT ![i] = row]
      BY <1>3, <2>1 DEF Accepted
    <2> HIDE DEF row
    <2>4. /\ inv' \in [Invites -> Invite]
          /\ \A j \in Invites : inv'[j] = IF j = i THEN row ELSE inv[j]
      BY <2>1, <2>2, <2>3
    <2>5. role' \in [People -> InviteRoles \cup {"none", "owner"}]
      BY <1>3, <2>1 DEF MembersIInv, MembersTypeOK, Invite
    <2>6. \A p \in People : p # inv[i].to \/ role[p] # "none" => role'[p] = role[p]
      BY <1>3, <2>1 DEF MembersIInv, MembersTypeOK
    <2>7. /\ desk' \in [Desks -> Request]
          /\ \A d \in Desks : desk'[d] = IF d = q THEN Quiet ELSE desk[d]
      BY <1>1, QuietType DEF Finish, MembersIInv, MembersTypeOK
    <2>8. MembersTypeOK'
      BY <1>1, <2>4, <2>5, <2>7 DEF MembersIInv, MembersTypeOK
    <2>9. Quiet.pc = "idle"
      BY DEF Quiet
    <2>10. RequestsOK'
      BY <2>1, <2>2, <2>4, <2>7, <2>9
         DEF MembersIInv, RequestsOK, RowsNamed, JoinsAdmitted, Admits, HasRow
    <2>11. PendingNotRevoked'
      BY <2>2, <2>4 DEF MembersIInv, PendingNotRevoked
    <2>12. MembersWereInvited'
      <3> SUFFICES ASSUME NEW p \in People, role'[p] # "none", p # Owner
                   PROVE  \E j \in Invites :
                            /\ inv'[j].to = p
                            /\ \/ inv'[j].st = "accepted" /\ (inv'[j].revoked => inv'[j].raced)
                               \/ inv'[j].st = "deleted" /\ inv'[j].raced
        BY DEF MembersWereInvited
      <3>1. CASE p = inv[i].to
        BY <2>1, <2>2, <2>4, <3>1 DEF Admits
      <3>2. CASE p # inv[i].to
        <4>1. role[p] # "none"
          BY <2>6, <3>2
        <4>2. PICK j \in Invites :
                /\ inv[j].to = p
                /\ \/ inv[j].st = "accepted" /\ (inv[j].revoked => inv[j].raced)
                   \/ inv[j].st = "deleted" /\ inv[j].raced
          BY <4>1 DEF MembersIInv, MembersWereInvited
        <4> QED
          BY <2>4, <3>2, <4>2
      <3> QED
        BY <3>1, <3>2
    <2>13. \A p \in People : Leaving(p) => Leaving(p)'
      BY <1>1, <2>7 DEF Leaving
    <2>14. RemovedIsCutOff'
      <3>1. \A p \in People : role'[p] = "none" => role[p] = "none"
        BY <2>6
      <3> QED
        BY <1>1, <2>13, <3>1 DEF MembersIInv, RemovedIsCutOff
    <2> QED
      BY <2>8, <2>10, <2>11, <2>12, <2>14 DEF MembersIInv
  <1>4. desk[q].inv \in Invites
    BY <1>1 DEF MembersIInv, RequestsOK, RowsNamed, HasRow
  <1> QED
    BY <1>2, <1>3, <1>4 DEF CommitJoin

-----------------------------------------------------------------------------
(* Members and their connections. *)

LEMMA AskToRemoveStep ==
  ASSUME MembersIInv, NEW q \in Desks, NEW by \in People, NEW p \in People, AskToRemove(q, by, p)
  PROVE  MembersIInv'
  <1> DEFINE new == [Quiet EXCEPT !.pc = "remove", !.by = by, !.for = p]
  <1>1. new \in Request /\ new.pc = "remove"
    BY QuietType DEF Request
  <1>2. Begin(q, new) /\ UNCHANGED <<role, inv, link, kept>>
    BY DEF AskToRemove
  <1> HIDE DEF new
  <1> QED
    BY <1>1, <1>2, BeginStep DEF HasRow

LEMMA AskToChangeRoleStep ==
  ASSUME MembersIInv, NEW q \in Desks, NEW p \in People, NEW r \in InviteRoles,
         AskToChangeRole(q, p, r)
  PROVE  MembersIInv'
  <1> DEFINE new == [Quiet EXCEPT !.pc = "set", !.for = p, !.role = r]
  <1>1. new \in Request /\ new.pc = "set"
    BY QuietType DEF Request
  <1>2. Begin(q, new) /\ UNCHANGED <<role, inv, link, kept>>
    BY DEF AskToChangeRole
  <1> HIDE DEF new
  <1> QED
    BY <1>1, <1>2, BeginStep DEF HasRow

\* The row is gone and the connections are about to be closed, or the answer was
\* lost and they are marked as kept; or the statement failed.
LEMMA DeleteMemberStep ==
  ASSUME MembersIInv, NEW q \in Desks, DeleteMember(q)
  PROVE  MembersIInv'
  <1>1. /\ desk[q] \in Request /\ desk[q].pc = "remove" /\ UNCHANGED <<inv, link, work>>
        /\ desk[q].for \in People
    BY DEF DeleteMember, MembersIInv, MembersTypeOK, Request
  <1>2. CASE Finish(q) /\ UNCHANGED <<role, kept>>
    BY <1>1, <1>2, FinishStep
  <1>3. ASSUME NEW r \in Request, r.pc \in {"close", "idle"},
               desk' = [desk EXCEPT ![q] = r],
               role' = [role EXCEPT ![desk[q].for] = "none"],
               \/ r.pc = "close" /\ r.for = desk[q].for /\ UNCHANGED kept
               \/ kept' = [kept EXCEPT ![desk[q].for] = "unanswered"]
        PROVE  MembersIInv'
    <2>1. /\ \A d \in Desks : desk'[d] = IF d = q THEN r ELSE desk[d]
          /\ desk' \in [Desks -> Request]
      BY <1>1, <1>3 DEF MembersIInv, MembersTypeOK
    <2>2. /\ \A p \in People : role'[p] = IF p = desk[q].for THEN "none" ELSE role[p]
          /\ role' \in [People -> InviteRoles \cup {"none", "owner"}]
      BY <1>1, <1>3 DEF MembersIInv, MembersTypeOK
    <2>3. /\ kept' \in [People -> {"no", "late", "unanswered"}]
          /\ \A p \in People : kept[p] # "no" => kept'[p] # "no"
      BY <1>1, <1>3 DEF MembersIInv, MembersTypeOK
    <2>4. MembersTypeOK'
      BY <1>1, <2>1, <2>2, <2>3 DEF MembersIInv, MembersTypeOK
    <2>5. RequestsOK'
      BY <1>1, <1>3, <2>1 DEF MembersIInv, RequestsOK, RowsNamed, JoinsAdmitted, Admits, HasRow
    <2>6. PendingNotRevoked' /\ MembersWereInvited'
      BY <1>1, <2>2 DEF MembersIInv, PendingNotRevoked, MembersWereInvited
    <2>7. ASSUME NEW p \in People, p = desk[q].for PROVE kept'[p] # "no" \/ Leaving(p)'
      <3>1. CASE r.pc = "close" /\ r.for = desk[q].for
        BY <2>1, <2>7, <3>1 DEF Leaving
      <3>2. CASE kept' = [kept EXCEPT ![desk[q].for] = "unanswered"]
        BY <1>1, <2>7, <3>2 DEF MembersIInv, MembersTypeOK
      <3> QED
        BY <1>3, <3>1, <3>2
    <2>8. \A p \in People : Leaving(p) => Leaving(p)'
      BY <1>1, <2>1 DEF Leaving
    <2>9. RemovedIsCutOff'
      <3> SUFFICES ASSUME NEW p \in People, role'[p] = "none", link'[p] # "none"
                   PROVE  kept'[p] # "no" \/ Leaving(p)'
        BY DEF RemovedIsCutOff
      <3>1. CASE p = desk[q].for
        BY <2>7, <3>1
      <3>2. CASE p # desk[q].for
        <4>1. role[p] = "none" /\ link[p] # "none"
          BY <1>1, <2>2, <3>2
        <4>2. kept[p] # "no" \/ Leaving(p)
          BY <4>1 DEF MembersIInv, RemovedIsCutOff
        <4> QED
          BY <2>3, <2>8, <4>2
      <3> QED
        BY <3>1, <3>2
    <2> QED
      BY <2>4, <2>5, <2>6, <2>9 DEF MembersIInv
  <1>4. CASE /\ role' = [role EXCEPT ![desk[q].for] = "none"]
             /\ Goto(q, "close") /\ UNCHANGED kept
    <2> DEFINE r == [desk[q] EXCEPT !.pc = "close"]
    <2>1. r \in Request /\ r.pc = "close" /\ r.for = desk[q].for
      BY <1>1 DEF Request
    <2>2. desk' = [desk EXCEPT ![q] = r]
      BY <1>1, <1>4 DEF Goto, MembersIInv, MembersTypeOK
    <2> HIDE DEF r
    <2> QED
      BY <1>3, <1>4, <2>1, <2>2
  <1>5. CASE /\ role' = [role EXCEPT ![desk[q].for] = "none"]
             /\ Finish(q) /\ kept' = [kept EXCEPT ![desk[q].for] = "unanswered"]
    <2>1. Quiet.pc = "idle" /\ desk' = [desk EXCEPT ![q] = Quiet]
      BY <1>5 DEF Finish, Quiet
    <2> QED
      BY <1>3, <1>5, <2>1, QuietType
  <1> QED
    BY <1>2, <1>4, <1>5 DEF DeleteMember

LEMMA CloseMembersStep ==
  ASSUME MembersIInv, NEW q \in Desks, CloseMembers(q)
  PROVE  MembersIInv'
  <1>1. /\ desk[q].pc = "close" /\ desk[q].for \in People
        /\ Finish(q) /\ CloseConnections(desk[q].for)
        /\ UNCHANGED <<role, inv, work>>
    BY DEF CloseMembers, MembersIInv, MembersTypeOK, Request
  <1>2. /\ desk' \in [Desks -> Request]
        /\ \A d \in Desks : desk'[d] = IF d = q THEN Quiet ELSE desk[d]
    BY <1>1, QuietType DEF Finish, MembersIInv, MembersTypeOK
  <1>3. /\ link' \in [People -> {"none", "checked", "open"}]
        /\ kept' \in [People -> {"no", "late", "unanswered"}]
    BY <1>1 DEF CloseConnections, MembersIInv, MembersTypeOK
  <1>4. link'[desk[q].for] # "none" => kept'[desk[q].for] # "no"
    BY <1>1 DEF CloseConnections, MembersIInv, MembersTypeOK
  <1>5. \A p \in People : p # desk[q].for => link'[p] = link[p] /\ kept'[p] = kept[p]
    BY <1>1 DEF CloseConnections, MembersIInv, MembersTypeOK
  <1>6. MembersTypeOK'
    BY <1>1, <1>2, <1>3 DEF MembersIInv, MembersTypeOK
  <1>7. RequestsOK'
    BY <1>1, <1>2 DEF MembersIInv, RequestsOK, RowsNamed, JoinsAdmitted, Admits, HasRow, Quiet
  <1>8. PendingNotRevoked' /\ MembersWereInvited'
    BY <1>1 DEF MembersIInv, PendingNotRevoked, MembersWereInvited
  <1>9. \A p \in People : p # desk[q].for /\ Leaving(p) => Leaving(p)'
    BY <1>2 DEF Leaving
  <1>10. RemovedIsCutOff'
    BY <1>1, <1>4, <1>5, <1>9 DEF MembersIInv, RemovedIsCutOff
  <1> QED
    BY <1>6, <1>7, <1>8, <1>10 DEF MembersIInv

LEMMA ChangeRoleStep ==
  ASSUME MembersIInv, NEW q \in Desks, ChangeRole(q)
  PROVE  MembersIInv'
  <1>1. /\ desk[q].pc = "set" /\ desk[q].for \in People /\ desk[q].role \in InviteRoles
        /\ Finish(q) /\ UNCHANGED <<inv, link, kept, work>>
        /\ role' = IF RowThere(desk[q].for) THEN [role EXCEPT ![desk[q].for] = desk[q].role]
                   ELSE role
    BY DEF ChangeRole, MembersIInv, MembersTypeOK, Request
  <1>2. /\ desk' \in [Desks -> Request]
        /\ \A d \in Desks : desk'[d] = IF d = q THEN Quiet ELSE desk[d]
    BY <1>1, QuietType DEF Finish, MembersIInv, MembersTypeOK
  <1>3. /\ role' \in [People -> InviteRoles \cup {"none", "owner"}]
        /\ \A p \in People : role'[p] = "none" <=> role[p] = "none"
    BY <1>1 DEF RowThere, InviteRoles, MembersIInv, MembersTypeOK
  <1>4. MembersTypeOK'
    BY <1>1, <1>2, <1>3 DEF MembersIInv, MembersTypeOK
  <1>5. RequestsOK'
    BY <1>1, <1>2 DEF MembersIInv, RequestsOK, RowsNamed, JoinsAdmitted, Admits, HasRow, Quiet
  <1>6. PendingNotRevoked' /\ MembersWereInvited'
    BY <1>1, <1>3 DEF MembersIInv, PendingNotRevoked, MembersWereInvited
  <1>7. \A p \in People : Leaving(p) => Leaving(p)'
    BY <1>1, <1>2 DEF Leaving
  <1>8. RemovedIsCutOff'
    BY <1>1, <1>3, <1>7 DEF MembersIInv, RemovedIsCutOff
  <1> QED
    BY <1>4, <1>5, <1>6, <1>8 DEF MembersIInv

LEMMA ConnectionStep ==
  ASSUME MembersIInv, NEW p \in People, CheckAccess(p) \/ EnterHub(p) \/ LeaveHub(p)
  PROVE  MembersIInv'
  <1>1. UNCHANGED <<role, inv, desk, work>>
    BY DEF CheckAccess, EnterHub, LeaveHub
  <1>2. MembersTypeOK'
    BY <1>1 DEF CheckAccess, EnterHub, LeaveHub, MembersIInv, MembersTypeOK
  <1>3. RequestsOK' /\ PendingNotRevoked' /\ MembersWereInvited'
    BY <1>1 DEF MembersIInv, RequestsOK, RowsNamed, JoinsAdmitted, Admits, PendingNotRevoked,
                MembersWereInvited
  <1>4. ASSUME NEW o \in People, role[o] = "none", link'[o] # "none"
        PROVE  kept'[o] # "no" \/ Leaving(o)
    <2>1. link[o] # "none" /\ kept'[o] = kept[o]
      BY <1>4 DEF CheckAccess, EnterHub, LeaveHub, MembersIInv, MembersTypeOK
    <2> QED
      BY <1>4, <2>1 DEF MembersIInv, RemovedIsCutOff
  <1>5. RemovedIsCutOff'
    BY <1>1, <1>4 DEF RemovedIsCutOff, Leaving
  <1> QED
    BY <1>2, <1>3, <1>5 DEF MembersIInv

-----------------------------------------------------------------------------
LEMMA MembersStep == MembersIInv /\ [MembersNext]_memberVars => MembersIInv'
  <1> SUFFICES ASSUME MembersIInv, [MembersNext]_memberVars PROVE MembersIInv'
    OBVIOUS
  <1>1. CASE UNCHANGED memberVars
    BY <1>1 DEF memberVars, MembersIInv, MembersTypeOK, RequestsOK, RowsNamed, JoinsAdmitted,
                Admits, PendingNotRevoked, MembersWereInvited, RemovedIsCutOff, Leaving
  <1>2. ASSUME NEW q \in Desks, NEW by \in People, NEW p \in People, NEW r \in InviteRoles,
               AskToInvite(q, by, p, r)
        PROVE  MembersIInv'
    BY <1>2, AskToInviteStep
  <1>3. ASSUME NEW q \in Desks,
               \/ ListInvitations(q) \/ ClearExpired(q) \/ InsertInvitation(q)
               \/ SendInvitation(q) \/ UndoInvitation(q)
        PROVE  MembersIInv'
    BY <1>3, ListInvitationsStep, ClearExpiredStep, InsertInvitationStep, SendInvitationStep,
       UndoInvitationStep
  <1>4. ASSUME NEW q \in Desks, SelectInvitation(q) \/ CommitJoin(q) PROVE MembersIInv'
    BY <1>4, SelectInvitationStep, CommitJoinStep
  <1>5. ASSUME NEW q \in Desks, DeleteMember(q) \/ CloseMembers(q) \/ ChangeRole(q)
        PROVE  MembersIInv'
    BY <1>5, DeleteMemberStep, CloseMembersStep, ChangeRoleStep
  <1>6. ASSUME NEW i \in Invites, Expire(i) \/ \E q \in Desks : AskToJoin(q, i) PROVE MembersIInv'
    BY <1>6, ExpireStep, AskToJoinStep
  <1>7. ASSUME NEW q \in Desks, NEW by \in People, NEW i \in Invites, Revoke(q, by, i)
        PROVE  MembersIInv'
    BY <1>7, RevokeStep
  <1>8. ASSUME NEW q \in Desks, NEW p \in People,
               \/ \E by \in People : AskToRemove(q, by, p)
               \/ \E r \in InviteRoles : AskToChangeRole(q, p, r)
        PROVE  MembersIInv'
    BY <1>8, AskToRemoveStep, AskToChangeRoleStep
  <1>9. ASSUME NEW p \in People, CheckAccess(p) \/ EnterHub(p) \/ LeaveHub(p) PROVE MembersIInv'
    BY <1>9, ConnectionStep
  <1> QED
    BY <1>1, <1>2, <1>3, <1>4, <1>5, <1>6, <1>7, <1>8, <1>9 DEF MembersNext

\* The invariant holds in every state, whatever the order of the statements.
THEOREM MembersInvariant == MembersSpec => []MembersIInv
  BY MembersInitially, MembersStep, PTL DEF MembersSpec

\* Every member was let in by an invitation that was not revoked, but for the race.
THEOREM MembersAreInvited == MembersSpec => []MembersWereInvited
  <1>1. MembersIInv => MembersWereInvited
    BY DEF MembersIInv
  <1> QED
    BY <1>1, MembersInvariant, PTL

\* Whatever the order of the statements: a removed person has no connection open
\* but one that came late, or one that a removal answered by an error left.
THEOREM RemovedMembersAreDisconnected == MembersSpec => []RemovedIsDisconnected
  <1>1. MembersIInv => RemovedIsDisconnected
    BY DEF MembersIInv, RemovedIsCutOff, RemovedIsDisconnected
  <1> QED
    BY <1>1, MembersInvariant, PTL
=============================================================================
