--------------------------- MODULE WorkspaceMembers ---------------------------
(***************************************************************************)
(* The members of one workspace and the invitations that let people in.    *)
(*                                                                         *)
(* Every request is a goroutine and every statement a transaction of its   *)
(* own (only the acceptance groups its statements), so requests interleave *)
(* between the statements.  A person stands for the account and for its    *)
(* normalized address.                                                     *)
(***************************************************************************)
EXTENDS Naturals, FiniteSets

CONSTANTS
    People,
    Owner,        \* who created the workspace
    Desks,        \* goroutines that serve requests
    MaxInvites,   \* bound: invitations ever inserted
    MaxWork       \* bound: requests begun

Invites == 1..MaxInvites
InviteRoles == {"admin", "viewer"}
Managers == {"owner", "admin"}

ASSUME MembersAssumption == Owner \in People /\ MaxInvites \in Nat /\ MaxWork \in Nat

VARIABLES
    role,    \* workspace_members
    inv,     \* workspace_invitations
    desk,    \* the requests
    link,    \* a person's websocket: none, checked (not yet in the hub) or open
    kept,    \* why a removal left the websocket: it was kept, or the answer was lost
    work     \* requests begun

memberVars == <<role, inv, desk, link, kept, work>>

(***************************************************************************)
(* revoked stands for revoked_at.  raced: an acceptance had selected the   *)
(* row when it was revoked or deleted, or it was already accepted when it  *)
(* was deleted.                                                            *)
(***************************************************************************)
Invite == [st : {"unused", "pending", "accepted", "revoked", "deleted"}, to : People,
           role : InviteRoles, expired : BOOLEAN, revoked : BOOLEAN, raced : BOOLEAN]
Unused == [st |-> "unused", to |-> Owner, role |-> "viewer", expired |-> FALSE,
           revoked |-> FALSE, raced |-> FALSE]

Request == [pc : {"idle", "list", "insert", "clear", "mail", "undo", "select", "join", "remove",
                  "close", "set"},
            by : People, for : People, role : InviteRoles, inv : Invites \cup {0}]
Quiet == [pc |-> "idle", by |-> Owner, for |-> Owner, role |-> "viewer", inv |-> 0]

MembersTypeOK ==
    /\ role \in [People -> InviteRoles \cup {"none", "owner"}]
    /\ inv \in [Invites -> Invite]
    /\ desk \in [Desks -> Request]
    /\ link \in [People -> {"none", "checked", "open"}]
    /\ kept \in [People -> {"no", "late", "unanswered"}]
    /\ work \in 0..MaxWork

MembersInit ==
    /\ role = [p \in People |-> IF p = Owner THEN "owner" ELSE "none"]
    /\ inv = [i \in Invites |-> Unused]
    /\ desk = [q \in Desks |-> Quiet]
    /\ link = [p \in People |-> "none"]
    /\ kept = [p \in People |-> "no"]
    /\ work = 0

Begin(q, r) ==
    /\ desk[q].pc = "idle" /\ work < MaxWork
    /\ work' = work + 1
    /\ desk' = [desk EXCEPT ![q] = r]

Goto(q, pc) == desk' = [desk EXCEPT ![q].pc = pc]
Finish(q) == desk' = [desk EXCEPT ![q] = Quiet]
IsManager(p) == role[p] \in Managers

-----------------------------------------------------------------------------
(***************************************************************************)
(* An invitation: is the person a member, is an invitation pending (an     *)
(* expired one is deleted by its id), insert, mail.  When the mail fails   *)
(* the row is deleted again; the mail may have left all the same.          *)
(***************************************************************************)
AskToInvite(q, by, p, r) ==
    /\ role[by] # "none" /\ role[p] = "none"
    /\ Begin(q, [Quiet EXCEPT !.pc = "list", !.by = by, !.for = p, !.role = r])
    /\ UNCHANGED <<role, inv, link, kept>>

Pending(p) == {i \in Invites : inv[i].st = "pending" /\ inv[i].to = p}

ListInvitations(q) ==
    LET r == desk[q]
    IN  /\ r.pc = "list"
        /\ \/ /\ ~IsManager(r.by) \/ \E i \in Pending(r.for) : ~inv[i].expired
              /\ Finish(q)
           \/ /\ IsManager(r.by) /\ Pending(r.for) = {}
              /\ Goto(q, "insert")
           \/ \E i \in Pending(r.for) :
              /\ IsManager(r.by) /\ inv[i].expired
              /\ desk' = [desk EXCEPT ![q].pc = "clear", ![q].inv = i]
        /\ UNCHANGED <<role, inv, link, kept, work>>

Selected(i) == \E q \in Desks : desk[q].pc = "join" /\ desk[q].inv = i

Deleted(i) == [inv EXCEPT ![i].st = "deleted",
                          ![i].raced = @ \/ inv[i].st = "accepted" \/ Selected(i)]

ClearExpired(q) ==
    /\ desk[q].pc = "clear"
    /\ inv' = Deleted(desk[q].inv)
    /\ desk' = [desk EXCEPT ![q].pc = "insert", ![q].inv = 0]
    /\ UNCHANGED <<role, link, kept, work>>

\* The unique index admits one pending row of an address.
InsertInvitation(q) ==
    LET r == desk[q]
    IN  /\ r.pc = "insert"
        /\ \/ /\ ~IsManager(r.by) \/ Pending(r.for) # {}
              /\ Finish(q)
              /\ UNCHANGED inv
           \/ \E i \in Invites :
              /\ IsManager(r.by) /\ Pending(r.for) = {}
              /\ inv[i].st = "unused" /\ \A j \in 1..(i - 1) : inv[j].st # "unused"
              /\ inv' = [inv EXCEPT ![i] = [Unused EXCEPT !.st = "pending", !.to = r.for,
                                                          !.role = r.role]]
              /\ desk' = [desk EXCEPT ![q].pc = "mail", ![q].inv = i]
        /\ UNCHANGED <<role, link, kept, work>>

SendInvitation(q) ==
    /\ desk[q].pc = "mail"
    /\ Finish(q) \/ Goto(q, "undo")
    /\ UNCHANGED <<role, inv, link, kept, work>>

UndoInvitation(q) ==
    /\ desk[q].pc = "undo"
    /\ inv' = Deleted(desk[q].inv) \/ UNCHANGED inv
    /\ Finish(q)
    /\ UNCHANGED <<role, link, kept, work>>

Expire(i) ==
    /\ inv[i].st = "pending" /\ ~inv[i].expired
    /\ inv' = [inv EXCEPT ![i].expired = TRUE]
    /\ UNCHANGED <<role, desk, link, kept, work>>

-----------------------------------------------------------------------------
(***************************************************************************)
(* An acceptance looks at the row, then selects it again in a transaction  *)
(* that locks nothing until it inserts the member (or finds one) and       *)
(* updates the row by its id.                                              *)
(***************************************************************************)
AskToJoin(q, i) ==
    /\ inv[i].st = "pending" /\ ~inv[i].expired
    /\ Begin(q, [Quiet EXCEPT !.pc = "select", !.by = inv[i].to, !.inv = i])
    /\ UNCHANGED <<role, inv, link, kept>>

\* Mutant: the transaction trusts the look before it.
SelectsAny(i) == inv[i].st # "deleted"

Selects(i) == inv[i].st = "pending"

SelectInvitation(q) ==
    /\ desk[q].pc = "select"
    /\ IF Selects(desk[q].inv) THEN Goto(q, "join") ELSE Finish(q)
    /\ UNCHANGED <<role, inv, link, kept, work>>

Accepted(i) == IF inv[i].st = "deleted" THEN inv ELSE [inv EXCEPT ![i].st = "accepted"]

CommitJoin(q) ==
    LET i == desk[q].inv
    IN  /\ desk[q].pc = "join"
        /\ \/ /\ inv' = Accepted(i)
              /\ role' = IF role[inv[i].to] = "none" THEN [role EXCEPT ![inv[i].to] = inv[i].role]
                         ELSE role
           \/ UNCHANGED <<inv, role>>
        /\ Finish(q)
        /\ UNCHANGED <<link, kept, work>>

\* The role of the caller is looked up in a statement of its own, before the update.
Revoke(q, by, i) ==
    /\ desk[q].pc = "idle" /\ work < MaxWork
    /\ work' = work + 1
    /\ IsManager(by) /\ inv[i].st = "pending"
    /\ inv' = [inv EXCEPT ![i].st = "revoked", ![i].revoked = TRUE, ![i].raced = @ \/ Selected(i)]
    /\ UNCHANGED <<role, desk, link, kept>>

-----------------------------------------------------------------------------
(***************************************************************************)
(* The owner cannot be removed or changed; other rows are looked at and    *)
(* then written by their key, and the removal closes the connections it    *)
(* finds in the hubs.                                                      *)
(***************************************************************************)
AskToRemove(q, by, p) ==
    /\ IsManager(by) /\ role[p] \in InviteRoles
    /\ Begin(q, [Quiet EXCEPT !.pc = "remove", !.by = by, !.for = p])
    /\ UNCHANGED <<role, inv, link, kept>>

\* Only a DELETE that is answered without an error goes on to the connections:
\* it may fail, and it may take effect while its answer is lost.
DeleteMember(q) ==
    LET p == desk[q].for
    IN  /\ desk[q].pc = "remove"
        /\ \/ /\ role' = [role EXCEPT ![p] = "none"]
              /\ \/ Goto(q, "close") /\ UNCHANGED kept
                 \/ Finish(q) /\ kept' = [kept EXCEPT ![p] = "unanswered"]
           \/ Finish(q) /\ UNCHANGED <<role, kept>>
        /\ UNCHANGED <<inv, link, work>>

\* Mutant: the connections stay.
LeaveOpen(p) == UNCHANGED <<link, kept>>

CloseConnections(p) ==
    /\ link' = IF link[p] = "open" THEN [link EXCEPT ![p] = "none"] ELSE link
    /\ kept' = [kept EXCEPT ![p] = IF link[p] = "checked" THEN "late" ELSE "no"]

CloseMembers(q) ==
    /\ desk[q].pc = "close"
    /\ CloseConnections(desk[q].for)
    /\ Finish(q)
    /\ UNCHANGED <<role, inv, work>>

AskToChangeRole(q, p, r) ==
    /\ role[p] \in InviteRoles
    /\ Begin(q, [Quiet EXCEPT !.pc = "set", !.for = p, !.role = r])
    /\ UNCHANGED <<role, inv, link, kept>>

RowThere(p) == role[p] # "none"

ChangeRole(q) ==
    /\ desk[q].pc = "set"
    /\ role' = IF RowThere(desk[q].for) THEN [role EXCEPT ![desk[q].for] = desk[q].role] ELSE role
    /\ Finish(q)
    /\ UNCHANGED <<inv, link, kept, work>>

\* A websocket: the access check of the router, then the hub.
CheckAccess(p) ==
    /\ role[p] # "none" /\ link[p] = "none"
    /\ link' = [link EXCEPT ![p] = "checked"]
    /\ kept' = [kept EXCEPT ![p] = "no"]
    /\ UNCHANGED <<role, inv, desk, work>>

EnterHub(p) ==
    /\ link[p] = "checked"
    /\ link' = [link EXCEPT ![p] = "open"]
    /\ UNCHANGED <<role, inv, desk, kept, work>>

LeaveHub(p) ==
    /\ link[p] # "none"
    /\ link' = [link EXCEPT ![p] = "none"]
    /\ UNCHANGED <<role, inv, desk, kept, work>>

MembersNext ==
    \/ \E q \in Desks, by, p \in People, r \in InviteRoles : AskToInvite(q, by, p, r)
    \/ \E q \in Desks :
          \/ ListInvitations(q) \/ ClearExpired(q) \/ InsertInvitation(q)
          \/ SendInvitation(q) \/ UndoInvitation(q)
          \/ SelectInvitation(q) \/ CommitJoin(q)
          \/ DeleteMember(q) \/ CloseMembers(q) \/ ChangeRole(q)
    \/ \E i \in Invites : Expire(i) \/ \E q \in Desks : AskToJoin(q, i)
    \/ \E q \in Desks, by \in People, i \in Invites : Revoke(q, by, i)
    \/ \E q \in Desks, p \in People :
          \/ \E by \in People : AskToRemove(q, by, p)
          \/ \E r \in InviteRoles : AskToChangeRole(q, p, r)
    \/ \E p \in People : CheckAccess(p) \/ EnterHub(p) \/ LeaveHub(p)

MembersSpec == MembersInit /\ [][MembersNext]_memberVars

-----------------------------------------------------------------------------
(***************************************************************************)
(* Every member but the owner was let in by an invitation that says so and *)
(* was not revoked.  Two things can end otherwise, by the race the code    *)
(* admits (an acceptance selects a row without locking it and updates it   *)
(* by id): the row was revoked in between, or deleted in between or later  *)
(* (the rollback of a mail that failed, the clearing of an expired row).   *)
(***************************************************************************)
MembersWereInvited ==
    \A p \in People : role[p] # "none" /\ p # Owner =>
        \E i \in Invites :
            /\ inv[i].to = p
            /\ \/ inv[i].st = "accepted" /\ (inv[i].revoked => inv[i].raced)
               \/ inv[i].st = "deleted" /\ inv[i].raced

(***************************************************************************)
(* Whoever was removed has no connection left once the removal is          *)
(* answered, for a connection that entered the hub before the removal      *)
(* closed the others.  A removal that took effect but was answered by an   *)
(* error closes nothing, and no later one does: the person is not found.   *)
(***************************************************************************)
Leaving(p) == \E q \in Desks : desk[q].pc = "close" /\ desk[q].for = p

RemovedIsDisconnected ==
    \A p \in People : role[p] = "none" /\ link[p] = "open" => kept[p] # "no" \/ Leaving(p)
=============================================================================
