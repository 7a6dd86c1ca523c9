----------------------------- MODULE Membership -----------------------------
(***************************************************************************)
(* One member's rows in od_members, od_profiles and od_discovery_index:    *)
(* how the profile, discovery and deletion services create, update, pause, *)
(* hide, resume and delete them, and how a moderator's sanction does not   *)
(* reach them.  The index repeats what the other two rows say, and is      *)
(* refreshed by a read and a separate write (syncDiscoveryIndex).          *)
(*                                                                         *)
(* One statement or batch is one action.  getMember may read a replica;    *)
(* an older row is what an earlier read would have seen, and nothing a     *)
(* handler does before that read matters, so no action is needed for it.   *)
(***************************************************************************)
CONSTANTS
    Procs,      \* requests about the member that can be in flight at once
    Ops,        \* the operations called in this instance
    MayFail     \* whether handlers are cut off

AllOps == {"create", "update", "location", "hide", "show", "pause", "resume", "delete", "sanction"}
ASSUME MembershipOps == Ops \subseteq AllOps /\ MayFail \in BOOLEAN

VARIABLES
    status,     \* od_members.status, or "none"
    profile,    \* od_profiles.visibility_state, or "none"
    content,    \* whether od_profiles holds a payload (every payload has an age here)
    index,      \* od_discovery_index.visible: "visible", "hidden", or "none"
    aged,       \* whether od_discovery_index has an age
    sanctioned, \* whether od_sanctions has a row
    handler,    \* per process: the request in flight, its statement, what sync read
    mixed,      \* history: requests that have been in flight together with another
    past        \* history: what has happened since a sync of a request on its own

rows == <<status, profile, content, index, aged, sanctioned>>
history == <<mixed, past>>
vars == <<rows, handler, history>>

Idle == [at |-> "idle"]
EnsureOps == {"create", "update", "location"}
Steps == {"getMember", "insertMember", "insertRows", "statement", "sync.read", "sync.write",
          "sanction.insert", "sanction.hide"}
Handlers == {Idle} \cup [at : Steps, op : AllOps, visible : {"visible", "hidden"}, aged : BOOLEAN]

At(p, step) == handler[p].at = step
Goto(p, step) == handler' = [handler EXCEPT ![p].at = step]
Return(p) == handler' = [handler EXCEPT ![p] = Idle]
\* An UPDATE leaves a row that does not exist alone.
Set(row, value) == IF row = "none" THEN "none" ELSE value

Init ==
    /\ status = "none" /\ profile = "none" /\ index = "none"
    /\ content = FALSE /\ aged = FALSE /\ sanctioned = FALSE
    /\ handler = [p \in Procs |-> Idle]
    /\ mixed = {}
    /\ past = "cut"

Begin(p, op) ==
    /\ handler[p] = Idle
    /\ handler' = [handler EXCEPT ![p] =
         [at |-> IF op \in EnsureOps THEN "getMember"
                 ELSE IF op = "sanction" THEN "sanction.insert" ELSE "statement",
          op |-> op, visible |-> "hidden", aged |-> FALSE]]
    /\ LET others == {q \in Procs : handler[q] # Idle} IN
         /\ mixed' = IF others = {} THEN {} ELSE mixed \cup others \cup {p}
         /\ past' = IF others = {} THEN past ELSE "raced"
    /\ UNCHANGED rows

-----------------------------------------------------------------------------
(* ensureMember *)

\* What an operation does once the member is known to exist.
Ensured(p) == IF handler[p].op = "create" THEN Return(p) ELSE Goto(p, "statement")

\* A deleted member is turned away; nobody has the status 'banned'.
GetMember(p) ==
    /\ At(p, "getMember")
    /\ IF status = "none" THEN Goto(p, "insertMember")
       ELSE IF status = "deleted" THEN Return(p) ELSE Ensured(p)
    /\ UNCHANGED <<rows, history>>

\* Mutant: INSERT OR REPLACE.
InsertMemberReplace(p) ==
    /\ At(p, "insertMember")
    /\ status' = "active"
    /\ Goto(p, "insertRows")
    /\ UNCHANGED <<profile, content, index, aged, sanctioned, history>>

InsertMember(p) ==
    /\ At(p, "insertMember")
    /\ status' = IF status = "none" THEN "active" ELSE status
    /\ Goto(p, "insertRows")
    /\ UNCHANGED <<profile, content, index, aged, sanctioned, history>>

InsertRows(p) ==
    /\ At(p, "insertRows")
    /\ profile' = IF profile = "none" THEN "discoverable" ELSE profile
    /\ index' = IF index = "none" THEN "hidden" ELSE index
    /\ Ensured(p)
    /\ UNCHANGED <<status, content, aged, sanctioned, history>>

-----------------------------------------------------------------------------
(* The statement, or batch, that is the operation's own *)

UpdateProfileContent(p) ==
    /\ At(p, "statement") /\ handler[p].op = "update"
    /\ profile' = IF profile = "none" THEN "discoverable" ELSE profile
    /\ content' = TRUE
    /\ Goto(p, "sync.read")
    /\ UNCHANGED <<status, index, aged, sanctioned, history>>

UpdateLocation(p) ==
    /\ At(p, "statement") /\ handler[p].op = "location"
    /\ index' = IF index = "none" THEN "hidden" ELSE index
    /\ Goto(p, "sync.read")
    /\ UNCHANGED <<status, profile, content, aged, sanctioned, history>>

\* Mutant: the index is left to the sync that follows.
SetVisibilityNoIndex(p) ==
    /\ At(p, "statement") /\ handler[p].op \in {"hide", "show"}
    /\ profile' = Set(profile, IF handler[p].op = "show" THEN "discoverable" ELSE "hidden")
    /\ Goto(p, "sync.read")
    /\ UNCHANGED <<status, content, index, aged, sanctioned, history>>

\* visibility.update, to 'hidden' (or another setting but 'discoverable') or back.
SetVisibility(p) ==
    /\ At(p, "statement") /\ handler[p].op \in {"hide", "show"}
    /\ profile' = Set(profile, IF handler[p].op = "show" THEN "discoverable" ELSE "hidden")
    /\ index' = Set(index, IF handler[p].op = "show" THEN "visible" ELSE "hidden")
    /\ Goto(p, "sync.read")
    /\ UNCHANGED <<status, content, aged, sanctioned, history>>

\* pauseMember looks at no status.
PauseMember(p) ==
    /\ At(p, "statement") /\ handler[p].op = "pause"
    /\ status' = Set(status, "paused")
    /\ profile' = Set(profile, "paused")
    /\ index' = Set(index, "hidden")
    /\ Goto(p, "sync.read")
    /\ UNCHANGED <<content, aged, sanctioned, history>>

\* Neither does resumeMember.
ResumeMember(p) ==
    /\ At(p, "statement") /\ handler[p].op = "resume"
    /\ status' = Set(status, "active")
    /\ profile' = Set(profile, "discoverable")
    /\ index' = Set(index, "visible")
    /\ Goto(p, "sync.read")
    /\ UNCHANGED <<content, aged, sanctioned, history>>

\* The profile row keeps its payload; no sync follows.
DeleteMember(p) ==
    /\ At(p, "statement") /\ handler[p].op = "delete"
    /\ status' = Set(status, "deleted")
    /\ profile' = Set(profile, "hidden")
    /\ index' = Set(index, "hidden")
    /\ Return(p)
    /\ UNCHANGED <<content, aged, sanctioned, history>>

-----------------------------------------------------------------------------
(* syncDiscoveryIndex *)

Entitled == status = "active" /\ profile = "discoverable"

\* Mutant: the status is not looked at.
SyncReadNoStatus(p) ==
    /\ At(p, "sync.read")
    /\ IF status = "none" THEN Return(p)
       ELSE handler' = [handler EXCEPT ![p].at = "sync.write", ![p].aged = content,
                ![p].visible = IF profile = "discoverable" THEN "visible" ELSE "hidden"]
    /\ UNCHANGED <<rows, history>>

SyncRead(p) ==
    /\ At(p, "sync.read")
    /\ IF status = "none" THEN Return(p)
       ELSE handler' = [handler EXCEPT ![p].at = "sync.write", ![p].aged = content,
                                       ![p].visible = IF Entitled THEN "visible" ELSE "hidden"]
    /\ UNCHANGED <<rows, history>>

SyncWrite(p) ==
    /\ At(p, "sync.write")
    /\ index' = handler[p].visible
    /\ aged' = handler[p].aged
    /\ past' = IF p \in mixed THEN past ELSE "settled"
    /\ Return(p)
    /\ UNCHANGED <<status, profile, content, sanctioned, mixed>>

-----------------------------------------------------------------------------
(* moderation.action with 'suspend' or 'ban': the action row, the sanction *)
(* row, and an UPDATE that names a column od_profiles does not have        *)

SanctionInsert(p) ==
    /\ At(p, "sanction.insert")
    /\ sanctioned' = TRUE
    /\ Goto(p, "sanction.hide")
    /\ UNCHANGED <<status, profile, content, index, aged, history>>

\* The statement fails and the handler throws.
SanctionHide(p) ==
    /\ At(p, "sanction.hide")
    /\ Return(p)
    /\ UNCHANGED <<rows, history>>

-----------------------------------------------------------------------------
\* An error of D1 or an evicted isolate.
Abort(p) ==
    /\ MayFail /\ handler[p] # Idle
    /\ Return(p)
    /\ past' = IF past = "settled" THEN "cut" ELSE past
    /\ UNCHANGED <<rows, mixed>>

EnsureStep(p) == GetMember(p) \/ InsertMember(p) \/ InsertRows(p)
OwnStep(p) ==
    UpdateProfileContent(p) \/ UpdateLocation(p) \/ SetVisibility(p)
    \/ PauseMember(p) \/ ResumeMember(p) \/ DeleteMember(p)
Step(p) ==
    \/ EnsureStep(p) \/ OwnStep(p) \/ SyncRead(p) \/ SyncWrite(p)
    \/ SanctionInsert(p) \/ SanctionHide(p)

Next == \E p \in Procs : Step(p) \/ Abort(p) \/ \E op \in Ops : Begin(p, op)

Spec == Init /\ [][Next]_vars

-----------------------------------------------------------------------------
TypeOK ==
    /\ status \in {"none", "active", "paused", "deleted"}
    /\ profile \in {"none", "discoverable", "hidden", "paused"}
    /\ {content, aged, sanctioned} \subseteq BOOLEAN
    /\ index \in {"none", "visible", "hidden"}
    /\ handler \in [Procs -> Handlers]
    /\ mixed \subseteq Procs
    /\ past \in {"settled", "cut", "raced"}

\* What generateGrants asks of a candidate's rows.
Listed == status = "active" /\ index = "visible" /\ aged

(* A member is dealt to others only while the profile says so              *)
(* (storage/d1/membership.ts:558-559), also between the statements of a    *)
(* request and after one was cut off.  Requests that overlap can break     *)
(* this; the first request that then syncs on its own mends it.            *)
ListedIsEntitled == past # "raced" /\ Listed => profile = "discoverable"

(* The index agrees with the rows it repeats, whatever the order of        *)
(* pausing, hiding, resuming, moving and deleting, once a request has      *)
(* synced on its own and unless another was cut off or overlapped since.   *)
IndexAgrees ==
    past = "settled" /\ (\A p \in Procs : handler[p] = Idle) =>
        (index = "visible" <=> Entitled) /\ (aged <=> content)

(* tests/opendating/e2e/three-user.test.ts:364: the tombstone prevents     *)
(* resurrection.  However creation, edits and deletion of one account are  *)
(* raced or cut off, nothing but profile.pause and profile.resume, which   *)
(* look at no status, takes a deleted member's tombstone away.             *)
TombstoneHolds ==
    [][\/ status = "deleted" => status' = "deleted"
       \/ \E p \in Procs : PauseMember(p) \/ ResumeMember(p)]_vars
=============================================================================
