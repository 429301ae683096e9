----------------------------- MODULE PolicySource -----------------------------
(***************************************************************************)
(* acquirePolicy of policy-source.mts: main is resolved once, then only    *)
(* immutable Git objects are read, one request after the other under one   *)
(* shared deadline, while main may move and replies may be late, missing,  *)
(* truncated, misdirected or corrupted.                                    *)
(*                                                                         *)
(* A Git identity is modelled by the object it names (no two objects share *)
(* a SHA).  A tree is a function from member names to entries; an entry    *)
(* has a kind ("tree", "file" for a regular EX-ID.json blob, "other") and  *)
(* the identity of its object; a blob has a size and an approval record.   *)
(***************************************************************************)
EXTENDS ExemptionPolicy

CONSTANTS
  Component,           \* the component being evaluated
  PolicyDirectory,     \* the name security-exemptions
  Repositories,        \* histories: functions from revisions to root trees
  NoRevision,          \* no revision resolved yet
  MaxTreeEntries,      \* entries of one complete tree (4096)
  MaxRawRecord,        \* bytes of one record file (64 KiB)
  AcquisitionTimeout,  \* the shared deadline (120 s)
  MaxTime              \* bound on the clock

ASSUME SourceAssumption ==
  /\ MaxTreeEntries \in Nat
  /\ MaxRawRecord \in Nat
  /\ AcquisitionTimeout \in Nat
  /\ MaxTime \in Nat
  /\ \A history \in Repositories :
       DOMAIN history \subseteq Nat /\ NoRevision \notin DOMAIN history

VARIABLES
  repository,  \* the policy repository's history
  main,        \* the revision refs/heads/main points to
  now,         \* performance.now()
  deadline,    \* deadlineMs of this acquisition
  pc,          \* the request acquirePolicy awaits, or where it stands
  served,      \* the revision GitHub answered the ref request with
  revision,    \* the revision acquirePolicy works on
  tree,        \* identity of the tree being requested
  listing,     \* selectedEntries
  unread,      \* names of selectedEntries not yet loaded
  member,      \* name of the record file being requested
  loaded       \* loadedRecords, by file name

vars == <<repository, main, now, deadline, pc, served, revision, tree, listing,
          unread, member, loaded>>
environment == <<repository, main, now>>
work == <<deadline, served, revision, tree, listing, unread, member, loaded>>

Awaiting == {"ref", "commit", "root", "policy", "component", "blob"}
Ended == {"acquired", "failed", "rejected"}
NoTree == [name \in {} |-> name]
NoMember == "none"

-----------------------------------------------------------------------------
(* GitHub's replies.                                                       *)

SubTree(entry) == IF entry.kind = "tree" THEN {entry.sha} ELSE {}

(* Every tree of the history: the wrong trees a reply may carry.           *)
RootTrees == {repository[r] : r \in DOMAIN repository}
PolicyTrees ==
  UNION {UNION {SubTree(t[n]) : n \in DOMAIN t} : t \in RootTrees}
ComponentTrees ==
  UNION {UNION {SubTree(t[n]) : n \in DOMAIN t} : t \in PolicyTrees}
Blobs == UNION {{t[n].sha : n \in DOMAIN t} : t \in ComponentTrees}

CommitReplies == {[sha |-> r, tree |-> repository[r]] : r \in DOMAIN repository}

Part(t, names) == [n \in names |-> t[n]]

(* The requested tree, complete or cut short, or some other tree.          *)
TreeReplies(requested) ==
  {[sha |-> requested, truncated |-> names # DOMAIN requested,
    tree |-> Part(requested, names)] : names \in SUBSET DOMAIN requested}
  \cup {[sha |-> t, truncated |-> FALSE, tree |-> t] :
          t \in RootTrees \cup PolicyTrees \cup ComponentTrees}

(* The requested blob, its metadata over the bytes of another blob, or     *)
(* another blob altogether.                                                *)
BlobReplies(requested) ==
  {[sha |-> s, size |-> s.size, blob |-> b] :
     s \in Blobs \cup {requested}, b \in Blobs \cup {requested}}

-----------------------------------------------------------------------------
(* Checks on the replies.                                                  *)

(* Mutant: a listing GitHub cut short is taken for the whole tree.         *)
PossiblyTruncatedTree(reply, requested) == reply.sha = requested

(* readCompleteTree: the tree asked for, listed completely.                *)
CompleteTree(reply, requested) == reply.sha = requested /\ ~reply.truncated

(* Its entry limit, checked on a complete tree.  Ambiguous member names    *)
(* cannot occur in a function.                                             *)
WithinEntries(t) == Cardinality(DOMAIN t) <= MaxTreeEntries

HasDirectory(t, name) == name \in DOMAIN t /\ t[name].kind = "tree"

(* Checks made on a tree entry before its blob is requested.               *)
RegularRecordFile(entry) ==
  /\ entry.kind = "file"
  /\ entry.sha.size \in 1 .. MaxRawRecord

(* Mutant: the bytes of the blob are not hashed.                           *)
UnhashedBlob(reply, entry) ==
  /\ reply.sha = entry.sha
  /\ reply.size = entry.sha.size
  /\ reply.blob.size = entry.sha.size

(* decodeVerifiedBlob: metadata and bytes agree with the tree entry.       *)
VerifiedBlob(reply, entry) ==
  /\ reply.sha = entry.sha
  /\ reply.size = entry.sha.size
  /\ reply.blob = entry.sha

RecordAccepted(record, name) ==
  /\ record.id = name
  /\ ParseExemption(record)
  /\ record.component = Component

-----------------------------------------------------------------------------
Init ==
  /\ repository \in Repositories
  /\ main \in DOMAIN repository
  /\ now = 0
  /\ deadline = 0
  /\ pc = "idle"
  /\ served = NoRevision
  /\ revision = NoRevision
  /\ tree = NoTree
  /\ listing = NoTree
  /\ unread = {}
  /\ member = NoMember
  /\ loaded = NoTree

(* Environment: reviewed policy changes reach main; time passes.           *)
AdvanceMain ==
  /\ main' \in {r \in DOMAIN repository : r > main}
  /\ UNCHANGED <<repository, now, pc, work>>

Tick ==
  /\ now < MaxTime
  /\ now' = now + 1
  /\ UNCHANGED <<repository, main, pc, work>>

(* The code after an await runs on until the next request, which is only   *)
(* sent while time remains.                                                *)
Proceed(next) == pc' = IF now < deadline THEN next ELSE "failed"

(* The acquisition fails for what a request or its answer lacks.           *)
Refuse == pc' = "failed" /\ UNCHANGED work

(* It fails with a message that blames the policy itself: its layout, a    *)
(* limit, a record or the set of records.                                  *)
Reject == pc' = "rejected" /\ UNCHANGED work

Start ==
  /\ pc = "idle"
  /\ now + AcquisitionTimeout <= MaxTime
  /\ deadline' = now + AcquisitionTimeout
  /\ pc' = "ref"
  /\ UNCHANGED <<environment, served, revision, tree, listing, unread, member, loaded>>

(* GitHub reads the ref; main may move before the answer is handled.       *)
ServeRef ==
  /\ pc = "ref"
  /\ served = NoRevision
  /\ served' = main
  /\ UNCHANGED <<environment, pc, deadline, revision, tree, listing, unread,
                 member, loaded>>

ReadRef ==
  /\ pc = "ref"
  /\ served # NoRevision
  /\ revision' = served
  /\ Proceed("commit")
  /\ UNCHANGED <<environment, deadline, served, tree, listing, unread, member, loaded>>

ReadCommit ==
  /\ pc = "commit"
  /\ \E reply \in CommitReplies :
       \/ /\ reply.sha = revision
          /\ tree' = reply.tree
          /\ Proceed("root")
          /\ UNCHANGED <<deadline, served, revision, listing, unread, member, loaded>>
       \/ reply.sha # revision /\ Refuse
  /\ UNCHANGED environment

(* A root without the policy directory is never an empty policy.           *)
ReadRootTree ==
  /\ pc = "root"
  /\ \E reply \in TreeReplies(tree) :
       LET complete == CompleteTree(reply, tree)
           usable   == WithinEntries(reply.tree) /\ HasDirectory(reply.tree, PolicyDirectory)
       IN \/ /\ complete /\ usable
             /\ tree' = reply.tree[PolicyDirectory].sha
             /\ Proceed("policy")
             /\ UNCHANGED <<deadline, served, revision, listing, unread, member, loaded>>
          \/ ~complete /\ Refuse
          \/ complete /\ ~usable /\ Reject
  /\ UNCHANGED environment

(* A component missing from a complete policy tree has no approvals; no    *)
(* further request is made for it.                                         *)
ReadPolicyTree ==
  /\ pc = "policy"
  /\ \E reply \in TreeReplies(tree) :
       LET complete == CompleteTree(reply, tree)
           within   == WithinEntries(reply.tree)
           absent   == Component \notin DOMAIN reply.tree
       IN \/ /\ complete /\ within /\ absent
             /\ pc' = "members"
             /\ UNCHANGED work
          \/ /\ complete /\ within /\ HasDirectory(reply.tree, Component)
             /\ tree' = reply.tree[Component].sha
             /\ Proceed("component")
             /\ UNCHANGED <<deadline, served, revision, listing, unread, member, loaded>>
          \/ ~complete /\ Refuse
          \/ /\ complete
             /\ ~(within /\ (absent \/ HasDirectory(reply.tree, Component)))
             /\ Reject
  /\ UNCHANGED environment

ReadComponentTree ==
  /\ pc = "component"
  /\ \E reply \in TreeReplies(tree) :
       LET complete == CompleteTree(reply, tree)
           within   == /\ WithinEntries(reply.tree)
                       /\ Cardinality(DOMAIN reply.tree) <= MaxRecords
       IN \/ /\ complete /\ within
             /\ listing' = reply.tree
             /\ unread' = DOMAIN reply.tree
             /\ pc' = "members"
             /\ UNCHANGED <<deadline, served, revision, tree, member, loaded>>
          \/ ~complete /\ Refuse
          \/ complete /\ ~within /\ Reject
  /\ UNCHANGED environment

(* readVerifiedApprovalRecord up to its request.  The listing order is     *)
(* GitHub's choice.                                                        *)
RequestBlob ==
  /\ pc = "members"
  /\ \E name \in unread :
       \/ /\ RegularRecordFile(listing[name])
          /\ member' = name
          /\ Proceed("blob")
          /\ UNCHANGED <<deadline, served, revision, tree, listing, unread, loaded>>
       \/ ~RegularRecordFile(listing[name]) /\ Reject
  /\ UNCHANGED environment

ReadBlob ==
  /\ pc = "blob"
  /\ \E reply \in BlobReplies(listing[member].sha) :
       LET verified == VerifiedBlob(reply, listing[member])
           accepted == RecordAccepted(reply.blob.record, member)
       IN \/ /\ verified /\ accepted
             /\ loaded' = [n \in DOMAIN loaded \cup {member} |->
                          IF n = member THEN reply.blob.record ELSE loaded[n]]
             /\ unread' = unread \ {member}
             /\ pc' = "members"
             /\ UNCHANGED <<deadline, served, revision, tree, listing, member>>
          \/ ~verified /\ Refuse
          \/ verified /\ ~accepted /\ Reject
  /\ UNCHANGED environment

(* Mutant: no deadline check after the last request.                       *)
FinishAtAnyTime ==
  /\ pc = "members"
  /\ unread = {}
  /\ pc' = IF ParseExemptions(loaded, Component) THEN "acquired" ELSE "rejected"
  /\ UNCHANGED <<environment, work>>

(* Records valid one by one may still conflict as a set; then the shared   *)
(* deadline is checked once more.                                          *)
Finish ==
  /\ pc = "members"
  /\ unread = {}
  /\ \/ ~ParseExemptions(loaded, Component) /\ pc' = "rejected"
     \/ ParseExemptions(loaded, Component) /\ now < deadline /\ pc' = "acquired"
     \/ ParseExemptions(loaded, Component) /\ now >= deadline /\ pc' = "failed"
  /\ UNCHANGED <<environment, work>>

(* Transport failure, any status but 200, or a response over its limit.    *)
RequestFails ==
  /\ pc \in Awaiting
  /\ Refuse
  /\ UNCHANGED environment

(* Mutant: the timer is only armed for the first request.                  *)
FirstTimeoutOnly ==
  /\ pc = "ref"
  /\ now >= deadline
  /\ Refuse
  /\ UNCHANGED environment

(* The request timer; an answer may still be handled before it runs.       *)
Timeout ==
  /\ pc \in Awaiting
  /\ now >= deadline
  /\ Refuse
  /\ UNCHANGED environment

Next ==
  \/ AdvanceMain \/ Tick \/ Start
  \/ ServeRef \/ ReadRef \/ ReadCommit
  \/ ReadRootTree \/ ReadPolicyTree \/ ReadComponentTree
  \/ RequestBlob \/ ReadBlob \/ Finish
  \/ RequestFails \/ Timeout

Spec == Init /\ [][Next]_vars

(* Time passes, due timers run and synchronous code continues; nothing is  *)
(* assumed of GitHub's answers, or of main.                                *)
FairSpec ==
  /\ Spec
  /\ WF_vars(Tick) /\ WF_vars(Timeout)
  /\ WF_vars(RequestBlob) /\ WF_vars(Finish)

-----------------------------------------------------------------------------
(* Properties.                                                             *)

(* What the policy tree of one revision says about the component.          *)
PolicyTree(root) == root[PolicyDirectory].sha

Members(root) ==
  IF Component \in DOMAIN PolicyTree(root)
  THEN PolicyTree(root)[Component].sha ELSE NoTree

ApprovedRecords(root) ==
  [n \in DOMAIN Members(root) |-> Members(root)[n].sha.record]

LawfulPolicy(root) ==
  /\ HasDirectory(root, PolicyDirectory)
  /\ Component \in DOMAIN PolicyTree(root) =>
       HasDirectory(PolicyTree(root), Component)
  /\ \A n \in DOMAIN Members(root) :
       /\ RegularRecordFile(Members(root)[n])
       /\ RecordAccepted(Members(root)[n].sha.record, n)
  /\ ParseExemptions(ApprovedRecords(root), Component)

(* The limits acquirePolicy puts on every tree it reads.                   *)
WithinLimits(root) ==
  /\ Cardinality(DOMAIN root) <= MaxTreeEntries
  /\ Cardinality(DOMAIN PolicyTree(root)) <= MaxTreeEntries
  /\ Cardinality(DOMAIN Members(root)) <= MaxTreeEntries
  /\ Cardinality(DOMAIN Members(root)) <= MaxRecords

(* Types of the variables; a selected record is either still to be read or *)
(* loaded (acquirePolicy, the loop over selectedEntries).                  *)
TypeOK ==
  /\ main \in DOMAIN repository
  /\ now \in 0 .. MaxTime
  /\ deadline \in 0 .. MaxTime
  /\ pc \in Awaiting \cup {"idle", "members"} \cup Ended
  /\ served \in DOMAIN repository \cup {NoRevision}
  /\ revision \in {served, NoRevision}
  /\ unread \cup DOMAIN loaded = DOMAIN listing
  /\ unread \cap DOMAIN loaded = {}
  /\ pc = "blob" => member \in unread

(* A returned snapshot is exactly what the one resolved revision approves; *)
(* in particular it is empty only if that revision approves nothing.       *)
SnapshotFaithful ==
  pc = "acquired" =>
    /\ LawfulPolicy(repository[revision])
    /\ loaded = ApprovedRecords(repository[revision])

(* The policy is blamed (for its layout, a limit, a record or the set of   *)
(* records) only if the policy of the one resolved revision is at fault:   *)
(* never for an answer that was cut short, misdirected, corrupted or late, *)
(* nor for what main became meanwhile.                                     *)
RejectionWarranted ==
  pc = "rejected" =>
    ~(LawfulPolicy(repository[revision]) /\ WithinLimits(repository[revision]))

(* An acquisition that started ends, whatever GitHub does.                 *)
AcquisitionSettles == pc = "ref" ~> pc \in Ended

outcomeMapping ==
  CASE pc = "acquired" ->
         [status |-> "acquired", revision |-> revision, records |-> loaded]
    [] pc \in {"failed", "rejected"} -> [status |-> "failed"]
    [] OTHER -> [status |-> "pending"]

Atomic == INSTANCE AtomicSnapshot
            WITH Lawful <- LawfulPolicy, Approved <- ApprovedRecords,
                 Timeout <- AcquisitionTimeout,
                 pinned <- served, outcome <- outcomeMapping

(* The sequence of requests implements one atomic read of main's policy,   *)
(* begun and returned within one window of time.                           *)
ImplementsAtomicSnapshot == Atomic!Spec
=============================================================================
