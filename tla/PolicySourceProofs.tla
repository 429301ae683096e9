-------------------------- MODULE PolicySourceProofs --------------------------
(***************************************************************************)
(* Proofs about PolicySource, for any histories of the policy repository,  *)
(* limits, timeout and clock: a snapshot that acquirePolicy returns is     *)
(* what the one pinned revision approves, and the requests implement one   *)
(* atomic read.                                                            *)
(***************************************************************************)
EXTENDS PolicySource, TLAPS

Root == repository[revision]

Started == {"commit", "root", "policy", "component", "members", "blob", "acquired"}
Selected == {"members", "blob", "acquired"}

(* Past the ref request the revision worked on is the one GitHub served;   *)
(* before it nothing is pinned.                                            *)
Pinned ==
  /\ repository \in Repositories
  /\ pc = "idle" => served = NoRevision /\ deadline = 0
  /\ pc \in {"idle", "ref"} => revision = NoRevision
  /\ pc \in Started => revision = served /\ revision \in DOMAIN repository

(* Each request names the object its predecessor named.                    *)
Traversed ==
  /\ pc = "root" => tree = Root
  /\ pc \in {"policy", "component"} \cup Selected => HasDirectory(Root, PolicyDirectory)
  /\ pc = "policy" => tree = PolicyTree(Root)
  /\ pc = "component" => /\ HasDirectory(PolicyTree(Root), Component)
                         /\ tree = Members(Root)
  /\ pc \in Selected /\ Component \in DOMAIN PolicyTree(Root) =>
       HasDirectory(PolicyTree(Root), Component)

(* The selected entries are the members of the component's directory.      *)
Listed ==
  /\ pc \notin Selected \cup {"failed", "rejected"} =>
       listing = NoTree /\ unread = {} /\ loaded = NoTree
  /\ pc \in Selected =>
       /\ DOMAIN listing = DOMAIN Members(Root)
       /\ \A n \in DOMAIN listing : listing[n] = Members(Root)[n]

(* What is loaded is the accepted content of regular files of the listing. *)
Read ==
  /\ loaded = [n \in DOMAIN loaded |-> listing[n].sha.record]
  /\ \A n \in DOMAIN loaded :
       RegularRecordFile(listing[n]) /\ RecordAccepted(listing[n].sha.record, n)
  /\ pc = "blob" => RegularRecordFile(listing[member])
  /\ pc = "acquired" => unread = {} /\ ParseExemptions(loaded, Component)

IInv == TypeOK /\ Pinned /\ Traversed /\ Listed /\ Read /\ RejectionWarranted

-----------------------------------------------------------------------------
(* A reply accepted as a complete tree lists exactly the requested tree    *)
(* (readCompleteTree: identity and completeness).                          *)
LEMMA CompleteIsWhole ==
  ASSUME NEW requested, NEW reply \in TreeReplies(requested), CompleteTree(reply, requested)
  PROVE  /\ DOMAIN reply.tree = DOMAIN requested
         /\ \A n \in DOMAIN requested : reply.tree[n] = requested[n]
  <1>1. CASE \E names \in SUBSET DOMAIN requested :
               reply = [sha |-> requested, truncated |-> names # DOMAIN requested,
                        tree |-> Part(requested, names)]
    <2>1. PICK names \in SUBSET DOMAIN requested :
            reply = [sha |-> requested, truncated |-> names # DOMAIN requested,
                     tree |-> Part(requested, names)]
      BY <1>1
    <2>2. reply.truncated = (names # DOMAIN requested) /\ reply.tree = Part(requested, names)
      BY <2>1
    <2>3. names = DOMAIN requested
      <3>1. ~reply.truncated
        BY DEF CompleteTree
      <3> QED BY <2>2, <3>1, Zenon
    <2>4. reply.tree = [n \in DOMAIN requested |-> requested[n]]
      BY <2>2, <2>3 DEF Part
    <2> QED BY <2>4
  <1>2. CASE \E t \in RootTrees \cup PolicyTrees \cup ComponentTrees :
               reply = [sha |-> t, truncated |-> FALSE, tree |-> t]
    BY <1>2 DEF CompleteTree
  <1> QED BY <1>1, <1>2 DEF TreeReplies

(* The numbers of TypeOK do not depend on what was read.                   *)
Clock == main \in DOMAIN repository /\ now \in 0 .. MaxTime /\ deadline \in 0 .. MaxTime

(* A failing step keeps everything but the place in the program.           *)
LEMMA RefusalKeeps ==
  ASSUME IInv, Refuse, UNCHANGED environment
  PROVE  IInv'
  <1> USE DEF IInv, Refuse, work, environment
  <1>1. TypeOK'
    BY DEF TypeOK, Awaiting, Ended
  <1>2. Pinned'
    BY DEF Pinned, Started
  <1>3. Traversed'
    BY DEF Traversed, Selected
  <1>4. Listed'
    BY DEF Listed, Selected
  <1>5. Read' /\ RejectionWarranted'
    BY DEF Read, RejectionWarranted
  <1> QED BY <1>1, <1>2, <1>3, <1>4, <1>5

(* So does a step that blames the policy, when the policy is at fault.     *)
LEMMA RejectionKeeps ==
  ASSUME IInv, Reject, UNCHANGED environment, ~(LawfulPolicy(Root) /\ WithinLimits(Root))
  PROVE  IInv'
  <1> USE DEF IInv, Reject, work, environment
  <1>1. TypeOK'
    BY DEF TypeOK, Awaiting, Ended
  <1>2. Pinned' /\ Traversed'
    BY DEF Pinned, Traversed, Started, Selected
  <1>3. Listed' /\ Read'
    BY DEF Listed, Read, Selected
  <1>4. RejectionWarranted'
    BY DEF RejectionWarranted, Root
  <1> QED BY <1>1, <1>2, <1>3, <1>4

(* The initial state satisfies the invariant.                              *)
LEMMA InitInv == Init => IInv
  <1> SUFFICES ASSUME Init PROVE IInv
    OBVIOUS
  <1> USE DEF Init
  <1>1. TypeOK
    BY SourceAssumption DEF TypeOK, NoTree, Awaiting, Ended
  <1>2. Pinned /\ Traversed /\ Listed
    BY DEF Pinned, Traversed, Listed, Started, Selected
  <1>3. Read /\ RejectionWarranted
    BY DEF Read, NoTree, RejectionWarranted
  <1> QED BY <1>1, <1>2, <1>3 DEF IInv

(* Steps outside the traversal: main moves, time passes, the deadline is   *)
(* set, the ref is served and read.                                        *)
LEMMA SurroundingSteps ==
  ASSUME IInv, AdvanceMain \/ Tick \/ Start \/ ServeRef \/ ReadRef
  PROVE  IInv'
  <1> USE DEF IInv, work, environment
  <1>1. CASE AdvanceMain
    <2> USE <1>1 DEF AdvanceMain
    <2>1. TypeOK'
      BY DEF TypeOK
    <2>2. Pinned' /\ Traversed' /\ Listed' /\ Read' /\ RejectionWarranted'
      BY DEF Pinned, Traversed, Listed, Read, Root, RejectionWarranted
    <2> QED BY <2>1, <2>2
  <1>2. CASE Tick
    <2> USE <1>2 DEF Tick
    <2>1. TypeOK'
      BY SourceAssumption DEF TypeOK
    <2>2. Pinned' /\ Traversed' /\ Listed' /\ Read' /\ RejectionWarranted'
      BY DEF Pinned, Traversed, Listed, Read, Root, RejectionWarranted
    <2> QED BY <2>1, <2>2
  <1>3. CASE Start
    <2> USE <1>3 DEF Start
    <2>1. TypeOK'
      BY SourceAssumption DEF TypeOK, Awaiting, Ended
    <2>2. Pinned' /\ Traversed'
      BY DEF Pinned, Traversed, Started, Selected
    <2>3. Listed' /\ Read' /\ RejectionWarranted'
      BY DEF Listed, Read, Selected, RejectionWarranted
    <2> QED BY <2>1, <2>2, <2>3
  <1>4. CASE ServeRef
    <2> USE <1>4 DEF ServeRef
    <2>1. TypeOK'
      BY DEF TypeOK, Pinned, Awaiting, Ended
    <2>2. Pinned' /\ Traversed'
      BY DEF Pinned, Traversed, Started, Selected
    <2>3. Listed' /\ Read' /\ RejectionWarranted'
      BY DEF Listed, Read, Selected, RejectionWarranted
    <2> QED BY <2>1, <2>2, <2>3
  <1>5. CASE ReadRef
    <2> USE <1>5 DEF ReadRef, Proceed
    <2>1. TypeOK'
      BY DEF TypeOK, Awaiting, Ended
    <2>2. Pinned' /\ Traversed'
      BY DEF TypeOK, Pinned, Traversed, Started, Selected
    <2>3. Listed' /\ Read' /\ RejectionWarranted'
      BY DEF Listed, Read, Selected, RejectionWarranted
    <2> QED BY <2>1, <2>2, <2>3
  <1> QED BY <1>1, <1>2, <1>3, <1>4, <1>5

(* The commit names the root tree of its revision.                         *)
LEMMA CommitStep == ASSUME IInv, ReadCommit PROVE IInv'
  <1> USE DEF IInv
  <1>1. PICK reply \in CommitReplies :
          \/ /\ reply.sha = revision
             /\ tree' = reply.tree
             /\ Proceed("root")
             /\ UNCHANGED <<deadline, served, revision, listing, unread, member, loaded>>
          \/ reply.sha # revision /\ Refuse
    BY DEF ReadCommit
  <1>2. pc = "commit" /\ UNCHANGED environment
    BY DEF ReadCommit
  <1>3. CASE Refuse
    BY <1>2, <1>3, RefusalKeeps
  <1>4. CASE /\ reply.sha = revision
             /\ tree' = reply.tree
             /\ Proceed("root")
             /\ UNCHANGED <<deadline, served, revision, listing, unread, member, loaded>>
    <2> USE <1>2, <1>4 DEF environment, Proceed
    <2>1. tree' = Root
      BY DEF CommitReplies, Root
    <2>2. TypeOK'
      BY DEF TypeOK, Awaiting, Ended
    <2>3. Pinned' /\ Traversed'
      BY <2>1 DEF Pinned, Traversed, Started, Selected, Root
    <2>4. Listed' /\ Read' /\ RejectionWarranted'
      BY DEF Listed, Read, Selected, RejectionWarranted
    <2> QED BY <2>2, <2>3, <2>4
  <1> QED BY <1>1, <1>3, <1>4

(* The root names the policy tree.                                         *)
LEMMA RootStep == ASSUME IInv, ReadRootTree PROVE IInv'
  <1> USE DEF IInv
  <1> DEFINE Usable(reply) == /\ WithinEntries(reply.tree)
                              /\ HasDirectory(reply.tree, PolicyDirectory)
  <1>1. PICK reply \in TreeReplies(tree) :
          \/ /\ CompleteTree(reply, tree) /\ Usable(reply)
             /\ tree' = reply.tree[PolicyDirectory].sha
             /\ Proceed("policy")
             /\ UNCHANGED <<deadline, served, revision, listing, unread, member, loaded>>
          \/ Refuse
          \/ CompleteTree(reply, tree) /\ ~Usable(reply) /\ Reject
    BY DEF ReadRootTree
  <1>2. pc = "root" /\ UNCHANGED environment
    BY DEF ReadRootTree
  <1>3. CASE Refuse
    BY <1>2, <1>3, RefusalKeeps
  <1>4. CASE /\ CompleteTree(reply, tree) /\ Usable(reply)
             /\ tree' = reply.tree[PolicyDirectory].sha
             /\ Proceed("policy")
             /\ UNCHANGED <<deadline, served, revision, listing, unread, member, loaded>>
    <2>1. /\ DOMAIN reply.tree = DOMAIN tree
          /\ \A n \in DOMAIN tree : reply.tree[n] = tree[n]
      BY <1>4, CompleteIsWhole
    <2>2. HasDirectory(Root, PolicyDirectory) /\ tree' = PolicyTree(Root)
      BY <1>2, <1>4, <2>1 DEF Traversed, HasDirectory, PolicyTree
    <2> HIDE DEF Usable
    <2> USE <1>2, <1>4 DEF environment, Proceed
    <2>3. TypeOK'
      BY DEF TypeOK, Awaiting, Ended
    <2>4. Pinned' /\ Traversed'
      BY <2>2 DEF Pinned, Traversed, Started, Selected, Root
    <2>5. Listed' /\ Read' /\ RejectionWarranted'
      BY DEF Listed, Read, Selected, RejectionWarranted
    <2> QED BY <2>3, <2>4, <2>5
  <1>5. CASE CompleteTree(reply, tree) /\ ~Usable(reply) /\ Reject
    <2>1. /\ DOMAIN reply.tree = DOMAIN Root
          /\ \A n \in DOMAIN Root : reply.tree[n] = Root[n]
      BY <1>2, <1>5, CompleteIsWhole DEF Traversed
    <2>2. ~(LawfulPolicy(Root) /\ WithinLimits(Root))
      BY <1>5, <2>1 DEF WithinEntries, WithinLimits, LawfulPolicy, HasDirectory
    <2> QED BY <1>2, <1>5, <2>2, RejectionKeeps
  <1> QED BY <1>1, <1>3, <1>4, <1>5

(* The policy tree names the component's directory or says it has none.    *)
LEMMA PolicyStep == ASSUME IInv, ReadPolicyTree PROVE IInv'
  <1> USE DEF IInv
  <1>1. PICK reply \in TreeReplies(tree) :
          \/ /\ CompleteTree(reply, tree) /\ Component \notin DOMAIN reply.tree
             /\ pc' = "members"
             /\ UNCHANGED work
          \/ /\ CompleteTree(reply, tree) /\ HasDirectory(reply.tree, Component)
             /\ tree' = reply.tree[Component].sha
             /\ Proceed("component")
             /\ UNCHANGED <<deadline, served, revision, listing, unread, member, loaded>>
          \/ Refuse
          \/ /\ CompleteTree(reply, tree)
             /\ ~(/\ WithinEntries(reply.tree)
                  /\ \/ Component \notin DOMAIN reply.tree
                     \/ HasDirectory(reply.tree, Component))
             /\ Reject
    BY DEF ReadPolicyTree
  <1>2. pc = "policy" /\ UNCHANGED environment /\ tree = PolicyTree(Root)
    BY DEF ReadPolicyTree, Traversed
  <1>3. CASE Refuse
    BY <1>2, <1>3, RefusalKeeps
  <1>4. CASE /\ CompleteTree(reply, tree) /\ Component \notin DOMAIN reply.tree
             /\ pc' = "members"
             /\ UNCHANGED work
    <2>1. Component \notin DOMAIN PolicyTree(Root)
      BY <1>2, <1>4, CompleteIsWhole
    <2>2. Members(Root) = NoTree /\ listing = NoTree
      BY <1>2, <2>1 DEF Members, Listed, Selected
    <2> USE <1>2, <1>4 DEF environment, work
    <2>3. TypeOK'
      BY DEF TypeOK, Awaiting, Ended
    <2>4. Pinned' /\ Traversed'
      BY <2>1 DEF Pinned, Traversed, Started, Selected, Root
    <2>5. Listed'
      BY <2>2 DEF Listed, Selected, Root, NoTree
    <2>6. Read' /\ RejectionWarranted'
      BY DEF Read, RejectionWarranted
    <2> QED BY <2>3, <2>4, <2>5, <2>6
  <1>5. CASE /\ CompleteTree(reply, tree) /\ HasDirectory(reply.tree, Component)
             /\ tree' = reply.tree[Component].sha
             /\ Proceed("component")
             /\ UNCHANGED <<deadline, served, revision, listing, unread, member, loaded>>
    <2>1. /\ DOMAIN reply.tree = DOMAIN tree
          /\ \A n \in DOMAIN tree : reply.tree[n] = tree[n]
      BY <1>5, CompleteIsWhole
    <2>2. HasDirectory(PolicyTree(Root), Component) /\ tree' = Members(Root)
      BY <1>2, <1>5, <2>1 DEF HasDirectory, Members
    <2> USE <1>2, <1>5 DEF environment, Proceed
    <2>3. TypeOK'
      BY DEF TypeOK, Awaiting, Ended
    <2>4. Pinned' /\ Traversed'
      BY <2>2 DEF Pinned, Traversed, Started, Selected, Root
    <2>5. Listed' /\ Read' /\ RejectionWarranted'
      BY DEF Listed, Read, Selected, RejectionWarranted
    <2> QED BY <2>3, <2>4, <2>5
  <1>6. CASE /\ CompleteTree(reply, tree)
             /\ ~(/\ WithinEntries(reply.tree)
                  /\ \/ Component \notin DOMAIN reply.tree
                     \/ HasDirectory(reply.tree, Component))
             /\ Reject
    <2>1. /\ DOMAIN reply.tree = DOMAIN PolicyTree(Root)
          /\ \A n \in DOMAIN PolicyTree(Root) : reply.tree[n] = PolicyTree(Root)[n]
      BY <1>2, <1>6, CompleteIsWhole
    <2>2. ~(LawfulPolicy(Root) /\ WithinLimits(Root))
      BY <1>6, <2>1 DEF WithinEntries, WithinLimits, LawfulPolicy, HasDirectory
    <2> QED BY <1>2, <1>6, <2>2, RejectionKeeps
  <1> QED BY <1>1, <1>3, <1>4, <1>5, <1>6

(* The component's directory becomes the listing.                          *)
LEMMA ComponentStep == ASSUME IInv, ReadComponentTree PROVE IInv'
  <1> USE DEF IInv
  <1>1. PICK reply \in TreeReplies(tree) :
          \/ /\ CompleteTree(reply, tree)
             /\ listing' = reply.tree
             /\ unread' = DOMAIN reply.tree
             /\ pc' = "members"
             /\ UNCHANGED <<deadline, served, revision, tree, member, loaded>>
          \/ Refuse
          \/ /\ CompleteTree(reply, tree)
             /\ ~(/\ WithinEntries(reply.tree)
                  /\ Cardinality(DOMAIN reply.tree) <= MaxRecords)
             /\ Reject
    BY DEF ReadComponentTree
  <1>2. pc = "component" /\ UNCHANGED environment /\ tree = Members(Root)
    BY DEF ReadComponentTree, Traversed
  <1>3. CASE Refuse
    BY <1>2, <1>3, RefusalKeeps
  <1>4. CASE /\ CompleteTree(reply, tree)
             /\ listing' = reply.tree
             /\ unread' = DOMAIN reply.tree
             /\ pc' = "members"
             /\ UNCHANGED <<deadline, served, revision, tree, member, loaded>>
    <2>1. /\ DOMAIN listing' = DOMAIN tree
          /\ \A n \in DOMAIN tree : listing'[n] = tree[n]
      BY <1>4, CompleteIsWhole
    <2>2. loaded = NoTree /\ DOMAIN loaded = {}
      BY <1>2 DEF Listed, Selected, NoTree
    <2> USE <1>2, <1>4 DEF environment
    <2>3. TypeOK'
      BY <2>2 DEF TypeOK, Awaiting, Ended
    <2>4. Pinned' /\ Traversed'
      BY DEF Pinned, Traversed, Started, Selected, Root, HasDirectory
    <2>5. Listed'
      BY <2>1 DEF Listed, Selected, Root
    <2>6. Read' /\ RejectionWarranted'
      BY <2>2 DEF Read, NoTree, RejectionWarranted
    <2> QED BY <2>3, <2>4, <2>5, <2>6
  <1>5. CASE /\ CompleteTree(reply, tree)
             /\ ~(/\ WithinEntries(reply.tree)
                  /\ Cardinality(DOMAIN reply.tree) <= MaxRecords)
             /\ Reject
    <2>1. DOMAIN reply.tree = DOMAIN Members(Root)
      BY <1>2, <1>5, CompleteIsWhole
    <2>2. ~WithinLimits(Root)
      BY <1>5, <2>1 DEF WithinEntries, WithinLimits
    <2> QED BY <1>2, <1>5, <2>2, RejectionKeeps
  <1> QED BY <1>1, <1>3, <1>4, <1>5

(* A record is only requested for a regular file of the listing.           *)
LEMMA RequestStep == ASSUME IInv, RequestBlob PROVE IInv'
  <1> USE DEF IInv
  <1>1. PICK name \in unread :
          \/ /\ RegularRecordFile(listing[name])
             /\ member' = name
             /\ Proceed("blob")
             /\ UNCHANGED <<deadline, served, revision, tree, listing, unread, loaded>>
          \/ ~RegularRecordFile(listing[name]) /\ Reject
    BY DEF RequestBlob
  <1>2. pc = "members" /\ UNCHANGED environment
    BY DEF RequestBlob
  <1>3. CASE ~RegularRecordFile(listing[name]) /\ Reject
    <2>1. name \in DOMAIN Members(Root) /\ listing[name] = Members(Root)[name]
      BY <1>2 DEF TypeOK, Listed, Selected
    <2>2. ~LawfulPolicy(Root)
      BY <1>3, <2>1 DEF LawfulPolicy
    <2> QED BY <1>2, <1>3, <2>2, RejectionKeeps
  <1>4. CASE /\ RegularRecordFile(listing[name])
             /\ member' = name
             /\ Proceed("blob")
             /\ UNCHANGED <<deadline, served, revision, tree, listing, unread, loaded>>
    <2> USE <1>2, <1>4 DEF environment, Proceed
    <2>1. TypeOK'
      BY DEF TypeOK, Awaiting, Ended
    <2>2. Pinned' /\ Traversed'
      BY DEF Pinned, Traversed, Started, Selected, Root
    <2>3. Listed'
      BY DEF Listed, Selected, Root
    <2>4. Read' /\ RejectionWarranted'
      BY DEF Read, RejectionWarranted
    <2> QED BY <2>1, <2>2, <2>3, <2>4
  <1> QED BY <1>1, <1>3, <1>4

(* A verified blob holds the record of its tree entry.                     *)
LEMMA BlobStep == ASSUME IInv, ReadBlob PROVE IInv'
  <1> USE DEF IInv
  <1>1. PICK reply \in BlobReplies(listing[member].sha) :
          \/ /\ VerifiedBlob(reply, listing[member])
             /\ RecordAccepted(reply.blob.record, member)
             /\ loaded' = [n \in DOMAIN loaded \cup {member} |->
                            IF n = member THEN reply.blob.record ELSE loaded[n]]
             /\ unread' = unread \ {member}
             /\ pc' = "members"
             /\ UNCHANGED <<deadline, served, revision, tree, listing, member>>
          \/ Refuse
          \/ /\ VerifiedBlob(reply, listing[member])
             /\ ~RecordAccepted(reply.blob.record, member)
             /\ Reject
    BY DEF ReadBlob
  <1>2. pc = "blob" /\ UNCHANGED environment
    BY DEF ReadBlob
  <1>3. CASE Refuse
    BY <1>2, <1>3, RefusalKeeps
  <1>4. CASE /\ VerifiedBlob(reply, listing[member])
             /\ RecordAccepted(reply.blob.record, member)
             /\ loaded' = [n \in DOMAIN loaded \cup {member} |->
                            IF n = member THEN reply.blob.record ELSE loaded[n]]
             /\ unread' = unread \ {member}
             /\ pc' = "members"
             /\ UNCHANGED <<deadline, served, revision, tree, listing, member>>
    <2>1. /\ reply.blob.record = listing[member].sha.record
          /\ RecordAccepted(listing[member].sha.record, member)
      BY <1>4 DEF VerifiedBlob
    <2>2. RegularRecordFile(listing[member]) /\ member \in unread
      BY <1>2 DEF Read, TypeOK
    <2>3. /\ DOMAIN loaded' = DOMAIN loaded \cup {member}
          /\ loaded' = [n \in DOMAIN loaded' |-> listing[n].sha.record]
      BY <1>4, <2>1 DEF Read
    <2> USE <1>2, <1>4 DEF environment
    <2>4. TypeOK'
      BY <2>2, <2>3 DEF TypeOK, Awaiting, Ended
    <2>5. Pinned' /\ Traversed'
      BY DEF Pinned, Traversed, Started, Selected, Root
    <2>6. Listed'
      BY DEF Listed, Selected, Root
    <2>7. Read' /\ RejectionWarranted'
      BY <2>1, <2>2, <2>3 DEF Read, RejectionWarranted
    <2> QED BY <2>4, <2>5, <2>6, <2>7
  <1>5. CASE /\ VerifiedBlob(reply, listing[member])
             /\ ~RecordAccepted(reply.blob.record, member)
             /\ Reject
    <2>1. member \in DOMAIN Members(Root) /\ listing[member] = Members(Root)[member]
      BY <1>2 DEF TypeOK, Listed, Selected
    <2>2. ~RecordAccepted(Members(Root)[member].sha.record, member)
      BY <1>5, <2>1 DEF VerifiedBlob
    <2>3. ~LawfulPolicy(Root)
      BY <2>1, <2>2 DEF LawfulPolicy
    <2> QED BY <1>2, <1>5, <2>3, RejectionKeeps
  <1> QED BY <1>1, <1>3, <1>4, <1>5

(* Once every selected record is loaded, the records are those the         *)
(* revision holds.                                                         *)
LEMMA LoadedAreApproved ==
  ASSUME IInv, pc \in Selected, unread = {}
  PROVE  /\ loaded = ApprovedRecords(Root)
         /\ DOMAIN loaded = DOMAIN Members(Root)
         /\ \A n \in DOMAIN loaded : listing[n] = Members(Root)[n]
  <1>1. /\ DOMAIN loaded = DOMAIN Members(Root)
        /\ \A n \in DOMAIN loaded : listing[n] = Members(Root)[n]
    BY DEF IInv, TypeOK, Listed
  <1>2. loaded = [n \in DOMAIN loaded |-> listing[n].sha.record]
    BY DEF IInv, Read
  <1>3. loaded = ApprovedRecords(Root)
    BY <1>1, <1>2 DEF ApprovedRecords
  <1> QED BY <1>1, <1>3

(* The records are accepted as a set before they are returned; a set that  *)
(* is refused is the one the revision holds.                               *)
LEMMA FinishStep == ASSUME IInv, Finish PROVE IInv'
  <1>1. CASE ~ParseExemptions(loaded, Component) /\ pc' = "rejected"
    <2>1. pc \in Selected /\ unread = {} /\ UNCHANGED environment /\ Reject
      BY <1>1 DEF Finish, Selected, Reject
    <2>2. loaded = ApprovedRecords(Root)
      BY <2>1, LoadedAreApproved
    <2>3. ~LawfulPolicy(Root)
      BY <1>1, <2>2 DEF LawfulPolicy
    <2> QED BY <2>1, <2>3, RejectionKeeps
  <1>2. CASE pc' = "failed"
    <2>1. Refuse /\ UNCHANGED environment
      BY <1>2 DEF Finish, Refuse
    <2> QED BY <2>1, RefusalKeeps
  <1>3. CASE ParseExemptions(loaded, Component) /\ pc' = "acquired"
    <2> USE <1>3 DEF IInv, Finish, environment, work
    <2>1. TypeOK'
      BY DEF TypeOK, Awaiting, Ended
    <2>2. Pinned' /\ Traversed'
      BY DEF Pinned, Traversed, Started, Selected, Root
    <2>3. Listed'
      BY DEF Listed, Selected, Root
    <2>4. Read' /\ RejectionWarranted'
      BY DEF Read, RejectionWarranted
    <2> QED BY <2>1, <2>2, <2>3, <2>4
  <1> QED BY <1>1, <1>2, <1>3 DEF Finish

(* Every step keeps the invariant.                                         *)
LEMMA StepInv == IInv /\ [Next]_vars => IInv'
  <1> SUFFICES ASSUME IInv, [Next]_vars PROVE IInv'
    OBVIOUS
  <1>1. CASE AdvanceMain \/ Tick \/ Start \/ ServeRef \/ ReadRef
    BY <1>1, SurroundingSteps
  <1>2. CASE ReadCommit \/ ReadRootTree \/ ReadPolicyTree \/ ReadComponentTree
    BY <1>2, CommitStep, RootStep, PolicyStep, ComponentStep
  <1>3. CASE RequestBlob \/ ReadBlob \/ Finish
    BY <1>3, RequestStep, BlobStep, FinishStep
  <1>4. CASE RequestFails \/ Timeout
    BY <1>4, RefusalKeeps DEF RequestFails, Timeout
  <1>5. CASE UNCHANGED vars
    <2> USE <1>5 DEF vars, IInv
    <2>1. TypeOK' /\ Pinned' /\ Traversed'
      BY DEF TypeOK, Pinned, Traversed, Root
    <2>2. Listed' /\ Read' /\ RejectionWarranted'
      BY DEF Listed, Read, Root, RejectionWarranted
    <2> QED BY <2>1, <2>2
  <1> QED BY <1>1, <1>2, <1>3, <1>4, <1>5 DEF Next

(* The strengthened invariant holds in every behaviour.                    *)
THEOREM Invariance == Spec => []IInv
  BY InitInv, StepInv, PTL DEF Spec

(* The variables keep their types, and every selected record is either     *)
(* loaded or still to be read (acquirePolicy, loop over selectedEntries).  *)
THEOREM TypeCorrect == Spec => []TypeOK
  <1>1. IInv => TypeOK
    BY DEF IInv
  <1> QED BY <1>1, Invariance, PTL

(* An acquired snapshot is faithful in every state of the invariant.       *)
LEMMA InvFaithful == IInv => SnapshotFaithful
  <1> SUFFICES ASSUME IInv, pc = "acquired"
               PROVE  LawfulPolicy(Root) /\ loaded = ApprovedRecords(Root)
    BY DEF SnapshotFaithful, Root
  <1>1. pc \in Selected /\ unread = {}
    BY DEF IInv, Read, Selected
  <1>2. /\ DOMAIN loaded = DOMAIN Members(Root)
        /\ \A n \in DOMAIN loaded : listing[n] = Members(Root)[n]
    BY <1>1, LoadedAreApproved
  <1>3. loaded = ApprovedRecords(Root)
    BY <1>1, LoadedAreApproved
  <1>4. \A n \in DOMAIN Members(Root) :
          /\ RegularRecordFile(Members(Root)[n])
          /\ RecordAccepted(Members(Root)[n].sha.record, n)
    BY <1>2 DEF IInv, Read
  <1>5. ParseExemptions(loaded, Component)
    BY DEF IInv, Read
  <1>6. /\ HasDirectory(Root, PolicyDirectory)
        /\ Component \in DOMAIN PolicyTree(Root) =>
             HasDirectory(PolicyTree(Root), Component)
    BY DEF IInv, Traversed, Selected
  <1>7. LawfulPolicy(Root)
    BY <1>3, <1>4, <1>5, <1>6 DEF LawfulPolicy
  <1> QED BY <1>3, <1>7

(* A snapshot that acquirePolicy returns is exactly what the revision main *)
(* had at one instant approves, however main moved and whatever GitHub     *)
(* answered in between.                                                    *)
THEOREM SnapshotIsFaithful == Spec => []SnapshotFaithful
  BY Invariance, InvFaithful, PTL

(* acquirePolicy blames the policy only when the policy of the one pinned  *)
(* revision is at fault, however main moved and whatever GitHub cut short, *)
(* mixed up or corrupted.                                                  *)
THEOREM RejectionsAreWarranted == Spec => []RejectionWarranted
  <1>1. IInv => RejectionWarranted
    BY DEF IInv
  <1> QED BY <1>1, Invariance, PTL

-----------------------------------------------------------------------------
(* The requests implement one atomic read.                                 *)

(* What the caller sees changes only when the acquisition ends.            *)
LEMMA OutcomeCases ==
  /\ pc \in {"failed", "rejected"} => outcomeMapping = [status |-> "failed"]
  /\ pc = "acquired" =>
       outcomeMapping = [status |-> "acquired", revision |-> revision, records |-> loaded]
  /\ pc \notin Ended => outcomeMapping = [status |-> "pending"]
  BY DEF outcomeMapping, Ended

(* A step between two requests is a stutter for the caller.                *)
LEMMA HiddenStep ==
  ASSUME UNCHANGED <<repository, main, now, deadline, served>>,
         pc \notin Ended, pc' \notin Ended
  PROVE  UNCHANGED <<repository, main, now, deadline, served, outcomeMapping>>
  BY DEF outcomeMapping, Ended

(* Giving up is the abstract failure.                                      *)
LEMMA FailureIsAbstract ==
  ASSUME UNCHANGED <<repository, main, now, deadline, served>>,
         pc \notin Ended, pc' \in {"failed", "rejected"}
  PROVE  Atomic!Fail
  BY DEF outcomeMapping, Ended, Atomic!Fail, Atomic!Pending, Atomic!Failed

(* The initial state is an abstract initial state.                         *)
LEMMA AbstractInit == Init => Atomic!Init
  BY DEF Init, outcomeMapping, Atomic!Init, Atomic!Pending

(* Returning the records is the abstract return of the pinned revision.    *)
LEMMA FinishIsAbstract ==
  ASSUME IInv, IInv', Finish, pc' = "acquired"
  PROVE  Atomic!Return
  <1>1. /\ pc = "members" /\ revision = served /\ served \in DOMAIN repository
        /\ UNCHANGED <<repository, main, now, deadline, served, revision, loaded>>
        /\ now < deadline
    BY DEF Finish, IInv, Pinned, Started, environment, work
  <1>2. served # NoRevision
    BY <1>1, SourceAssumption DEF IInv, Pinned
  <1>3. LawfulPolicy(repository[served]) /\ loaded = ApprovedRecords(repository[served])
    <2>1. SnapshotFaithful'
      BY InvFaithful, PTL
    <2>2. LawfulPolicy(repository'[revision']) /\ loaded' = ApprovedRecords(repository'[revision'])
      BY <2>1 DEF SnapshotFaithful
    <2> QED BY <1>1, <2>2
  <1>4. outcomeMapping = [status |-> "pending"]
    BY <1>1 DEF outcomeMapping
  <1>5. outcomeMapping' = [status |-> "acquired", revision |-> served,
                           records |-> ApprovedRecords(repository[served])]
    BY <1>1, <1>3 DEF outcomeMapping
  <1> QED BY <1>1, <1>2, <1>3, <1>4, <1>5
          DEF Atomic!Return, Atomic!Pending, Atomic!Snapshot

(* Every step implements an abstract step or leaves the caller's view.     *)
LEMMA AbstractStep ==
  IInv /\ IInv' /\ [Next]_vars =>
    \/ Atomic!Next
    \/ UNCHANGED <<repository, main, now, deadline, served, outcomeMapping>>
  <1> DEFINE Hidden == UNCHANGED <<repository, main, now, deadline, served, outcomeMapping>>
  <1> SUFFICES ASSUME IInv, IInv', [Next]_vars
               PROVE  Atomic!Next \/ Hidden
    OBVIOUS
  <1> USE DEF environment, work
  <1>1. CASE AdvanceMain
    BY <1>1 DEF AdvanceMain, outcomeMapping, Atomic!Next, Atomic!AdvanceMain
  <1>2. CASE Tick
    BY <1>2 DEF Tick, outcomeMapping, Atomic!Next, Atomic!Tick
  <1>3. CASE Start
    <2>1. /\ pc = "idle" /\ pc' = "ref" /\ deadline' = now + AcquisitionTimeout
          /\ UNCHANGED <<repository, main, now, served>>
      BY <1>3 DEF Start
    <2>2. served = NoRevision /\ deadline = 0
      BY <2>1 DEF IInv, Pinned
    <2>3. outcomeMapping = [status |-> "pending"] /\ outcomeMapping' = outcomeMapping
      BY <2>1 DEF outcomeMapping
    <2> QED BY <2>1, <2>2, <2>3 DEF Atomic!Next, Atomic!Open, Atomic!Pending
  <1>4. CASE ServeRef
    BY <1>4 DEF ServeRef, outcomeMapping, Atomic!Next, Atomic!Pin, Atomic!Pending
  <1>5. CASE Finish
    <2>1. pc = "members" /\ UNCHANGED <<repository, main, now, deadline, served>>
      BY <1>5 DEF Finish
    <2>2. CASE pc' = "acquired"
      BY <1>5, <2>2, FinishIsAbstract DEF Atomic!Next
    <2>3. CASE pc' \in {"failed", "rejected"}
      BY <2>1, <2>3, FailureIsAbstract DEF Atomic!Next, Ended
    <2> QED BY <1>5, <2>2, <2>3 DEF Finish
  <1>6. CASE ReadRef \/ ReadCommit \/ ReadRootTree \/ ReadPolicyTree
             \/ ReadComponentTree \/ RequestBlob \/ ReadBlob
    <2>1. pc \notin Ended /\ UNCHANGED <<repository, main, now, deadline, served>>
      BY <1>6 DEF ReadRef, ReadCommit, ReadRootTree, ReadPolicyTree, ReadComponentTree,
                  RequestBlob, ReadBlob, Refuse, Reject, Ended
    <2>2. pc' \in {"failed", "rejected"} \/ pc' \notin Ended
      BY <1>6 DEF ReadRef, ReadCommit, ReadRootTree, ReadPolicyTree, ReadComponentTree,
                  RequestBlob, ReadBlob, Refuse, Reject, Proceed, Ended
    <2> QED BY <2>1, <2>2, HiddenStep, FailureIsAbstract DEF Atomic!Next
  <1>7. CASE RequestFails \/ Timeout
    <2>1. /\ pc \notin Ended /\ pc' \in {"failed", "rejected"}
          /\ UNCHANGED <<repository, main, now, deadline, served>>
      BY <1>7 DEF RequestFails, Timeout, Refuse, Awaiting, Ended
    <2> QED BY <2>1, FailureIsAbstract DEF Atomic!Next
  <1>8. CASE UNCHANGED vars
    BY <1>8 DEF vars, outcomeMapping
  <1> QED BY <1>1, <1>2, <1>3, <1>4, <1>5, <1>6, <1>7, <1>8 DEF Next

(* The sequence of requests, replies and timers implements one atomic read *)
(* of the component's policy from main, or a failure: acquirePolicy never  *)
(* returns an empty or mixed set in place of an answer.                    *)
THEOREM AcquisitionIsAtomic == Spec => ImplementsAtomicSnapshot
  <1>1. Spec => Atomic!Init
    BY AbstractInit DEF Spec
  <1>2. IInv /\ IInv' /\ [Next]_vars =>
          [Atomic!Next]_<<repository, main, now, deadline, served, outcomeMapping>>
    BY AbstractStep
  <1> QED BY <1>1, <1>2, Invariance, PTL DEF Spec, ImplementsAtomicSnapshot, Atomic!Spec
=============================================================================
