---------------------------- MODULE AtomicSnapshot ----------------------------
(***************************************************************************)
(* What acquiring the exemption policy promises while the policy           *)
(* repository keeps moving: the acquisition opens one window of time, pins *)
(* the revision main has at one instant, and either fails or returns,      *)
(* within the window, exactly what that one revision approves.  It never   *)
(* substitutes an empty or a mixed set.                                    *)
(***************************************************************************)
EXTENDS Integers

CONSTANTS
  NoRevision,   \* nothing pinned yet
  Timeout,      \* the length of the window
  Lawful(_),    \* a policy tree that may be used
  Approved(_)   \* the records a lawful policy tree approves

VARIABLES
  repository,   \* the policy tree of every revision
  main,         \* the revision main points to
  now,          \* the clock
  deadline,     \* the end of the window, 0 before it opens
  pinned,       \* the revision this acquisition reads
  outcome       \* pending, failed or the acquired snapshot

Pending == [status |-> "pending"]
Failed == [status |-> "failed"]
Snapshot(revision) ==
  [status |-> "acquired", revision |-> revision,
   records |-> Approved(repository[revision])]

Init ==
  /\ main \in DOMAIN repository
  /\ now = 0
  /\ deadline = 0
  /\ pinned = NoRevision
  /\ outcome = Pending

(* Reviewed changes are merged at any time.                                *)
AdvanceMain ==
  /\ main' \in {r \in DOMAIN repository : r > main}
  /\ UNCHANGED <<repository, now, deadline, pinned, outcome>>

Tick ==
  /\ now' = now + 1
  /\ UNCHANGED <<repository, main, deadline, pinned, outcome>>

(* The window opens once, before anything is pinned.                       *)
Open ==
  /\ outcome = Pending
  /\ pinned = NoRevision
  /\ deadline = 0
  /\ deadline' = now + Timeout
  /\ UNCHANGED <<repository, main, now, pinned, outcome>>

Pin ==
  /\ outcome = Pending
  /\ pinned = NoRevision
  /\ pinned' = main
  /\ UNCHANGED <<repository, main, now, deadline, outcome>>

Return ==
  /\ outcome = Pending
  /\ pinned # NoRevision
  /\ now < deadline
  /\ Lawful(repository[pinned])
  /\ outcome' = Snapshot(pinned)
  /\ UNCHANGED <<repository, main, now, deadline, pinned>>

Fail ==
  /\ outcome = Pending
  /\ outcome' = Failed
  /\ UNCHANGED <<repository, main, now, deadline, pinned>>

Next == AdvanceMain \/ Tick \/ Open \/ Pin \/ Return \/ Fail

Spec == Init /\ [][Next]_<<repository, main, now, deadline, pinned, outcome>>
=============================================================================
