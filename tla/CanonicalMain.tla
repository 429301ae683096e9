----------------------------- MODULE CanonicalMain -----------------------------
(***************************************************************************)
(* prepare.mts with the lookup of canonical-main.mts: one HTTPS request    *)
(* whose callbacks (response, data, end, error, close, timer) arrive in    *)
(* any order the network produces, late ones after the promise settled     *)
(* included, followed by the comparison of main with the run's revision.   *)
(***************************************************************************)
EXTENDS Integers

CONSTANTS
  Revisions,         \* commits of the component repository, in main order
  RunRevision,       \* GITHUB_SHA of this run
  ResponseLengths,   \* lengths of the bodies GitHub may answer with
  MaxResponseBytes,  \* 4096
  RequestTimeout,    \* 30 s
  MaxTime            \* bound on the clock

ASSUME LookupAssumption ==
  /\ Revisions \subseteq Nat
  /\ RunRevision \in Revisions
  /\ ResponseLengths \subseteq Nat
  /\ MaxResponseBytes \in Nat
  /\ RequestTimeout \in Nat
  /\ MaxTime \in Nat

VARIABLES
  main,       \* the component repository's main
  now,        \* performance.now()
  reply,      \* the response GitHub sends: head and body
  delivered,  \* bytes of the body handed to the response stream
  complete,   \* incoming.complete
  pc,         \* where prepareCandidate is, or the code it failed with
  deadline,   \* of the lookup
  timer,      \* the request timer is armed
  settled,    \* as in resolveCanonicalMain
  streams,    \* clientRequest and response, once assigned
  destroyed,  \* streams the code destroyed
  listening,  \* data and end handlers are installed
  received,   \* receivedBytes
  chunks,     \* bytes held in chunks
  promise,    \* pending, bytes or a failure code
  canonical,  \* canonicalSha
  asked       \* history: main when the lookup began

vars == <<main, now, reply, delivered, complete, pc, deadline, timer, settled,
          streams, destroyed, listening, received, chunks, promise, canonical, asked>>
network == <<main, now, reply, delivered, complete>>
lookup == <<deadline, timer, settled, streams, destroyed, listening, received,
            chunks, promise>>

NoReply == [status |-> 0, encoding |-> "none", length |-> 0, ref |-> "none", sha |-> 0]
NoRevision == 0

(* What GitHub may answer while main stands at a revision: the ref, some   *)
(* other valid JSON, a compressed body or an error page.                   *)
Replies(revision) ==
  [status : {200, 404}, encoding : {"identity", "gzip"}, length : ResponseLengths,
   ref : {"refs/heads/main", "other"}, sha : {revision}]

AnyReply == {NoReply} \cup UNION {Replies(r) : r \in Revisions}

FailureCodes ==
  {"canonical-main-unavailable", "canonical-main-timeout",
   "canonical-main-response-too-large", "canonical-main-invalid-response"}

(* The codes prepare.mts shows the operator, and where it may end.         *)
ContextCodes ==
  {"invalid-publication-context", "prepare-output-failed", "invalid-github-token"}
Ended == {"written", "stale-main-revision"} \cup ContextCodes \cup FailureCodes

-----------------------------------------------------------------------------
Init ==
  /\ main \in Revisions
  /\ now = 0
  /\ reply = NoReply
  /\ delivered = 0
  /\ complete = FALSE
  /\ pc = "idle"
  /\ deadline = 0
  /\ timer = FALSE
  /\ settled = FALSE
  /\ streams = {}
  /\ destroyed = {}
  /\ listening = FALSE
  /\ received = 0
  /\ chunks = 0
  /\ promise = "pending"
  /\ canonical = NoRevision
  /\ asked = NoRevision

(* Environment.                                                            *)
AdvanceMain ==
  /\ main' \in {r \in Revisions : r > main}
  /\ UNCHANGED <<now, reply, delivered, complete, pc, lookup, canonical, asked>>

Tick ==
  /\ now < MaxTime
  /\ now' = now + 1
  /\ UNCHANGED <<main, reply, delivered, complete, pc, lookup, canonical, asked>>

-----------------------------------------------------------------------------
(* Mutant: a failure after the promise settled is not ignored.             *)
FailAgain(code, assigned) ==
  /\ settled' = TRUE
  /\ timer' = FALSE
  /\ chunks' = 0
  /\ destroyed' = assigned
  /\ promise' = code

(* fail(code): the first failure settles the promise, clears the timer,    *)
(* drops the chunks and destroys the streams assigned so far.              *)
Fail(code, assigned) ==
  IF settled
  THEN UNCHANGED <<timer, settled, destroyed, chunks, promise>>
  ELSE /\ settled' = TRUE
       /\ timer' = FALSE
       /\ chunks' = 0
       /\ destroyed' = assigned
       /\ promise' = code

(* publicationContext, the API URL, the output path or the token is        *)
(* refused before anything is sent.                                        *)
RejectContext ==
  /\ pc = "idle"
  /\ pc' \in ContextCodes
  /\ UNCHANGED <<network, lookup, canonical, asked>>

(* Mutant: no timer is armed.                                              *)
BeginUntimed ==
  /\ pc = "idle"
  /\ now + RequestTimeout <= MaxTime
  /\ pc' = "lookup"
  /\ deadline' = now + RequestTimeout
  /\ streams' = {"request"}
  /\ asked' = main
  /\ UNCHANGED <<network, timer, settled, destroyed, chunks, promise, listening,
                 received, canonical>>

(* The context is valid; the timer is armed, then the request is sent, or  *)
(* request() or end() throws.                                              *)
Begin ==
  /\ pc = "idle"
  /\ now + RequestTimeout <= MaxTime
  /\ pc' = "lookup"
  /\ deadline' = now + RequestTimeout
  /\ \/ /\ streams' = {"request"}
        /\ timer' = TRUE
        /\ UNCHANGED <<settled, destroyed, chunks, promise>>
     \/ /\ streams' \in SUBSET {"request"}
        /\ Fail("canonical-main-unavailable", streams')
  /\ asked' = main
  /\ UNCHANGED <<network, listening, received, canonical>>

(* Mutant: a response arriving after the timeout is left open.             *)
OnResponseIgnored ==
  /\ "request" \in streams
  /\ "response" \notin streams
  /\ settled
  /\ reply' \in Replies(main)
  /\ streams' = streams \cup {"response"}
  /\ UNCHANGED <<main, now, delivered, complete, pc, deadline, timer, settled,
                 destroyed, listening, received, chunks, promise, canonical, asked>>

(* The response callback: handlers first, then the checks on the head.     *)
OnResponse ==
  /\ "request" \in streams
  /\ "response" \notin streams
  /\ \E r \in Replies(main) :
       /\ reply' = r
       /\ streams' = streams \cup {"response"}
       /\ \/ /\ settled
             /\ destroyed' = destroyed \cup {"response"}
             /\ UNCHANGED <<timer, settled, chunks, promise, listening>>
          \/ /\ ~settled /\ r.status # 200
             /\ Fail("canonical-main-unavailable", streams')
             /\ UNCHANGED listening
          \/ /\ ~settled /\ r.status = 200 /\ r.encoding # "identity"
             /\ Fail("canonical-main-invalid-response", streams')
             /\ UNCHANGED listening
          \/ /\ ~settled /\ r.status = 200 /\ r.encoding = "identity"
             /\ listening' = TRUE
             /\ UNCHANGED <<timer, settled, destroyed, chunks, promise>>
  /\ UNCHANGED <<main, now, delivered, complete, pc, deadline, received, canonical, asked>>

(* Mutant: the size of the body is not limited.                            *)
OnDataUnlimited ==
  /\ listening /\ ~complete
  /\ \E bytes \in 1 .. reply.length - delivered :
       /\ delivered' = delivered + bytes
       /\ \/ /\ settled
             /\ UNCHANGED <<received, chunks>>
          \/ /\ ~settled
             /\ received' = received + bytes
             /\ chunks' = chunks + bytes
  /\ UNCHANGED <<main, now, reply, complete, pc, deadline, timer, settled, streams,
                 destroyed, listening, promise, canonical, asked>>

(* One chunk of the body reaches the data handler.                         *)
OnData ==
  /\ listening /\ ~complete
  /\ \E bytes \in 1 .. reply.length - delivered :
       /\ delivered' = delivered + bytes
       /\ \/ /\ settled
             /\ UNCHANGED <<timer, settled, destroyed, received, chunks, promise>>
          \/ /\ ~settled /\ received + bytes > MaxResponseBytes
             /\ received' = received + bytes
             /\ Fail("canonical-main-response-too-large", streams)
          \/ /\ ~settled /\ received + bytes <= MaxResponseBytes
             /\ received' = received + bytes
             /\ chunks' = chunks + bytes
             /\ UNCHANGED <<timer, settled, destroyed, promise>>
  /\ UNCHANGED <<main, now, reply, complete, pc, deadline, streams, listening, canonical, asked>>

(* Mutant: a body cut by a broken connection is accepted.                  *)
OnEndUnchecked ==
  /\ listening /\ ~complete
  /\ complete' \in {FALSE, delivered = reply.length}
  /\ ~settled /\ now < deadline
  /\ settled' = TRUE
  /\ timer' = FALSE
  /\ chunks' = 0
  /\ promise' = "bytes"
  /\ UNCHANGED <<main, now, reply, delivered, pc, deadline, streams, destroyed,
                 listening, received, canonical, asked>>

(* The message ends: completely, or cut by a connection that broke.        *)
OnEnd ==
  /\ listening /\ ~complete
  /\ complete' \in {FALSE, delivered = reply.length}
  /\ \/ /\ ~settled /\ ~complete'
        /\ Fail("canonical-main-unavailable", streams)
     \/ /\ ~settled /\ complete' /\ now >= deadline
        /\ Fail("canonical-main-timeout", streams)
     \/ /\ ~settled /\ complete' /\ now < deadline
        /\ settled' = TRUE
        /\ timer' = FALSE
        /\ chunks' = 0
        /\ promise' = "bytes"
        /\ UNCHANGED destroyed
     \/ /\ settled
        /\ UNCHANGED <<timer, settled, destroyed, chunks, promise>>
  /\ UNCHANGED <<main, now, reply, delivered, pc, deadline, streams, listening,
                 received, canonical, asked>>

(* Error and close events of the two streams.                              *)
Interrupt ==
  /\ Fail("canonical-main-unavailable", streams)
  /\ UNCHANGED <<network, pc, deadline, streams, listening, received, canonical, asked>>

OnResponseError == "response" \in streams /\ Interrupt

OnResponseClose == "response" \in streams /\ ~complete /\ Interrupt

OnRequestErrorOrClose == "request" \in streams /\ Interrupt

OnTimer ==
  /\ timer
  /\ now >= deadline
  /\ Fail("canonical-main-timeout", streams)
  /\ UNCHANGED <<network, pc, deadline, streams, listening, received, canonical, asked>>

-----------------------------------------------------------------------------
(* The bytes are one JSON document naming main's commit; a cut body is not *)
(* valid JSON.                                                             *)
ParsedReply ==
  /\ received = reply.length /\ received > 0
  /\ reply.ref = "refs/heads/main"

(* Mutant: main may be ahead of this run.                                  *)
AcceptUncompared ==
  /\ promise = "bytes" /\ ParsedReply /\ now < deadline
  /\ canonical' = reply.sha
  /\ pc' = "current"

(* canonicalCommitSha, then the deadline once more, then the comparison    *)
(* with this run's revision.                                               *)
Accept ==
  /\ promise = "bytes" /\ ParsedReply /\ now < deadline
  /\ canonical' = reply.sha
  /\ pc' = IF reply.sha = RunRevision THEN "current" ELSE "stale-main-revision"

(* The await throws the code of the promise, or what follows it throws.    *)
Decline ==
  /\ \/ promise # "bytes" /\ pc' = promise
     \/ promise = "bytes" /\ ~ParsedReply /\ pc' = "canonical-main-invalid-response"
     \/ /\ promise = "bytes" /\ ParsedReply /\ now >= deadline
        /\ pc' = "canonical-main-timeout"
  /\ UNCHANGED canonical

(* The continuation of the await; any failure ends prepareCandidate.       *)
Resume ==
  /\ pc = "lookup"
  /\ promise # "pending"
  /\ Accept \/ Decline
  /\ UNCHANGED <<network, lookup, asked>>

(* The outputs are appended in one call, which may itself fail.            *)
AppendOutputs ==
  /\ pc = "current"
  /\ pc' \in {"written", "prepare-output-failed"}
  /\ UNCHANGED <<network, lookup, canonical, asked>>

Next ==
  \/ AdvanceMain \/ Tick \/ RejectContext \/ Begin
  \/ OnResponse \/ OnData \/ OnEnd
  \/ OnResponseError \/ OnResponseClose \/ OnRequestErrorOrClose \/ OnTimer
  \/ Resume \/ AppendOutputs

Spec == Init /\ [][Next]_vars

(* Time passes, a due timer runs and the continuation of an await is       *)
(* scheduled; the network owes nothing.                                    *)
FairSpec ==
  /\ Spec
  /\ WF_vars(Tick) /\ WF_vars(OnTimer) /\ WF_vars(Resume) /\ WF_vars(AppendOutputs)

-----------------------------------------------------------------------------
(* Properties.                                                             *)

(* Types of the lookup's variables (resolveCanonicalMain, prepareCandidate).*)
TypeOK ==
  /\ main \in Revisions
  /\ now \in 0 .. MaxTime /\ deadline \in 0 .. MaxTime
  /\ reply \in AnyReply
  /\ delivered \in 0 .. reply.length
  /\ pc \in {"idle", "lookup", "current"} \cup Ended
  /\ complete \in BOOLEAN /\ timer \in BOOLEAN
  /\ settled \in BOOLEAN /\ listening \in BOOLEAN
  /\ streams \subseteq {"request", "response"} /\ destroyed \subseteq streams
  /\ chunks \in 0 .. MaxResponseBytes /\ chunks <= received
  /\ received \in 0 .. delivered
  /\ promise \in FailureCodes \cup {"pending", "bytes"}
  /\ settled <=> promise # "pending"
  /\ canonical \in Revisions \cup {NoRevision}

(* The promise is resolved only with every byte of one complete, bounded,  *)
(* unencoded 200 answer, in whatever order the callbacks came.             *)
WholeAnswer ==
  promise = "bytes" =>
    /\ reply.status = 200 /\ reply.encoding = "identity"
    /\ complete
    /\ received = reply.length
    /\ received <= MaxResponseBytes

(* Once settled nothing keeps the process alive or holds the body: the     *)
(* timer is cleared, the chunks are dropped, and after a failure every     *)
(* stream is destroyed, one that opens afterwards too.                     *)
NothingLeftBehind ==
  settled => /\ ~timer
             /\ chunks = 0
             /\ promise # "bytes" => streams \subseteq destroyed

(* The first settlement wins: no later event changes the promise or        *)
(* destroys a stream whose answer was accepted.                            *)
FirstSettlementWins ==
  [][settled => /\ promise' = promise
                /\ promise = "bytes" => destroyed' = destroyed]_vars

(* Outputs are written only for a revision that was still main at some     *)
(* instant of the lookup: a run already stale when it asked writes none,   *)
(* although main may move on right after the answer.                       *)
OutputsOnlyWhileCurrent ==
  pc = "written" => asked <= RunRevision /\ RunRevision <= main

(* An answer that gives main's commit in a body of plain JSON.             *)
NamesMain(answer) ==
  answer.encoding = "identity" /\ answer.length > 0 /\ answer.ref = "refs/heads/main"

(* The code the operator is shown is true of what happened, in whatever    *)
(* chunks and with whatever breaks the answer came: the run is called      *)
(* stale only if another revision was main during the lookup, the response *)
(* too large or invalid only for what GitHub sent and not for how the      *)
(* connection delivered it, and the lookup too long only after the limit.  *)
RefusalIsTrue ==
  /\ pc = "stale-main-revision" =>
       \E r \in Revisions \ {RunRevision} : asked <= r /\ r <= main
  /\ pc = "canonical-main-response-too-large" => reply.length > MaxResponseBytes
  /\ pc = "canonical-main-invalid-response" => ~NamesMain(reply)
  /\ pc = "canonical-main-timeout" => now >= deadline

(* A lookup that began ends, whatever the network does.                    *)
LookupSettles == pc = "lookup" ~> pc \in Ended
=============================================================================
