------------------------- MODULE CanonicalMainProofs -------------------------
(***************************************************************************)
(* Proofs about CanonicalMain, for any history of main, any response       *)
(* lengths, limit, timeout and clock: what a lookup accepts, what it       *)
(* leaves behind, and for which revisions outputs are written.             *)
(***************************************************************************)
EXTENDS CanonicalMain, TLAPS

(* Before the response there is nothing to listen to; handlers are only    *)
(* installed for an unencoded 200 answer.                                  *)
Head ==
  /\ "response" \notin streams => ~listening /\ delivered = 0 /\ received = 0 /\ ~complete
  /\ listening => /\ "response" \in streams
                  /\ reply.status = 200 /\ reply.encoding = "identity"

(* Until the promise settles every byte delivered is held, within the      *)
(* limit; a message that ended completely settles it.                      *)
Body ==
  /\ ~settled => received = delivered /\ chunks = received /\ received <= MaxResponseBytes
  /\ complete => settled
  /\ promise = "bytes" => listening

(* The revision of a reply was main at some instant since the lookup began.*)
Order ==
  /\ pc = "idle" => streams = {} /\ ~settled /\ ~timer
  /\ pc # "idle" /\ streams # {} => asked \in Nat /\ asked <= main
  /\ "response" \in streams => asked <= reply.sha /\ reply.sha <= main
  /\ "response" \in streams => reply.sha \in Nat
  /\ pc \in {"current", "written"} =>
       streams # {} /\ asked <= RunRevision /\ RunRevision <= main

(* The two halves of TypeOK: numbers and flags.                            *)
Counters ==
  /\ main \in Revisions /\ reply \in AnyReply
  /\ now \in 0 .. MaxTime /\ deadline \in 0 .. MaxTime
  /\ delivered \in 0 .. reply.length
  /\ chunks \in 0 .. MaxResponseBytes /\ chunks <= received
  /\ received \in 0 .. delivered
Flags ==
  /\ pc \in {"idle", "lookup", "current"} \cup Ended
  /\ complete \in BOOLEAN /\ timer \in BOOLEAN
  /\ settled \in BOOLEAN /\ listening \in BOOLEAN
  /\ streams \subseteq {"request", "response"} /\ destroyed \subseteq streams
  /\ promise \in FailureCodes \cup {"pending", "bytes"}
  /\ settled <=> promise # "pending"
  /\ canonical \in Revisions \cup {NoRevision}

IInv == TypeOK /\ Head /\ Body /\ Order /\ WholeAnswer /\ NothingLeftBehind

-----------------------------------------------------------------------------
(* What GitHub may answer has a natural length and names a revision.       *)
LEMMA ReplyType ==
  ASSUME NEW r \in Revisions, NEW answer \in Replies(r)
  PROVE  /\ answer.length \in Nat /\ answer.sha = r /\ answer.sha \in Nat
         /\ answer \in AnyReply
  <1>1. answer.length \in ResponseLengths /\ answer.sha = r
    BY DEF Replies
  <1>2. answer \in AnyReply
    BY DEF AnyReply
  <1>3. ResponseLengths \subseteq Nat /\ Revisions \subseteq Nat
    BY LookupAssumption
  <1> QED  BY <1>1, <1>2, <1>3

(* The announced length of the reply under way is a number.                *)
LEMMA LengthType == TypeOK => reply.length \in Nat
  <1>1. ASSUME NEW r \in Revisions, reply \in Replies(r) PROVE reply.length \in Nat
    BY <1>1, ReplyType
  <1>2. NoReply.length \in Nat
    BY DEF NoReply
  <1> QED  BY <1>1, <1>2 DEF TypeOK, AnyReply

(* The counters are natural numbers.                                       *)
LEMMA CounterType ==
  ASSUME TypeOK
  PROVE  /\ reply.length \in Nat /\ delivered \in Nat /\ delivered <= reply.length
         /\ received \in Nat /\ received <= delivered
         /\ chunks \in Nat /\ chunks <= received /\ chunks <= MaxResponseBytes
         /\ now \in Nat /\ deadline \in Nat /\ main \in Nat
         /\ MaxResponseBytes \in Nat
  <1>1. reply.length \in Nat
    BY LengthType
  <1>2. delivered \in 0 .. reply.length /\ received \in 0 .. delivered
    BY DEF TypeOK
  <1>3. /\ chunks \in 0 .. MaxResponseBytes /\ chunks <= received
        /\ now \in 0 .. MaxTime /\ deadline \in 0 .. MaxTime /\ main \in Revisions
    BY DEF TypeOK
  <1> QED  BY <1>1, <1>2, <1>3, LookupAssumption

(* Both halves make the type invariant, before and after a step.           *)
LEMMA Halves == /\ TypeOK <=> Counters /\ Flags
                /\ Counters' /\ Flags' => TypeOK'
  BY DEF TypeOK, Counters, Flags

(* Before anything happened.                                               *)
LEMMA InitEstablishes == Init => IInv
  <1> SUFFICES ASSUME Init PROVE IInv
    OBVIOUS
  <1>1. reply \in AnyReply /\ reply.length = 0
    BY DEF Init, AnyReply, NoReply
  <1>2. TypeOK
    <2>1. /\ main \in Revisions /\ now \in 0 .. MaxTime /\ deadline \in 0 .. MaxTime
          /\ delivered \in 0 .. reply.length /\ received \in 0 .. delivered
          /\ chunks \in 0 .. MaxResponseBytes /\ chunks <= received
      BY <1>1, LookupAssumption DEF Init
    <2>2. /\ complete \in BOOLEAN /\ timer \in BOOLEAN
          /\ settled \in BOOLEAN /\ listening \in BOOLEAN
          /\ settled <=> promise # "pending"
      BY DEF Init
    <2> QED  BY <1>1, <2>1, <2>2 DEF Init, TypeOK
  <1> QED  BY <1>2, LookupAssumption DEF Init, IInv, Head, Body, Order, WholeAnswer,
    NothingLeftBehind

(* A failure of the lookup settles it, keeps no byte and leaves no stream  *)
(* open; after a settlement it changes nothing.                            *)
LEMMA FailPreserves ==
  ASSUME IInv, NEW code \in FailureCodes, Fail(code, streams), pc # "idle",
         UNCHANGED <<main, now, reply, delivered, pc, deadline, streams, listening, received,
                     complete, canonical, asked>>
  PROVE  IInv'
  <1>1. CASE settled
    BY <1>1 DEF Fail, IInv, TypeOK, Head, Body, Order, WholeAnswer, NothingLeftBehind
  <1>2. CASE ~settled
    <2>1. /\ settled' = TRUE /\ timer' = FALSE /\ chunks' = 0 /\ destroyed' = streams
          /\ promise' = code /\ code # "pending" /\ code # "bytes"
      BY <1>2 DEF Fail, FailureCodes
    <2>2. TypeOK'
      <3>1. 0 \in 0 .. MaxResponseBytes /\ 0 <= received
        BY CounterType DEF IInv
      <3>2. code \in FailureCodes \cup {"pending", "bytes"}
        OBVIOUS
      <3> QED  BY <2>1, <3>1, <3>2 DEF IInv, TypeOK
    <2>3. Head' /\ Body' /\ Order'
      BY <1>2, <2>1 DEF IInv, Head, Body, Order
    <2>4. WholeAnswer' /\ NothingLeftBehind'
      BY <2>1 DEF WholeAnswer, NothingLeftBehind
    <2> QED  BY <2>2, <2>3, <2>4 DEF IInv
  <1> QED  BY <1>1, <1>2
-----------------------------------------------------------------------------
(* One lemma per callback.                                                 *)

(* Pushes to main and the clock.                                           *)
LEMMA EnvironmentPreserves == IInv /\ (AdvanceMain \/ Tick) => IInv'
  <1> SUFFICES ASSUME IInv, AdvanceMain \/ Tick PROVE IInv'
    OBVIOUS
  <1>0. UNCHANGED <<reply, delivered, complete, pc, deadline, timer, settled, streams,
                    destroyed, listening, received, chunks, promise, canonical, asked>>
    BY DEF AdvanceMain, Tick, lookup
  <1>1. /\ main' \in Revisions /\ main <= main' /\ main' \in Nat
        /\ now' \in 0 .. MaxTime
    <2>1. main \in Revisions /\ now \in 0 .. MaxTime /\ main \in Nat
      BY CounterType DEF IInv, TypeOK
    <2>2. CASE AdvanceMain
      BY <2>1, <2>2, LookupAssumption DEF AdvanceMain
    <2>3. CASE Tick
      BY <2>1, <2>3, LookupAssumption DEF Tick
    <2> QED  BY <2>2, <2>3
  <1>2. TypeOK'
    BY <1>0, <1>1 DEF IInv, TypeOK
  <1>3. Order'
    <2>1. asked \in Nat \/ ~(pc # "idle" /\ streams # {})
      BY DEF IInv, Order
    <2> QED  BY <1>0, <1>1, <2>1, CounterType, LookupAssumption DEF IInv, Order
  <1> QED  BY <1>0, <1>1, <1>2, <1>3 DEF IInv, Head, Body, WholeAnswer, NothingLeftBehind

(* The steps before the request: refused, sent, or failed to be sent.      *)
LEMMA BeginPreserves == IInv /\ (RejectContext \/ Begin) => IInv'
  <1> SUFFICES ASSUME IInv, RejectContext \/ Begin PROVE IInv'
    OBVIOUS
  <1>0. pc = "idle" /\ streams = {} /\ ~settled /\ ~timer
    BY DEF RejectContext, Begin, IInv, Order
  <1>1. CASE RejectContext
    <2>1. /\ pc' \in ContextCodes /\ UNCHANGED <<network, lookup, canonical, asked>>
          /\ pc' \notin {"current", "written"}
      BY <1>1 DEF RejectContext, ContextCodes
    <2>2. TypeOK'
      BY <2>1 DEF network, lookup, IInv, TypeOK, Ended
    <2>3. Order'
      BY <1>0, <2>1 DEF network, lookup, IInv, Order
    <2> QED  BY <2>1, <2>2, <2>3 DEF network, lookup, IInv, Head, Body, WholeAnswer,
      NothingLeftBehind
  <1>2. CASE Begin
    <2>1. /\ pc' = "lookup" /\ deadline' \in 0 .. MaxTime /\ asked' = main
          /\ UNCHANGED <<main, now, reply, delivered, complete, listening, received, canonical>>
      BY <1>2, LookupAssumption, CounterType DEF Begin, network, IInv
    <2>2. \/ /\ streams' = {"request"} /\ timer' = TRUE
             /\ UNCHANGED <<settled, destroyed, chunks, promise>>
          \/ /\ streams' \in SUBSET {"request"} /\ settled' = TRUE /\ timer' = FALSE
             /\ chunks' = 0 /\ destroyed' = streams'
             /\ promise' = "canonical-main-unavailable"
      BY <1>0, <1>2 DEF Begin, Fail
    <2>3. promise' \in FailureCodes \cup {"pending", "bytes"}
      BY <2>2 DEF IInv, TypeOK, FailureCodes
    <2>4. 0 \in 0 .. MaxResponseBytes /\ 0 <= received /\ destroyed = {}
      BY <1>0, CounterType DEF IInv, TypeOK
    <2>5. TypeOK'
      <3>1. Counters'
        <4>1. Counters
          BY Halves DEF IInv
        <4> QED  BY <2>1, <2>2, <2>4, <4>1 DEF Counters
      <3>2. settled' \in BOOLEAN /\ timer' \in BOOLEAN /\ (settled' <=> promise' # "pending")
        <4>1. settled \in BOOLEAN /\ (settled <=> promise # "pending")
          BY DEF IInv, TypeOK
        <4>2. \/ timer' = TRUE /\ settled' = settled /\ promise' = promise
              \/ settled' = TRUE /\ timer' = FALSE /\ promise' = "canonical-main-unavailable"
          BY <2>2
        <4>3. CASE settled' = settled /\ timer' = TRUE /\ promise' = promise
          BY <4>1, <4>3
        <4>4. CASE settled' = TRUE /\ timer' = FALSE /\ promise' = "canonical-main-unavailable"
          BY <4>4
        <4> QED  BY <4>2, <4>3, <4>4
      <3>3. streams' \subseteq {"request", "response"} /\ destroyed' \subseteq streams'
        BY <2>2, <2>4
      <3>4. Flags'
        BY <2>1, <2>3, <3>2, <3>3 DEF IInv, TypeOK, Flags
      <3> QED  BY <3>1, <3>4, Halves
    <2>6. Head' /\ Body' /\ WholeAnswer' /\ NothingLeftBehind'
      BY <1>0, <2>1, <2>2 DEF IInv, TypeOK, Head, Body, WholeAnswer, NothingLeftBehind
    <2>7. Order'
      BY <1>0, <2>1, <2>2, CounterType DEF IInv, Order
    <2> QED  BY <2>5, <2>6, <2>7 DEF IInv
  <1> QED  BY <1>1, <1>2

(* A response: late ones are destroyed at once.                            *)
LEMMA ResponsePreserves == IInv /\ OnResponse => IInv'
  <1> SUFFICES ASSUME IInv, OnResponse PROVE IInv'
    OBVIOUS
  <1>1. PICK r \in Replies(main) :
          /\ reply' = r
          /\ streams' = streams \cup {"response"}
          /\ \/ /\ settled
                /\ destroyed' = destroyed \cup {"response"}
                /\ UNCHANGED <<timer, settled, chunks, promise, listening>>
             \/ /\ ~settled
                /\ \/ Fail("canonical-main-unavailable", streams')
                   \/ Fail("canonical-main-invalid-response", streams')
                /\ UNCHANGED listening
             \/ /\ ~settled /\ r.status = 200 /\ r.encoding = "identity"
                /\ listening' = TRUE
                /\ UNCHANGED <<timer, settled, destroyed, chunks, promise>>
    BY DEF OnResponse
  <1>2. /\ UNCHANGED <<main, now, delivered, complete, pc, deadline, received, canonical, asked>>
        /\ "request" \in streams /\ "response" \notin streams
    BY DEF OnResponse
  <1>3. /\ r.length \in Nat /\ r.sha = main /\ r \in AnyReply /\ main \in Nat
    BY ReplyType, CounterType DEF IInv, TypeOK
  <1>4. /\ ~listening /\ delivered = 0 /\ received = 0 /\ ~complete /\ promise # "bytes"
        /\ chunks = 0 /\ pc # "idle"
    BY <1>2, CounterType DEF IInv, Head, Body, Order
  <1>5. Order'
    BY <1>1, <1>2, <1>3, <1>4 DEF IInv, Order
  <1>6. Counters'
    <2>1. Counters /\ 0 \in 0 .. MaxResponseBytes
      BY Halves, LookupAssumption DEF IInv
    <2>2. delivered' \in 0 .. (reply').length /\ received' \in 0 .. delivered'
      BY <1>1, <1>2, <1>3, <1>4
    <2>3. chunks' = 0
      BY <1>1, <1>4 DEF Fail
    <2> QED  BY <1>1, <1>2, <1>3, <1>4, <2>1, <2>2, <2>3 DEF Counters
  <1>7. CASE settled
    <2>1. TypeOK'
      BY <1>1, <1>2, <1>6, <1>7, Halves DEF IInv, Flags
    <2> QED  BY <1>1, <1>2, <1>4, <1>5, <1>7, <2>1
             DEF IInv, Head, Body, WholeAnswer, NothingLeftBehind
  <1>8. CASE ~settled /\ listening' = TRUE
    <2>1. /\ r.status = 200 /\ r.encoding = "identity"
          /\ UNCHANGED <<timer, settled, destroyed, chunks, promise>>
      BY <1>1, <1>4, <1>8 DEF Fail
    <2>2. TypeOK'
      BY <1>1, <1>2, <1>6, <1>8, <2>1, Halves DEF IInv, Flags
    <2> QED  BY <1>1, <1>2, <1>4, <1>5, <1>8, <2>1, <2>2
             DEF IInv, Head, Body, WholeAnswer, NothingLeftBehind
  <1>9. CASE ~settled /\ listening' # TRUE
    <2>1. /\ settled' = TRUE /\ timer' = FALSE /\ chunks' = 0 /\ destroyed' = streams'
          /\ promise' \in FailureCodes /\ listening' = listening
      BY <1>1, <1>9 DEF Fail, FailureCodes
    <2>2. promise' \notin {"pending", "bytes"}
      BY <2>1 DEF FailureCodes
    <2>3. TypeOK'
      BY <1>1, <1>2, <1>6, <2>1, <2>2, Halves DEF IInv, Flags
    <2> QED  BY <1>1, <1>2, <1>4, <1>5, <2>1, <2>2, <2>3
             DEF IInv, Head, Body, WholeAnswer, NothingLeftBehind
  <1> QED  BY <1>7, <1>8, <1>9

(* A chunk of the body: held while it fits, counted until the settlement.  *)
LEMMA DataPreserves == IInv /\ OnData => IInv'
  <1> SUFFICES ASSUME IInv, OnData PROVE IInv'
    OBVIOUS
  <1>1. PICK bytes \in 1 .. reply.length - delivered :
          /\ delivered' = delivered + bytes
          /\ \/ /\ settled
                /\ UNCHANGED <<timer, settled, destroyed, received, chunks, promise>>
             \/ /\ ~settled /\ received + bytes > MaxResponseBytes
                /\ received' = received + bytes
                /\ Fail("canonical-main-response-too-large", streams)
             \/ /\ ~settled /\ received + bytes <= MaxResponseBytes
                /\ received' = received + bytes
                /\ chunks' = chunks + bytes
                /\ UNCHANGED <<timer, settled, destroyed, promise>>
    BY DEF OnData
  <1>2. /\ UNCHANGED <<main, now, reply, complete, pc, deadline, streams, listening,
                       canonical, asked>>
        /\ listening /\ ~complete
    BY DEF OnData
  <1>3. /\ bytes \in Nat /\ bytes >= 1 /\ delivered + bytes <= reply.length
        /\ delivered \in Nat /\ reply.length \in Nat
        /\ received \in Nat /\ received <= delivered
        /\ chunks \in Nat /\ chunks <= received /\ MaxResponseBytes \in Nat
    BY <1>1, CounterType DEF IInv
  <1>4. Counters /\ Flags
    BY Halves DEF IInv
  <1>5. Head' /\ Order'
    BY <1>1, <1>2 DEF Fail, IInv, Head, Order
  <1>6. promise # "bytes" /\ (~settled => received = delivered /\ chunks = received)
    BY <1>2 DEF IInv, WholeAnswer, Body
  <1>7. CASE settled
    <2>1. Counters'
      BY <1>1, <1>2, <1>3, <1>4, <1>7 DEF Counters
    <2>2. Flags'
      BY <1>1, <1>2, <1>4, <1>7 DEF Flags
    <2> QED  BY <1>1, <1>2, <1>5, <1>6, <1>7, <2>1, <2>2, Halves
             DEF IInv, Body, WholeAnswer, NothingLeftBehind
  <1>8. CASE ~settled /\ received + bytes > MaxResponseBytes
    <2>1. /\ received' = received + bytes /\ settled' = TRUE /\ timer' = FALSE
          /\ chunks' = 0 /\ destroyed' = streams
          /\ promise' = "canonical-main-response-too-large"
      BY <1>1, <1>3, <1>8 DEF Fail
    <2>2. Counters'
      BY <1>1, <1>2, <1>3, <1>4, <1>6, <1>8, <2>1 DEF Counters
    <2>3. Flags'
      BY <1>2, <1>4, <2>1 DEF Flags, FailureCodes
    <2> QED  BY <1>2, <1>5, <2>1, <2>2, <2>3, Halves
             DEF IInv, Body, WholeAnswer, NothingLeftBehind
  <1>9. CASE ~settled /\ received + bytes <= MaxResponseBytes
    <2>1. /\ received' = received + bytes /\ chunks' = chunks + bytes
          /\ UNCHANGED <<timer, settled, destroyed, promise>>
      BY <1>1, <1>3, <1>9
    <2>2. Counters'
      BY <1>1, <1>2, <1>3, <1>4, <1>6, <1>9, <2>1 DEF Counters
    <2>3. Flags'
      BY <1>2, <1>4, <2>1 DEF Flags
    <2>4. Body'
      BY <1>1, <1>2, <1>3, <1>6, <1>9, <2>1 DEF IInv, Body
    <2> QED  BY <1>2, <1>5, <1>6, <1>9, <2>1, <2>2, <2>3, <2>4, Halves
             DEF IInv, WholeAnswer, NothingLeftBehind
  <1> QED  BY <1>3, <1>7, <1>8, <1>9

(* The end of the message settles the promise: with every byte of the      *)
(* answer, or with a failure.                                              *)
LEMMA EndPreserves == IInv /\ OnEnd => IInv'
  <1> SUFFICES ASSUME IInv, OnEnd PROVE IInv'
    OBVIOUS
  <1>1. /\ UNCHANGED <<main, now, reply, delivered, pc, deadline, streams, listening,
                       received, canonical, asked>>
        /\ listening /\ ~complete
        /\ complete' \in {FALSE, delivered = reply.length}
    BY DEF OnEnd
  <1>2. Counters /\ Flags /\ (settled => promise # "bytes")
    BY <1>1, Halves DEF IInv, WholeAnswer
  <1>3. complete' \in BOOLEAN /\ (complete' => delivered = reply.length)
    BY <1>1
  <1>4. Head' /\ Order'
    <2>1. "response" \in streams /\ pc # "idle"
      BY <1>1 DEF IInv, Head, Order
    <2> QED  BY <1>1, <2>1 DEF IInv, Head, Order
  <1>5. CASE settled
    <2>1. UNCHANGED <<timer, settled, destroyed, chunks, promise>>
      BY <1>5 DEF OnEnd
    <2>2. Counters' /\ Flags'
      BY <1>1, <1>2, <1>3, <2>1 DEF Counters, Flags
    <2> QED  BY <1>1, <1>2, <1>4, <1>5, <2>1, <2>2, Halves
             DEF IInv, Body, WholeAnswer, NothingLeftBehind
  <1>6. CASE ~settled
    <2>1. /\ settled' = TRUE /\ timer' = FALSE /\ chunks' = 0
          /\ \/ /\ complete' /\ promise' = "bytes" /\ UNCHANGED destroyed
             \/ /\ promise' \in FailureCodes /\ destroyed' = streams
      BY <1>6 DEF OnEnd, Fail, FailureCodes
    <2>2. 0 \in 0 .. MaxResponseBytes /\ 0 <= received
      BY CounterType DEF IInv
    <2>3. Counters'
      BY <1>1, <1>2, <2>1, <2>2 DEF Counters
    <2>4. promise' # "pending" /\ promise' \in FailureCodes \cup {"pending", "bytes"}
      BY <2>1 DEF FailureCodes
    <2>5. Flags'
      BY <1>1, <1>2, <1>3, <2>1, <2>4 DEF Flags
    <2>6. received = delivered /\ received <= MaxResponseBytes
          /\ reply.status = 200 /\ reply.encoding = "identity"
      BY <1>1, <1>6 DEF IInv, Head, Body
    <2>7. Body' /\ WholeAnswer'
      BY <1>1, <1>3, <2>1, <2>6 DEF Body, WholeAnswer, FailureCodes
    <2>8. NothingLeftBehind'
      BY <1>1, <2>1 DEF NothingLeftBehind
    <2> QED  BY <1>4, <2>3, <2>5, <2>7, <2>8, Halves DEF IInv
  <1> QED  BY <1>5, <1>6

(* Errors, closed streams and the timer are failures of a lookup that      *)
(* began.                                                                  *)
LEMMA InterruptPreserves ==
  IInv /\ (OnResponseError \/ OnResponseClose \/ OnRequestErrorOrClose \/ OnTimer) => IInv'
  <1> SUFFICES ASSUME IInv,
                      OnResponseError \/ OnResponseClose \/ OnRequestErrorOrClose \/ OnTimer
               PROVE  IInv'
    OBVIOUS
  <1>1. \E code \in FailureCodes : Fail(code, streams)
    BY DEF OnResponseError, OnResponseClose, OnRequestErrorOrClose, OnTimer, Interrupt,
      FailureCodes
  <1>2. UNCHANGED <<main, now, reply, delivered, pc, deadline, streams, listening, received,
                    complete, canonical, asked>>
    BY DEF OnResponseError, OnResponseClose, OnRequestErrorOrClose, OnTimer, Interrupt, network
  <1>3. pc # "idle"
    BY DEF OnResponseError, OnResponseClose, OnRequestErrorOrClose, OnTimer, IInv, Order
  <1> QED  BY <1>1, <1>2, <1>3, FailPreserves

(* The continuation and the outputs: the revision named by the answer was  *)
(* main since the lookup began.                                            *)
LEMMA ResumePreserves == IInv /\ (Resume \/ AppendOutputs) => IInv'
  <1> SUFFICES ASSUME IInv, Resume \/ AppendOutputs PROVE IInv'
    OBVIOUS
  <1>1. UNCHANGED <<main, now, reply, delivered, complete, deadline, timer, settled, streams,
                    destroyed, listening, received, chunks, promise, asked>>
    BY DEF Resume, AppendOutputs, network, lookup
  <1>2. Counters /\ Flags
    BY Halves DEF IInv
  <1>3. Counters'
    BY <1>1, <1>2 DEF Counters
  <1>4. Head' /\ Body' /\ WholeAnswer' /\ NothingLeftBehind'
    BY <1>1 DEF IInv, Head, Body, WholeAnswer, NothingLeftBehind
  <1>5. CASE AppendOutputs
    <2>1. /\ pc = "current" /\ pc' \in {"written", "prepare-output-failed"}
          /\ UNCHANGED canonical
      BY <1>5 DEF AppendOutputs
    <2>2. Flags'
      BY <1>1, <1>2, <2>1 DEF Flags, Ended, ContextCodes
    <2>3. Order'
      BY <1>1, <2>1 DEF IInv, Order
    <2> QED  BY <1>3, <1>4, <2>2, <2>3, Halves DEF IInv
  <1>6. CASE Resume
    <2>1. "response" \in streams \/ promise # "bytes"
      BY DEF IInv, Body, Head
    <2>2. CASE Accept
      <3>1. /\ canonical' = reply.sha /\ promise = "bytes"
            /\ pc' = IF reply.sha = RunRevision THEN "current" ELSE "stale-main-revision"
        BY <2>2 DEF Accept
      <3>2. reply # NoReply
        BY <3>1 DEF IInv, WholeAnswer, NoReply
      <3>3. PICK r \in Revisions : reply \in Replies(r)
        BY <1>2, <3>2 DEF Counters, AnyReply
      <3>4. reply.sha \in Revisions
        BY <3>3, ReplyType
      <3>5. Flags'
        BY <1>1, <1>2, <3>1, <3>4 DEF Flags, Ended
      <3>6. Order'
        BY <1>1, <2>1, <3>1 DEF IInv, Order
      <3> QED  BY <1>3, <1>4, <3>5, <3>6, Halves DEF IInv
    <2>3. CASE Decline
      <3>1. pc = "lookup" /\ pc' \in FailureCodes /\ UNCHANGED canonical
        BY <1>2, <1>6, <2>3 DEF Resume, Decline, Flags, FailureCodes
      <3>2. Flags'
        BY <1>1, <1>2, <3>1 DEF Flags, Ended
      <3>3. Order'
        BY <1>1, <3>1 DEF IInv, Order, FailureCodes
      <3> QED  BY <1>3, <1>4, <3>2, <3>3, Halves DEF IInv
    <2>4. Accept \/ Decline
      BY <1>6 DEF Resume
    <2> QED  BY <2>2, <2>3, <2>4
  <1> QED  BY <1>5, <1>6
-----------------------------------------------------------------------------
(* The inductive invariant holds in every reachable state of the lookup,   *)
(* with no assumption on the order of the network's events.                *)
THEOREM Invariance == Spec => []IInv
  <1>1. IInv /\ [Next]_vars => IInv'
    <2> SUFFICES ASSUME IInv, [Next]_vars PROVE IInv'
      OBVIOUS
    <2>1. CASE UNCHANGED vars
      BY <2>1 DEF vars, IInv, TypeOK, Head, Body, Order, WholeAnswer, NothingLeftBehind
    <2>2. CASE Next
      BY <2>2, EnvironmentPreserves, BeginPreserves, ResponsePreserves, DataPreserves,
        EndPreserves, InterruptPreserves, ResumePreserves DEF Next
    <2> QED  BY <2>1, <2>2
  <1> QED  BY InitEstablishes, <1>1, PTL DEF Spec

(* Every variable of the lookup keeps its type: in particular no more than *)
(* MaxResponseBytes of a body are ever held.                               *)
THEOREM TypeCorrect == Spec => []TypeOK
  <1>1. IInv => TypeOK
    BY DEF IInv
  <1> QED  BY Invariance, <1>1, PTL

(* canonical-main.mts 93-107: the promise is resolved only with every byte *)
(* of one complete, bounded, unencoded 200 answer.                         *)
THEOREM AnswersAreWhole == Spec => []WholeAnswer
  <1>1. IInv => WholeAnswer
    BY DEF IInv
  <1> QED  BY Invariance, <1>1, PTL

(* canonical-main.mts 58-66 and 86: a settled lookup holds no timer, no    *)
(* byte and, after a failure, no open stream.                              *)
THEOREM NothingStaysBehind == Spec => []NothingLeftBehind
  <1>1. IInv => NothingLeftBehind
    BY DEF IInv
  <1> QED  BY Invariance, <1>1, PTL

(* prepare.mts 37: outputs are written only for a revision that was main   *)
(* at some instant of the lookup.                                          *)
THEOREM OutputsAreCurrent == Spec => []OutputsOnlyWhileCurrent
  <1>1. IInv => OutputsOnlyWhileCurrent
    BY DEF IInv, Order, OutputsOnlyWhileCurrent
  <1> QED  BY Invariance, <1>1, PTL

(* canonical-main.mts 58-66: whichever event settles the promise, no later *)
(* one changes its outcome or destroys a stream whose answer was accepted. *)
THEOREM FirstOutcomeStays == Spec => FirstSettlementWins
  <1>1. IInv /\ [Next]_vars =>
          [settled => /\ promise' = promise
                      /\ promise = "bytes" => destroyed' = destroyed]_vars
    <2> SUFFICES ASSUME IInv, Next, settled
                 PROVE  /\ promise' = promise
                        /\ promise = "bytes" => destroyed' = destroyed
      OBVIOUS
    <2>1. pc # "idle" /\ (promise = "bytes" => "response" \in streams)
      BY DEF IInv, Order, Body, Head
    <2> QED  BY <2>1 DEF Next, AdvanceMain, Tick, RejectContext, Begin, OnResponse, OnData,
      OnEnd, OnResponseError, OnResponseClose, OnRequestErrorOrClose, OnTimer, Interrupt,
      Resume, Accept, Decline, AppendOutputs, Fail, lookup
  <1> QED  BY Invariance, <1>1, PTL DEF Spec, FirstSettlementWins

-----------------------------------------------------------------------------
(* The code of a refusal is true.                                          *)

(* What a code of the promise, or of the refusal it becomes, rests on.     *)
Cause ==
  /\ promise = "canonical-main-response-too-large" =>
       "response" \in streams /\ reply.length > MaxResponseBytes
  /\ promise = "canonical-main-invalid-response" =>
       "response" \in streams /\ ~NamesMain(reply)
  /\ promise = "canonical-main-timeout" => now >= deadline
  /\ pc \in {"stale-main-revision", "canonical-main-response-too-large",
            "canonical-main-invalid-response"} => "response" \in streams

CInv == Cause /\ RefusalIsTrue

(* Pushes to main, the clock and a refused context change no cause.        *)
LEMMA EnvironmentKeepsCause ==
  ASSUME IInv, CInv, AdvanceMain \/ Tick \/ RejectContext
  PROVE  CInv'
  <1>1. CASE RejectContext
    <2>1. pc' \in ContextCodes /\ UNCHANGED <<main, now, reply, deadline, streams, promise>>
      BY <1>1 DEF RejectContext, network, lookup
    <2> QED  BY <2>1 DEF CInv, Cause, RefusalIsTrue, ContextCodes, NamesMain
  <1>2. CASE AdvanceMain \/ Tick
    <2>1. /\ UNCHANGED <<reply, pc, deadline, streams, promise, asked>>
          /\ now \in Nat /\ deadline \in Nat /\ now' \in Nat /\ now <= now'
      BY <1>2, CounterType DEF AdvanceMain, Tick, lookup, IInv
    <2>2. main \in Nat /\ main' \in Nat /\ main <= main'
      <3>1. main \in Nat
        BY CounterType DEF IInv
      <3>2. main' = main \/ (main' \in Revisions /\ main' > main)
        BY <1>2 DEF AdvanceMain, Tick
      <3>3. CASE main' = main
        BY <3>1, <3>3
      <3>4. CASE main' \in Revisions /\ main' > main
        BY <3>1, <3>4, LookupAssumption
      <3> QED  BY <3>2, <3>3, <3>4
    <2>3. Cause'
      BY <2>1 DEF CInv, Cause, NamesMain
    <2>4. pc # "idle" /\ "response" \in streams => asked \in Nat
      BY DEF IInv, Order
    <2>5. pc = "stale-main-revision" =>
            \E r \in Revisions \ {RunRevision} : asked <= r /\ r <= main'
      BY <2>2, <2>4, LookupAssumption DEF CInv, Cause, RefusalIsTrue
    <2> QED  BY <2>1, <2>3, <2>5 DEF CInv, RefusalIsTrue, NamesMain
  <1> QED  BY <1>1, <1>2

(* Nothing is refused before or while the lookup runs, so a callback or    *)
(* the start of the request only has to keep the promise's cause.          *)
LEMMA CauseSuffices ==
  ASSUME CInv, Cause',
         \/ pc' \in {"idle", "lookup", "current"}
         \/ UNCHANGED <<main, now, pc, deadline, asked>>,
         "response" \in streams => reply' = reply
  PROVE  CInv'
  <1>1. CASE pc' \in {"idle", "lookup", "current"}
    BY <1>1 DEF CInv, RefusalIsTrue
  <1>2. CASE UNCHANGED <<main, now, pc, deadline, asked>>
    BY <1>2 DEF CInv, Cause, RefusalIsTrue, NamesMain
  <1> QED  BY <1>1, <1>2

(* The head of a response is refused for what it says.                     *)
LEMMA ResponseKeepsCause == ASSUME IInv, CInv, OnResponse PROVE CInv'
  <1>1. PICK r \in Replies(main) :
          /\ reply' = r
          /\ streams' = streams \cup {"response"}
          /\ \/ promise' = promise
             \/ promise' = "canonical-main-unavailable"
             \/ promise' = "canonical-main-invalid-response" /\ r.encoding # "identity"
    BY DEF OnResponse, Fail
  <1>2. "response" \notin streams /\ UNCHANGED <<main, now, pc, deadline, asked>>
    BY DEF OnResponse
  <1>3. Cause'
    BY <1>1, <1>2 DEF CInv, Cause, NamesMain
  <1> QED  BY <1>2, <1>3, CauseSuffices

(* A body is only too large if GitHub's is: until the promise settles the  *)
(* bytes received are those delivered.                                     *)
LEMMA DataKeepsCause == ASSUME IInv, CInv, OnData PROVE CInv'
  <1>1. PICK bytes \in 1 .. reply.length - delivered :
          \/ promise' = promise
          \/ /\ ~settled /\ received + bytes > MaxResponseBytes
             /\ promise' = "canonical-main-response-too-large"
    BY DEF OnData, Fail
  <1>2. /\ UNCHANGED <<main, now, reply, pc, deadline, streams, asked>>
        /\ listening
    BY DEF OnData
  <1>3. /\ "response" \in streams /\ (~settled => received = delivered)
        /\ received \in Nat /\ delivered \in Nat /\ reply.length \in Nat
        /\ MaxResponseBytes \in Nat
    BY <1>2, CounterType DEF IInv, Head, Body
  <1>4. CASE promise' = promise
    <2>1. Cause'
      BY <1>2, <1>4 DEF CInv, Cause, NamesMain
    <2> QED  BY <1>2, <2>1, CauseSuffices
  <1>5. CASE /\ ~settled /\ received + bytes > MaxResponseBytes
             /\ promise' = "canonical-main-response-too-large"
    <2>1. reply.length > MaxResponseBytes
      BY <1>3, <1>5
    <2>2. Cause'
      BY <1>2, <1>3, <1>5, <2>1 DEF CInv, Cause
    <2> QED  BY <1>2, <2>2, CauseSuffices
  <1> QED  BY <1>1, <1>4, <1>5

(* The end of the message, errors, closed streams, the timer and a request *)
(* that cannot be sent: late only after the deadline, else unavailable.    *)
LEMMA SettlementKeepsCause ==
  ASSUME IInv, CInv,
         Begin \/ OnEnd \/ OnResponseError \/ OnResponseClose \/ OnRequestErrorOrClose \/ OnTimer
  PROVE  CInv'
  <1>1. CASE Begin
    <2>1. /\ pc' = "lookup" /\ pc = "idle"
          /\ promise' \in {promise, "canonical-main-unavailable"}
      BY <1>1 DEF Begin, Fail
    <2>2. promise = "pending"
      BY <2>1 DEF IInv, Order, TypeOK
    <2>3. Cause'
      BY <2>1, <2>2 DEF Cause
    <2> QED  BY <2>1, <2>3 DEF CInv, RefusalIsTrue
  <1>2. CASE OnEnd \/ OnResponseError \/ OnResponseClose \/ OnRequestErrorOrClose \/ OnTimer
    <2>1. /\ UNCHANGED <<main, now, reply, pc, deadline, streams, asked>>
          /\ \/ promise' \in {promise, "canonical-main-unavailable", "bytes"}
             \/ promise' = "canonical-main-timeout" /\ now >= deadline
      BY <1>2 DEF OnEnd, OnResponseError, OnResponseClose, OnRequestErrorOrClose, OnTimer,
        Interrupt, Fail, network
    <2>2. Cause'
      BY <2>1 DEF CInv, Cause, NamesMain
    <2> QED  BY <2>1, <2>2, CauseSuffices
  <1> QED  BY <1>1, <1>2

(* The continuation turns a cause into the code shown: a whole answer that *)
(* does not parse does not name main.                                      *)
LEMMA ResumeKeepsCause == ASSUME IInv, CInv, Resume \/ AppendOutputs PROVE CInv'
  <1>1. UNCHANGED <<main, now, reply, deadline, streams, received, promise, asked>>
    BY DEF Resume, AppendOutputs, network, lookup
  <1>2. CASE AppendOutputs
    <2>1. pc' \in {"written", "prepare-output-failed"}
      BY <1>2 DEF AppendOutputs
    <2> QED  BY <1>1, <2>1 DEF CInv, Cause, RefusalIsTrue, NamesMain
  <1>3. promise = "bytes" => "response" \in streams
    BY DEF IInv, Body, Head
  <1>4. CASE Resume /\ Accept
    <2>1. /\ promise = "bytes"
          /\ pc' = IF reply.sha = RunRevision THEN "current" ELSE "stale-main-revision"
      BY <1>4 DEF Accept
    <2>2. Cause'
      BY <1>1, <1>3, <2>1 DEF Cause
    <2>3. reply # NoReply
      BY <2>1 DEF IInv, WholeAnswer, NoReply
    <2>4. PICK r \in Revisions : reply \in Replies(r)
      BY <2>3 DEF IInv, TypeOK, AnyReply
    <2>5. reply.sha \in Revisions /\ asked <= reply.sha /\ reply.sha <= main
      BY <1>3, <2>1, <2>4, ReplyType DEF IInv, Order
    <2>6. RefusalIsTrue'
      BY <1>1, <2>1, <2>5 DEF RefusalIsTrue
    <2> QED  BY <2>2, <2>6 DEF CInv
  <1>5. CASE Resume /\ Decline
    <2>1. \/ promise \in FailureCodes /\ pc' = promise
          \/ promise = "bytes" /\ ~ParsedReply /\ pc' = "canonical-main-invalid-response"
          \/ promise = "bytes" /\ now >= deadline /\ pc' = "canonical-main-timeout"
      BY <1>5 DEF Resume, Decline, IInv, TypeOK
    <2>2. CASE promise \in FailureCodes /\ pc' = promise
      BY <1>1, <2>2 DEF CInv, Cause, RefusalIsTrue, NamesMain, FailureCodes
    <2>3. CASE promise = "bytes" /\ ~ParsedReply /\ pc' = "canonical-main-invalid-response"
      <3>1. received = reply.length /\ received \in Nat
        BY <2>3, CounterType DEF IInv, WholeAnswer
      <3>2. ~NamesMain(reply)
        BY <2>3, <3>1 DEF ParsedReply, NamesMain
      <3> QED  BY <1>1, <1>3, <2>3, <3>2 DEF CInv, Cause, RefusalIsTrue, NamesMain
    <2>4. CASE promise = "bytes" /\ now >= deadline /\ pc' = "canonical-main-timeout"
      BY <1>1, <2>4 DEF CInv, Cause, RefusalIsTrue
    <2> QED  BY <2>1, <2>2, <2>3, <2>4
  <1> QED  BY <1>2, <1>4, <1>5 DEF Resume

(* canonical-main.mts 58-117 and prepare.mts 37: the code an operator is   *)
(* shown for a refused run is true of main, of GitHub's answer and of the  *)
(* clock, however the answer was delivered or broken off.                  *)
THEOREM RefusalsAreTrue == Spec => []RefusalIsTrue
  <1>1. Init => CInv
    BY DEF Init, CInv, Cause, RefusalIsTrue
  <1>2. IInv /\ CInv /\ [Next]_vars => CInv'
    <2> SUFFICES ASSUME IInv, CInv, [Next]_vars PROVE CInv'
      OBVIOUS
    <2>1. CASE UNCHANGED vars
      BY <2>1 DEF vars, CInv, Cause, RefusalIsTrue, NamesMain
    <2>2. CASE Next
      BY <2>2, EnvironmentKeepsCause, ResponseKeepsCause, DataKeepsCause,
        SettlementKeepsCause, ResumeKeepsCause DEF Next
    <2> QED  BY <2>1, <2>2
  <1>3. CInv => RefusalIsTrue
    BY DEF CInv
  <1> QED  BY <1>1, <1>2, <1>3, Invariance, PTL DEF Spec
=============================================================================
