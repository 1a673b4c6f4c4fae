--------------------------- MODULE Uploads_proofs ---------------------------
(***************************************************************************)
(* An upload in parts, resumed, aborted and interrupted as often as one    *)
(* likes, implements the atomic upload of SourceUpload.                    *)
(***************************************************************************)
EXTENDS Uploads, TLAPS

\* A call's record against the parts the store holds, whether it still takes
\* parts, and the object.
RecOK(k, stock, open, obj) ==
  /\ k.pc = "run" => Parts \subseteq k.completed \cup k.remaining \cup Sending(k)
  /\ k.pc \in {"complete", "mark", "done", "submitted"} => k.completed = Parts
  /\ open => k.completed \subseteq stock
  /\ Sending(k) \cap (k.completed \cup k.remaining) = {}
  /\ \A l, m \in Loops : k.part[l] = k.part[m] => l = m \/ k.part[l] = None
  /\ k.completed \cap k.remaining = {}
  /\ \A l \in k.stored : k.part[l] # None /\ (open => k.part[l] \in stock)
  /\ k.pc \in {"mark", "done", "submitted"} => obj = Parts

CallOK(c) == RecOK(call[c], received, multipart # "closed", object)

\* A client that has aborted the upload, and one that has submitted a job.
OtherOK(a) ==
  /\ other[a] \in {"mark", "done"} => object = {} /\ multipart = "closed"
  /\ other[a] = "submitted" => object = Parts

StoreOK ==
  /\ object \in {{}, Parts}
  /\ object # {} => multipart = "closed"
  /\ multipart = "none" <=> initiate = "new"
  /\ session = "completed" => object = Parts
  /\ session = "aborted" => object = {} /\ multipart = "closed"

\* The inductive invariant.
UploadOK ==
  /\ TypeOK
  /\ StoreOK
  /\ \A c \in Calls : CallOK(c)
  /\ \A a \in Others : OtherOK(a)

-----------------------------------------------------------------------------

LEMMA InitUploadOK == Init => UploadOK
<1> SUFFICES ASSUME Init PROVE UploadOK
  OBVIOUS
<1> USE UploadsAssumption
<1>1. TypeOK
  BY DEF Init, TypeOK, Call, NoPart
<1>2. StoreOK
  BY DEF Init, StoreOK
<1>3. ASSUME NEW c \in Calls PROVE CallOK(c)
  <2> DEFINE k == [ pc |-> "idle", completed |-> {}, remaining |-> {},
                    part |-> NoPart, stored |-> {} ]
  <2>1. call[c] = k
    BY DEF Init
  <2>2. Sending(k) = {}
    BY DEF Sending, NoPart
  <2> QED
    BY <2>1, <2>2 DEF CallOK, RecOK, NoPart
<1>4. ASSUME NEW a \in Others PROVE OtherOK(a)
  BY DEF Init, OtherOK
<1> QED
  BY <1>1, <1>2, <1>3, <1>4 DEF UploadOK

\* What a record keeps when others store parts, or the upload is closed.
LEMMA RecMonotone ==
  ASSUME NEW k, NEW stock, NEW open \in BOOLEAN, NEW obj,
         NEW stock2, NEW open2 \in BOOLEAN, NEW obj2,
         RecOK(k, stock, open, obj), open2 => open /\ stock \subseteq stock2,
         obj = Parts => obj2 = Parts
  PROVE  RecOK(k, stock2, open2, obj2)
BY DEF RecOK

\* A step of one call that closes nothing.
LEMMA CallFrame ==
  ASSUME UploadOK, NEW c \in Calls, NEW r \in Call,
         call' = [call EXCEPT ![c] = r],
         UNCHANGED <<initiate, multipart, object, other>>,
         received \subseteq received', received' \subseteq Parts,
         failures' \in Nat,
         session' = session \/ (session' = "completed" /\ object = Parts),
         RecOK(r, received', multipart # "closed", object)
  PROVE  UploadOK'
<1>1. /\ call'[c] = r
      /\ \A d \in Calls \ {c} : call'[d] = call[d]
      /\ call' \in [Calls -> Call]
  BY DEF UploadOK, TypeOK
<1>2. TypeOK' /\ StoreOK'
  BY <1>1 DEF UploadOK, TypeOK, StoreOK
<1>3. ASSUME NEW d \in Calls PROVE CallOK(d)'
  <2>1. CASE d = c
    BY <1>1, <2>1 DEF CallOK
  <2>2. CASE d # c
    <3>1. RecOK(call[d], received, multipart # "closed", object)
      BY DEF UploadOK, CallOK
    <3>2. /\ (multipart # "closed") \in BOOLEAN
          /\ multipart # "closed" => multipart # "closed" /\ received \subseteq received'
          /\ object = Parts => object = Parts
      OBVIOUS
    <3>3. RecOK(call[d], received', multipart # "closed", object)
      BY ONLY <3>1, <3>2, RecMonotone
    <3> QED
      BY <1>1, <2>2, <3>3 DEF CallOK
  <2> QED
    BY <2>1, <2>2
<1>4. ASSUME NEW a \in Others PROVE OtherOK(a)'
  BY DEF UploadOK, OtherOK
<1> QED
  BY <1>2, <1>3, <1>4 DEF UploadOK

\* A step of another client, or of the handler that creates the upload.
LEMMA OtherFrame ==
  ASSUME UploadOK, UNCHANGED <<object, call>>, TypeOK', StoreOK',
         \A a \in Others : OtherOK(a)',
         multipart' # "closed" => received' = received /\ multipart # "closed"
  PROVE  UploadOK'
<1>1. ASSUME NEW c \in Calls PROVE CallOK(c)'
  <2>1. RecOK(call[c], received, multipart # "closed", object)
    BY DEF UploadOK, CallOK
  <2>2. RecOK(call[c], received', multipart' # "closed", object)
    BY <1>1, <2>1, RecMonotone
  <2> QED
    BY <2>2 DEF CallOK
<1> QED
  BY <1>1 DEF UploadOK

-----------------------------------------------------------------------------
(* uploadFile.                                                             *)

\* The loops start with different parts, each of them missing.
LEMMA FirstParts ==
  ASSUME NEW l \in Loops
  PROVE  /\ FirstPart(l) \in Missing \cup {None}
         /\ \A m \in Loops : FirstPart(l) = FirstPart(m) =>
              l = m \/ FirstPart(l) = None
<1> DEFINE Nth(i) == {n \in Missing : Cardinality({m \in Missing : m < n}) = i - 1}
<1>1. ASSUME NEW i \in Loops
      PROVE  FirstPart(i) = None \/ FirstPart(i) \in Nth(i)
  BY DEF FirstPart
<1>2. ASSUME NEW m \in Loops, FirstPart(l) \in Nth(l), FirstPart(m) \in Nth(m),
             FirstPart(l) = FirstPart(m)
      PROVE  l = m
  BY <1>2, UploadsAssumption DEF Loops
<1>3. None \notin Missing
  BY UploadsAssumption DEF Missing
<1> QED
  BY <1>1, <1>2, <1>3

LEMMA StartUploadOK ==
  ASSUME UploadOK, NEW c \in Calls, Start(c)
  PROVE  UploadOK'
<1> DEFINE part == [l \in Loops |-> FirstPart(l)]
           r == [ pc |-> IF Missing = {} THEN "complete" ELSE "run",
                  completed |-> received,
                  remaining |-> Missing \ {part[l] : l \in Loops},
                  part |-> part, stored |-> {} ]
<1>1. received \subseteq Parts /\ Missing = Parts \ received
  BY DEF UploadOK, TypeOK, Missing
<1>2. \A l \in Loops : part[l] \in Missing \cup {None}
  BY FirstParts
<1>3. r \in Call
  BY <1>1, <1>2 DEF Call
<1>4. Sending(r) = {part[l] : l \in Loops} \ {None}
  BY DEF Sending
<1>5. None \notin Parts
  BY UploadsAssumption
<1>6. RecOK(r, received, multipart # "closed", object)
  <2>1. Sending(r) \subseteq Missing
    BY <1>2, <1>4
  <2>2. Missing \subseteq r.remaining \cup Sending(r)
    BY <1>1, <1>4, <1>5
  <2>3. \A l, m \in Loops : part[l] = part[m] => l = m \/ part[l] = None
    BY FirstParts
  <2> HIDE DEF part
  <2> QED
    BY <1>1, <1>4, <2>1, <2>2, <2>3 DEF RecOK
<1> HIDE DEF r
<1>7. /\ call' = [call EXCEPT ![c] = r] /\ received' = received
      /\ UNCHANGED <<initiate, session, multipart, object, other, failures>>
  BY DEF Start, r
<1>8. failures' \in Nat /\ received \subseteq received' /\ received' \subseteq Parts
  BY <1>1, <1>7 DEF UploadOK, TypeOK
<1>9. RecOK(r, received', multipart # "closed", object)
  BY <1>6, <1>7
<1>10. session' = session \/ (session' = "completed" /\ object = Parts)
  BY <1>7
<1>11. UNCHANGED <<initiate, multipart, object, other>>
  BY <1>7
<1>12. call' = [call EXCEPT ![c] = r]
  BY <1>7
<1> QED
  BY <1>3, <1>8, <1>9, <1>10, <1>11, <1>12, CallFrame

\* A step that only moves a call's pc to where it promises nothing more.
LEMMA PcStep ==
  ASSUME UploadOK, NEW c \in Calls, NEW pc \in {"failed", "mark", "done", "submitted"},
         call' = [call EXCEPT ![c].pc = pc],
         UNCHANGED <<initiate, multipart, received, object, other, failures>>,
         session' = session \/ (session' = "completed" /\ object = Parts),
         pc = "failed" \/ (object = Parts /\ call[c].completed = Parts)
  PROVE  UploadOK'
<1> DEFINE r == [call[c] EXCEPT !.pc = pc]
<1>1. call[c] \in Call /\ RecOK(call[c], received, multipart # "closed", object)
  BY DEF UploadOK, TypeOK, CallOK
<1>2. /\ r \in Call /\ r.pc = pc /\ r.completed = call[c].completed
      /\ r.remaining = call[c].remaining /\ r.part = call[c].part
      /\ r.stored = call[c].stored
  BY <1>1 DEF Call
<1>3. call' = [call EXCEPT ![c] = r]
  OBVIOUS
<1> HIDE DEF r
<1>4. Sending(r) = Sending(call[c])
  BY <1>2 DEF Sending
<1>5. RecOK(r, received, multipart # "closed", object)
  BY <1>1, <1>2, <1>4 DEF RecOK
<1>6. received \subseteq Parts /\ failures \in Nat
  BY DEF UploadOK, TypeOK
<1> QED
  BY <1>2, <1>3, <1>5, <1>6, CallFrame

LEMMA PutPartUploadOK ==
  ASSUME UploadOK, NEW c \in Calls, NEW l \in Loops, PutPart(c, l)
  PROVE  UploadOK'
<1> DEFINE k == call[c]
           r == [k EXCEPT !.stored = k.stored \cup {l}]
<1>1. k \in Call /\ RecOK(k, received, multipart # "closed", object)
  BY DEF UploadOK, TypeOK, CallOK
<1>2. /\ r \in Call /\ r.pc = k.pc /\ r.completed = k.completed
      /\ r.remaining = k.remaining /\ r.part = k.part
      /\ r.stored = k.stored \cup {l}
  BY <1>1 DEF Call
<1>3. /\ call' = [call EXCEPT ![c] = r]
      /\ received' = received \cup {k.part[l]} /\ k.part[l] # None
      /\ UNCHANGED <<initiate, session, multipart, object, other, failures>>
  BY DEF PutPart
<1>4. k.part[l] \in Parts /\ received \subseteq Parts /\ failures \in Nat
  BY <1>1, <1>3 DEF Call, UploadOK, TypeOK
<1> HIDE DEF r
<1>5. Sending(r) = Sending(k)
  BY <1>2 DEF Sending
<1>6. RecOK(r, received', multipart # "closed", object)
  BY <1>1, <1>2, <1>3, <1>5 DEF RecOK
<1>7. failures' \in Nat /\ received \subseteq received' /\ received' \subseteq Parts
  BY <1>3, <1>4
<1>8. session' = session \/ (session' = "completed" /\ object = Parts)
  BY <1>3
<1>9. UNCHANGED <<initiate, multipart, object, other>>
  BY <1>3
<1>10. call' = [call EXCEPT ![c] = r] /\ r \in Call
  BY <1>2, <1>3
<1> QED
  BY <1>6, <1>7, <1>8, <1>9, <1>10, CallFrame

\* A part is answered: the loop that sent it takes another one or ends.
LEMMA AnsweredUploadOK ==
  ASSUME UploadOK, NEW c \in Calls, NEW l \in Loops, PartAnswered(c, l)
  PROVE  UploadOK'
<1> DEFINE k == call[c]
           Answered(part, remaining, pc) ==
             [ pc |-> pc, completed |-> k.completed \cup {k.part[l]},
               remaining |-> remaining, part |-> part, stored |-> k.stored \ {l} ]
<1>1. k \in Call /\ RecOK(k, received, multipart # "closed", object)
  BY DEF UploadOK, TypeOK, CallOK
<1>2. /\ l \in k.stored /\ received \subseteq Parts /\ failures \in Nat
      /\ UNCHANGED <<initiate, session, multipart, received, object, other, failures>>
  BY DEF PartAnswered, UploadOK, TypeOK
<1>3. /\ k.part \in [Loops -> Parts \cup {None}] /\ k.part[l] \in Parts
      /\ None \notin Parts
      /\ multipart # "closed" => k.part[l] \in received
      /\ k.completed \subseteq Parts /\ k.remaining \subseteq Parts
      /\ k.part[l] \notin k.completed \cup k.remaining
      /\ \A m \in Loops \ {l} : k.part[m] # k.part[l]
  BY <1>1, <1>2, UploadsAssumption DEF Call, RecOK, Sending
<1>4. ASSUME NEW r, call' = [call EXCEPT ![c] = r], r \in Call,
             RecOK(r, received, multipart # "closed", object)
      PROVE  UploadOK'
  <2>1. failures' \in Nat /\ received \subseteq received' /\ received' \subseteq Parts
    BY <1>2
  <2>2. session' = session \/ (session' = "completed" /\ object = Parts)
    BY <1>2
  <2>3. UNCHANGED <<initiate, multipart, object, other>>
    BY <1>2
  <2>4. RecOK(r, received', multipart # "closed", object)
    BY <1>2, <1>4
  <2> QED
    BY <1>4, <2>1, <2>2, <2>3, <2>4, CallFrame
<1>5. ASSUME NEW n \in k.remaining,
             call' = [call EXCEPT ![c] =
               Answered([k.part EXCEPT ![l] = n], k.remaining \ {n}, k.pc)]
      PROVE  UploadOK'
  <2> DEFINE part == [k.part EXCEPT ![l] = n]
             r == Answered(part, k.remaining \ {n}, k.pc)
  <2>1. /\ part \in [Loops -> Parts \cup {None}] /\ part[l] = n
        /\ \A m \in Loops \ {l} : part[m] = k.part[m]
    BY <1>3
  <2> HIDE DEF part
  <2>2. r \in Call
    BY <1>1, <1>3, <2>1 DEF Call
  <2>3. Sending(r) = (Sending(k) \ {k.part[l]}) \cup {n}
    BY <1>3, <2>1 DEF Sending
  <2>4. \A m \in Loops \ {l} : k.part[m] # n
    BY <1>1, <1>3 DEF RecOK, Sending
  <2>5. RecOK(r, received, multipart # "closed", object)
    <3>1. r.pc = "run" => Parts \subseteq r.completed \cup r.remaining \cup Sending(r)
      BY <1>1, <2>3 DEF RecOK
    <3>2. r.pc \in {"complete", "mark", "done", "submitted"} => r.completed = Parts
      BY <1>1, <1>3 DEF RecOK
    <3>3. Sending(r) \cap (r.completed \cup r.remaining) = {}
      BY <1>1, <1>3, <2>3 DEF RecOK
    <3>4. \A i, m \in Loops : r.part[i] = r.part[m] => i = m \/ r.part[i] = None
      BY <1>1, <2>1, <2>4 DEF RecOK
    <3>5. \A m \in r.stored : r.part[m] # None /\ (multipart # "closed" => r.part[m] \in received)
      BY <1>1, <2>1 DEF RecOK, Call
    <3>6. r.pc \in {"mark", "done", "submitted"} => object = Parts
      BY <1>1 DEF RecOK
    <3>7. /\ r.completed \cap r.remaining = {}
          /\ multipart # "closed" => r.completed \subseteq received
      BY <1>1, <1>3 DEF RecOK
    <3> QED
      BY <3>1, <3>2, <3>3, <3>4, <3>5, <3>6, <3>7 DEF RecOK
  <2> QED
    BY <1>4, <1>5, <2>2, <2>5 DEF part
<1>6. ASSUME k.remaining = {}, NEW pc,
             pc = IF k.pc = "run" /\ \A i \in Loops \ {l} : k.part[i] = None
                  THEN "complete" ELSE k.pc,
             call' = [call EXCEPT ![c] = Answered([k.part EXCEPT ![l] = None], {}, pc)]
      PROVE  UploadOK'
  <2> DEFINE part == [k.part EXCEPT ![l] = None]
             r == Answered(part, {}, pc)
  <2>1. /\ part \in [Loops -> Parts \cup {None}] /\ part[l] = None
        /\ \A m \in Loops \ {l} : part[m] = k.part[m]
    BY <1>3
  <2> HIDE DEF part
  <2>2. r \in Call
    BY <1>1, <1>3, <1>6, <2>1 DEF Call
  <2>3. Sending(r) = Sending(k) \ {k.part[l]}
    BY <1>3, <2>1 DEF Sending
  <2>4. RecOK(r, received, multipart # "closed", object)
    <3>1. r.pc = "run" => Parts \subseteq r.completed \cup r.remaining \cup Sending(r)
      BY <1>1, <1>6, <2>3 DEF RecOK
    <3>2. r.pc \in {"complete", "mark", "done", "submitted"} => r.completed = Parts
      <4>1. CASE k.pc \in {"complete", "mark", "done", "submitted"}
        BY <1>1, <1>3, <4>1 DEF RecOK
      <4>2. CASE k.pc = "run" /\ \A i \in Loops \ {l} : k.part[i] = None
        <5>1. Sending(k) = {k.part[l]}
          BY <1>3, <4>2 DEF Sending
        <5> QED
          BY <1>1, <1>3, <1>6, <4>2, <5>1 DEF RecOK
      <4> QED
        BY <1>6, <4>1, <4>2
    <3>3. Sending(r) \cap (r.completed \cup r.remaining) = {}
      BY <1>1, <1>3, <2>3 DEF RecOK
    <3>4. \A i, m \in Loops : r.part[i] = r.part[m] => i = m \/ r.part[i] = None
      BY <1>1, <2>1 DEF RecOK
    <3>5. \A m \in r.stored : r.part[m] # None /\ (multipart # "closed" => r.part[m] \in received)
      BY <1>1, <2>1 DEF RecOK, Call
    <3>6. r.pc \in {"mark", "done", "submitted"} => object = Parts
      BY <1>1, <1>6 DEF RecOK
    <3>7. /\ r.completed \cap r.remaining = {}
          /\ multipart # "closed" => r.completed \subseteq received
      BY <1>1, <1>3 DEF RecOK
    <3> QED
      BY <3>1, <3>2, <3>3, <3>4, <3>5, <3>6, <3>7 DEF RecOK
  <2> QED
    BY <1>4, <1>6, <2>2, <2>4 DEF part
<1> QED
  BY <1>5, <1>6 DEF PartAnswered

\* Loops end, and their call with them.
LEMMA ThrowUploadOK ==
  ASSUME UploadOK, NEW c \in Calls, NEW r \in Call,
         call' = [call EXCEPT ![c] = r],
         r.pc = "failed", r.completed = call[c].completed, r.remaining = call[c].remaining,
         \A l \in Loops : r.part[l] \in {None, call[c].part[l]},
         r.stored \subseteq call[c].stored, \A l \in r.stored : r.part[l] # None,
         UNCHANGED <<initiate, session, multipart, received, object, other>>,
         failures' \in Nat
  PROVE  UploadOK'
<1> DEFINE k == call[c]
<1>1. k \in Call /\ RecOK(k, received, multipart # "closed", object)
  BY DEF UploadOK, TypeOK, CallOK
<1>2. Sending(r) \subseteq Sending(k)
  BY DEF Sending
<1>3. \A l, m \in Loops : r.part[l] = r.part[m] => l = m \/ r.part[l] = None
  BY <1>1 DEF RecOK
<1>4. \A l \in r.stored :
        r.part[l] # None /\ (multipart # "closed" => r.part[l] \in received)
  BY <1>1 DEF RecOK, Call
<1>5. RecOK(r, received, multipart # "closed", object)
  BY <1>1, <1>2, <1>3, <1>4 DEF RecOK
<1>6. received \subseteq Parts
  BY DEF UploadOK, TypeOK
<1>7. /\ session' = session \/ (session' = "completed" /\ object = Parts)
      /\ UNCHANGED <<initiate, multipart, object, other>>
      /\ received \subseteq received' /\ received' \subseteq Parts
      /\ RecOK(r, received', multipart # "closed", object)
  BY <1>5, <1>6
<1> QED
  BY <1>7, CallFrame

\* The store assembles what the call takes for completed: the whole file.
LEMMA CompleteUploadOK ==
  ASSUME UploadOK, NEW c \in Calls, Complete(c)
  PROVE  UploadOK'
<1>1. CASE Fail(c) /\ UNCHANGED <<multipart, received, object>>
  <2>1. /\ call' = [call EXCEPT ![c].pc = "failed"]
        /\ UNCHANGED <<initiate, multipart, received, object, other, failures>>
        /\ session' = session
    BY <1>1 DEF Complete, Fail
  <2> QED
    BY <2>1, PcStep
<1>2. CASE /\ multipart = "open" /\ object' = call[c].completed
           /\ multipart' = "closed" /\ received' = {}
           /\ call' = [call EXCEPT ![c].pc = "mark"]
  <2> DEFINE r == [call[c] EXCEPT !.pc = "mark"]
  <2>1. call[c] \in Call /\ RecOK(call[c], received, multipart # "closed", object)
    BY DEF UploadOK, TypeOK, CallOK
  <2>2. /\ r \in Call /\ r.pc = "mark" /\ r.completed = call[c].completed
        /\ r.remaining = call[c].remaining /\ r.part = call[c].part
        /\ r.stored = call[c].stored
    BY <2>1 DEF Call
  <2>3. object' = Parts /\ object = {}
    BY <1>2, <2>1 DEF RecOK, Complete, UploadOK, StoreOK
  <2>4. call' = [call EXCEPT ![c] = r]
    BY <1>2
  <2> HIDE DEF r
  <2>5. Sending(r) = Sending(call[c])
    BY <2>2 DEF Sending
  <2>6. RecOK(r, {}, FALSE, Parts)
    BY <2>1, <2>2, <2>5 DEF RecOK, Complete
  <2>7. ASSUME NEW d \in Calls PROVE CallOK(d)'
    <3>1. CASE d = c
      BY <1>2, <2>3, <2>4, <2>6, <3>1 DEF CallOK, UploadOK, TypeOK
    <3>2. CASE d # c
      <4>1. RecOK(call[d], received, multipart # "closed", object)
        BY DEF UploadOK, CallOK
      <4>2. RecOK(call[d], {}, FALSE, Parts)
        BY <2>3, <4>1, RecMonotone
      <4> QED
        BY <1>2, <2>3, <2>4, <3>2, <4>2 DEF CallOK, UploadOK, TypeOK
    <3> QED
      BY <3>1, <3>2
  <2>8. ASSUME NEW a \in Others PROVE OtherOK(a)'
    BY <1>2, <2>3 DEF Complete, UploadOK, OtherOK
  <2>9. TypeOK'
    BY <1>2, <2>2, <2>3, <2>4 DEF Complete, UploadOK, TypeOK
  <2>10. StoreOK'
    BY <1>2, <2>3 DEF Complete, UploadOK, StoreOK
  <2> QED
    BY <2>7, <2>8, <2>9, <2>10 DEF UploadOK
<1> QED
  BY <1>1, <1>2 DEF Complete

-----------------------------------------------------------------------------

LEMMA OtherUploadOK ==
  ASSUME UploadOK, NEW a \in Others,
         SubmitKey(a) \/ Abort(a) \/ MarkAborted(a) \/ AbortDies(a)
  PROVE  UploadOK'
<1>1. \A b \in Others \ {a} : other'[b] = other[b]
  BY DEF UploadOK, TypeOK, SubmitKey, Abort, MarkAborted, AbortDies
<1>2. UNCHANGED <<object, call>> /\ TypeOK'
  BY DEF UploadOK, TypeOK, SubmitKey, Abort, MarkAborted, AbortDies
<1>3. StoreOK'
  BY DEF UploadOK, StoreOK, OtherOK, SubmitKey, Abort, MarkAborted, AbortDies
<1>4. OtherOK(a)'
  BY UploadsAssumption
     DEF UploadOK, TypeOK, StoreOK, OtherOK, SubmitKey, Abort, MarkAborted, AbortDies
<1>5. ASSUME NEW b \in Others, b # a PROVE OtherOK(b)'
  BY <1>1, <1>2, <1>5
     DEF UploadOK, OtherOK, SubmitKey, Abort, MarkAborted, AbortDies
<1>6. multipart' # "closed" => received' = received /\ multipart # "closed"
  BY DEF SubmitKey, Abort, MarkAborted, AbortDies
<1> QED
  BY <1>2, <1>3, <1>4, <1>5, <1>6, OtherFrame

LEMMA InitiateUploadOK ==
  ASSUME UploadOK, CreateMultipart \/ CreateSession \/ InitiateDies
  PROVE  UploadOK'
<1>1. UNCHANGED <<object, call, other>> /\ TypeOK'
  BY DEF UploadOK, TypeOK, CreateMultipart, CreateSession, InitiateDies
<1>2. initiate = "new" => multipart # "closed"
  BY DEF UploadOK, StoreOK
<1>3. StoreOK'
  BY DEF UploadOK, StoreOK, CreateMultipart, CreateSession, InitiateDies
<1>4. ASSUME NEW a \in Others PROVE OtherOK(a)'
  BY <1>1, <1>2 DEF UploadOK, OtherOK, StoreOK, CreateMultipart, CreateSession, InitiateDies
<1>5. multipart' # "closed" => received' = received /\ multipart # "closed"
  BY <1>2 DEF CreateMultipart, CreateSession, InitiateDies
<1> QED
  BY <1>1, <1>3, <1>4, <1>5, OtherFrame

\* uploadPart throws, or the page is closed.
LEMMA FailureUploadOK ==
  ASSUME UploadOK, NEW c \in Calls,
         CallDies(c) \/ \E l \in Loops : PutRefused(c, l) \/ PutFails(c, l)
  PROVE  UploadOK'
<1>1. call[c] \in Call /\ RecOK(call[c], received, multipart # "closed", object)
  BY DEF UploadOK, TypeOK, CallOK
<1>2. failures' \in Nat /\ UNCHANGED <<initiate, session, multipart, received, object, other>>
  BY DEF CallDies, PutRefused, PutFails, UploadOK, TypeOK
<1>3. CASE CallDies(c)
  <2> DEFINE r == [call[c] EXCEPT !.pc = "failed", !.part = NoPart, !.stored = {}]
  <2>1. call' = [call EXCEPT ![c] = r]
    BY <1>3 DEF CallDies
  <2>2. /\ r \in Call /\ r.pc = "failed" /\ r.completed = call[c].completed
        /\ r.remaining = call[c].remaining /\ r.part = NoPart /\ r.stored = {}
    BY <1>1 DEF Call, NoPart
  <2> HIDE DEF r
  <2>3. \A l \in Loops : r.part[l] \in {None, call[c].part[l]}
    BY <2>2 DEF NoPart
  <2> QED
    BY <1>2, <2>1, <2>2, <2>3, ThrowUploadOK
<1>4. ASSUME NEW l \in Loops, PutRefused(c, l) \/ PutFails(c, l)
      PROVE  UploadOK'
  <2> DEFINE part == [call[c].part EXCEPT ![l] = None]
             r == [call[c] EXCEPT !.pc = "failed", !.part = part,
                                  !.stored = call[c].stored \ {l}]
  <2>1. LoopThrows(c, l)
    BY <1>4 DEF PutRefused, PutFails
  <2>2. call' = [call EXCEPT ![c] = r]
    BY <2>1, Zenon DEF LoopThrows
  <2>3. /\ part \in [Loops -> Parts \cup {None}]
        /\ \A m \in Loops : part[m] = IF m = l THEN None ELSE call[c].part[m]
    BY <1>1 DEF Call
  <2> HIDE DEF part
  <2>4. /\ r \in Call /\ r.pc = "failed" /\ r.completed = call[c].completed
        /\ r.remaining = call[c].remaining /\ r.part = part
        /\ r.stored = call[c].stored \ {l}
    BY <1>1, <2>3 DEF Call
  <2> HIDE DEF r
  <2>5. \A m \in Loops : r.part[m] \in {None, call[c].part[m]}
    BY <2>3, <2>4
  <2>6. r.stored \subseteq call[c].stored /\ \A m \in r.stored : r.part[m] # None
    BY <1>1, <2>3, <2>4 DEF Call, RecOK
  <2> QED
    BY <1>2, <2>2, <2>4, <2>5, <2>6, ThrowUploadOK
<1> QED
  BY <1>3, <1>4

\* The session is marked, a job is submitted, or a call is refused.
LEMMA MarkUploadOK ==
  ASSUME UploadOK, NEW c \in Calls, MarkCompleted(c) \/ SubmitJob(c) \/ StartRefused(c)
  PROVE  UploadOK'
<1>1. RecOK(call[c], received, multipart # "closed", object)
  BY DEF UploadOK, CallOK
<1>2. UNCHANGED <<initiate, multipart, received, object, other, failures>>
  BY DEF MarkCompleted, SubmitJob, StartRefused
<1>3. CASE MarkCompleted(c)
  <2>1. /\ call' = [call EXCEPT ![c].pc = "done"] /\ session' = "completed"
        /\ object = Parts /\ call[c].completed = Parts
    BY <1>1, <1>3 DEF MarkCompleted, RecOK
  <2> QED
    BY <1>2, <2>1, PcStep
<1>4. CASE SubmitJob(c)
  <2>1. /\ call' = [call EXCEPT ![c].pc = "submitted"] /\ session' = session
        /\ object = Parts /\ call[c].completed = Parts
    BY <1>1, <1>4, UploadsAssumption DEF SubmitJob, RecOK
  <2> QED
    BY <1>2, <2>1, PcStep
<1>5. CASE StartRefused(c)
  <2>1. call' = [call EXCEPT ![c].pc = "failed"] /\ session' = session
    BY <1>5 DEF StartRefused, Fail
  <2> QED
    BY <1>2, <2>1, PcStep
<1> QED
  BY <1>3, <1>4, <1>5

LEMMA NextUploadOK ==
  ASSUME UploadOK, [Next]_vars
  PROVE  UploadOK'
<1>1. CASE UNCHANGED vars
  BY <1>1 DEF vars, UploadOK, TypeOK, StoreOK, CallOK, OtherOK
<1>2. CASE CreateMultipart \/ CreateSession \/ InitiateDies
  BY <1>2, InitiateUploadOK
<1>3. ASSUME NEW c \in Calls,
             Start(c) \/ StartRefused(c) \/ CallStep(c) \/ CallDies(c)
               \/ \E l \in Loops : PutFails(c, l)
      PROVE  UploadOK'
  BY <1>3, StartUploadOK, MarkUploadOK, FailureUploadOK, PutPartUploadOK,
     AnsweredUploadOK, CompleteUploadOK DEF CallStep
<1>4. ASSUME NEW a \in Others,
             SubmitKey(a) \/ Abort(a) \/ MarkAborted(a) \/ AbortDies(a)
      PROVE  UploadOK'
  BY <1>4, OtherUploadOK
<1> QED
  BY <1>1, <1>2, <1>3, <1>4 DEF Next

\* Every state of the upload satisfies the invariant, whatever the number of
\* parts, loops, calls, other clients and failures.
THEOREM UploadsSound == Spec => []UploadOK
<1>1. UploadOK /\ [Next]_vars => UploadOK'
  BY NextUploadOK
<1> QED
  BY InitUploadOK, <1>1, PTL DEF Spec

\* The variables keep their types, however the handlers and loops interleave.
THEOREM UploadsTypeOK == Spec => []TypeOK
<1>1. UploadOK => TypeOK
  BY DEF UploadOK
<1> QED
  BY UploadsSound, <1>1, PTL

\* The loops of upload.ts share the cursor and the map of completed parts
\* without losing a part or sending one twice, and complete_upload assembles
\* nothing but the whole file.
THEOREM PartsAreAccounted == Spec => []PartsAccounted
<1>1. ASSUME UploadOK PROVE PartsAccounted
  <2>1. object \in {{}, Parts} /\ received \subseteq Parts
    BY <1>1 DEF UploadOK, StoreOK, TypeOK
  <2>2. ASSUME NEW c \in Calls PROVE RecOK(call[c], received, multipart # "closed", object)
    BY <1>1 DEF UploadOK, CallOK
  <2> QED
    BY <2>1, <2>2 DEF PartsAccounted, RecOK
<1> QED
  BY UploadsSound, <1>1, PTL

-----------------------------------------------------------------------------
(* The refinement.                                                         *)

Told == IF session = "in_progress" THEN None ELSE session

Users == {c \in Calls : call[c].pc = "submitted"} \cup {a \in Others : other[a] = "submitted"}

\* Nothing has begun before the session is stored.
NotYet ==
  initiate # "done" =>
    /\ session = None
    /\ \A c \in Calls : /\ call[c].pc = "idle" /\ call[c].part = NoPart
                        /\ call[c].stored = {}
    /\ \A a \in Others : other[a] = "idle"

LEMMA NextNotYet ==
  ASSUME NotYet, [Next]_vars
  PROVE  NotYet'
<1>1. CASE UNCHANGED vars
  BY <1>1 DEF vars, NotYet
<1>2. CASE initiate = "done"
  <2>1. initiate' = "done"
    BY <1>2 DEF vars, Next, CreateMultipart, CreateSession, InitiateDies, Start, StartRefused,
       CallStep, PutPart, PartAnswered, PutRefused, PutFails, CallDies, Complete,
       MarkCompleted, SubmitJob, SubmitKey, Abort, MarkAborted, AbortDies
  <2> QED
    BY <2>1 DEF NotYet
<1>3. CASE initiate # "done" /\ Next
  <2>1. ASSUME NEW c \in Calls
        PROVE  /\ ~Start(c) /\ ~StartRefused(c) /\ ~CallDies(c) /\ ~Complete(c)
               /\ ~MarkCompleted(c) /\ ~SubmitJob(c)
    BY <1>3 DEF NotYet, Start, StartRefused, CallDies, Complete, MarkCompleted, SubmitJob
  <2>2. ASSUME NEW c \in Calls, NEW l \in Loops
        PROVE  ~PutPart(c, l) /\ ~PartAnswered(c, l) /\ ~PutRefused(c, l) /\ ~PutFails(c, l)
    BY <1>3 DEF NotYet, NoPart, PutPart, PartAnswered, PutRefused, PutFails
  <2>3. ASSUME NEW a \in Others
        PROVE  ~SubmitKey(a) /\ ~Abort(a) /\ ~MarkAborted(a) /\ ~AbortDies(a)
    BY <1>3 DEF NotYet, SubmitKey, Abort, MarkAborted, AbortDies
  <2>4. CreateMultipart \/ CreateSession \/ InitiateDies
    BY <1>3, <2>1, <2>2, <2>3 DEF Next, CallStep
  <2> QED
    BY <1>3, <2>4 DEF NotYet, CreateMultipart, CreateSession, InitiateDies
<1> QED
  BY <1>1, <1>2, <1>3

\* A step of one call that neither submits a job nor shows elsewhere.
LEMMA CallStutters ==
  ASSUME UploadOK, NEW c \in Calls, NEW r,
         call' = [call EXCEPT ![c] = r],
         call[c].pc # "submitted", r.pc # "submitted",
         UNCHANGED <<object, multipart, session, other>>
  PROVE  UNCHANGED <<SourceState, Told, Users>>
<1>1. \A d \in Calls : call'[d].pc = "submitted" <=> call[d].pc = "submitted"
  BY DEF UploadOK, TypeOK
<1>2. Users' = Users
  BY <1>1 DEF Users
<1> QED
  BY <1>2 DEF SourceState, Told

\* The loops of a call that has been submitted have ended.
LEMMA SubmittedIsStill ==
  ASSUME UploadOK, NEW c \in Calls, NEW l \in Loops, call[c].part[l] # None
  PROVE  call[c].pc # "submitted"
<1>1. call[c] \in Call /\ RecOK(call[c], received, multipart # "closed", object)
  BY DEF UploadOK, TypeOK, CallOK
<1>2. call[c].part[l] \in Parts /\ call[c].part[l] \in Sending(call[c])
  BY <1>1 DEF Call, Sending
<1> QED
  BY <1>1, <1>2 DEF RecOK

\* The source is there once, whole; with no part there would be none.
LEMMA SourceIs ==
  ASSUME UploadOK
  PROVE  /\ object = Parts => SourceState = "whole"
         /\ object = {} => SourceState = IF multipart = "closed" THEN "abandoned" ELSE "absent"
         /\ object # {} => object = Parts
BY UploadsAssumption DEF UploadOK, StoreOK, SourceState

\* A step of uploadFile before its complete_upload.
LEMMA LoopStutters ==
  ASSUME UploadOK, NEW c \in Calls,
         \/ Start(c) \/ StartRefused(c) \/ CallDies(c)
         \/ \E l \in Loops : \/ PutPart(c, l) \/ PartAnswered(c, l)
                            \/ PutRefused(c, l) \/ PutFails(c, l)
  PROVE  UNCHANGED <<SourceState, Told, Users>>
<1>1. UNCHANGED <<object, multipart, session, other>>
  BY DEF Start, StartRefused, CallDies, PutPart, PartAnswered, PutRefused, PutFails
<1>2. call[c] \in Call /\ call \in [Calls -> Call]
      /\ RecOK(call[c], received, multipart # "closed", object)
  BY DEF UploadOK, TypeOK, CallOK
<1>3. call[c].pc # "submitted"
  <2>1. CASE Start(c) \/ StartRefused(c) \/ CallDies(c)
    BY <2>1 DEF Start, StartRefused, CallDies
  <2>2. ASSUME NEW l \in Loops,
               PutPart(c, l) \/ PartAnswered(c, l) \/ PutRefused(c, l) \/ PutFails(c, l)
        PROVE  call[c].part[l] # None
    BY <1>2, <2>2 DEF PutPart, PartAnswered, PutRefused, PutFails, RecOK
  <2> QED
    BY <2>1, <2>2, SubmittedIsStill
<1>4. PICK r : call' = [call EXCEPT ![c] = r] /\ r.pc # "submitted"
  <2>1. CASE Start(c)
    <3> DEFINE part == [l \in Loops |-> FirstPart(l)]
               r == [ pc |-> IF Missing = {} THEN "complete" ELSE "run", completed |-> received,
                      remaining |-> Missing \ {part[l] : l \in Loops},
                      part |-> part, stored |-> {} ]
    <3>1. call' = [call EXCEPT ![c] = r]
      BY <2>1, Zenon DEF Start
    <3>2. r.pc # "submitted"
      OBVIOUS
    <3> HIDE DEF r
    <3> QED
      BY <3>1, <3>2
  <2>2. CASE StartRefused(c)
    <3> DEFINE r == [call[c] EXCEPT !.pc = "failed"]
    <3>1. call' = [call EXCEPT ![c] = r]
      BY <2>2 DEF StartRefused, Fail
    <3>2. r.pc # "submitted"
      BY <1>2 DEF Call
    <3> HIDE DEF r
    <3> QED
      BY <3>1, <3>2
  <2>3. CASE CallDies(c)
    <3> DEFINE r == [call[c] EXCEPT !.pc = "failed", !.part = NoPart, !.stored = {}]
    <3>1. call' = [call EXCEPT ![c] = r]
      BY <2>3 DEF CallDies
    <3>2. r.pc # "submitted"
      BY <1>2 DEF Call
    <3> HIDE DEF r
    <3> QED
      BY <3>1, <3>2
  <2>4. ASSUME NEW l \in Loops, PutPart(c, l)
        PROVE  \E r : call' = [call EXCEPT ![c] = r] /\ r.pc # "submitted"
    <3> DEFINE r == [call[c] EXCEPT !.stored = call[c].stored \cup {l}]
    <3>1. call' = [call EXCEPT ![c] = r]
      BY <2>4 DEF PutPart
    <3>2. r.pc # "submitted"
      BY <1>2, <1>3 DEF Call
    <3> HIDE DEF r
    <3> QED
      BY <3>1, <3>2
  <2>5. ASSUME NEW l \in Loops, PartAnswered(c, l)
        PROVE  \E r : call' = [call EXCEPT ![c] = r] /\ r.pc # "submitted"
    BY <1>3, <2>5 DEF PartAnswered
  <2>6. ASSUME NEW l \in Loops, PutRefused(c, l) \/ PutFails(c, l)
        PROVE  \E r : call' = [call EXCEPT ![c] = r] /\ r.pc # "submitted"
    <3> DEFINE r == [call[c] EXCEPT !.pc = "failed", !.part = [call[c].part EXCEPT ![l] = None],
                                    !.stored = call[c].stored \ {l}]
    <3>1. call' = [call EXCEPT ![c] = r]
      BY <2>6, Zenon DEF PutRefused, PutFails, LoopThrows
    <3>2. r.pc # "submitted"
      BY <1>2 DEF Call
    <3> HIDE DEF r
    <3> QED
      BY <3>1, <3>2
  <2> QED
    BY <2>1, <2>2, <2>3, <2>4, <2>5, <2>6
<1> QED
  BY <1>1, <1>3, <1>4, CallStutters

\* The end of a call: the object is assembled, the session marked, the job
\* submitted.
LEMMA EndIsAtomic ==
  ASSUME UploadOK, UploadOK', NEW c \in Calls,
         Complete(c) \/ MarkCompleted(c) \/ SubmitJob(c)
  PROVE  [Source!Next]_(Source!vars)
<1>1. call[c] \in Call /\ call \in [Calls -> Call]
      /\ RecOK(call[c], received, multipart # "closed", object)
  BY DEF UploadOK, TypeOK, CallOK
<1>2. call' \in [Calls -> Call]
  BY DEF UploadOK, TypeOK
<1>3. Parts # {}
  BY UploadsAssumption
<1>4. CASE Fail(c) /\ call[c].pc = "complete" /\ UNCHANGED <<object, multipart, session, other>>
  <2> DEFINE r == [call[c] EXCEPT !.pc = "failed"]
  <2>1. call' = [call EXCEPT ![c] = r]
    BY <1>4 DEF Fail
  <2>2. r.pc # "submitted"
    BY <1>1 DEF Call
  <2> HIDE DEF r
  <2>3. UNCHANGED <<SourceState, Told, Users>>
    BY <1>4, <2>1, <2>2, CallStutters
  <2> QED
    BY <2>3 DEF Source!vars, Told, Users
<1>5. CASE Complete(c) /\ ~Fail(c)
  <2>1. /\ multipart = "open" /\ multipart' = "closed" /\ object' = Parts /\ object = {}
        /\ call' = [call EXCEPT ![c].pc = "mark"] /\ UNCHANGED <<session, other>>
    BY <1>1, <1>5 DEF Complete, RecOK, UploadOK, StoreOK
  <2>2. SourceState = "absent" /\ SourceState' = "whole"
    BY <1>3, <2>1 DEF SourceState
  <2>3. Users' = Users
    <3>1. call[c].pc = "complete"
      BY <1>5 DEF Complete
    <3>2. \A d \in Calls : call'[d].pc = "submitted" <=> call[d].pc = "submitted"
      BY <1>1, <2>1, <3>1 DEF Call
    <3> QED
      BY <2>1, <3>2 DEF Users
  <2>4. Told' = Told
    BY <2>1 DEF Told
  <2> QED
    BY <2>2, <2>3, <2>4 DEF Source!Next, Source!Assemble, Told, Users
<1>6. CASE MarkCompleted(c)
  <2>1. /\ object = Parts /\ object' = object /\ session' = "completed" /\ other' = other
        /\ call' = [call EXCEPT ![c].pc = "done"] /\ call[c].pc = "mark"
        /\ multipart' = multipart
    BY <1>1, <1>6 DEF MarkCompleted, RecOK
  <2>2. SourceState = "whole" /\ SourceState' = SourceState /\ Told' = "completed"
    BY <1>3, <2>1 DEF SourceState, Told
  <2>3. \A d \in Calls : call'[d].pc = "submitted" <=> call[d].pc = "submitted"
    BY <1>1, <2>1 DEF Call
  <2>4. Users' = Users
    BY <2>1, <2>3 DEF Users
  <2> QED
    BY <2>2, <2>4 DEF Source!Next, Source!Tell, Told, Users
<1>7. CASE SubmitJob(c)
  <2>1. /\ object = Parts /\ object' = object /\ session' = session /\ other' = other
        /\ call' = [call EXCEPT ![c].pc = "submitted"] /\ multipart' = multipart
    BY <1>1, <1>3, <1>7 DEF SubmitJob, RecOK
  <2>2. SourceState = "whole" /\ SourceState' = SourceState /\ Told' = Told
    BY <1>3, <2>1 DEF SourceState, Told
  <2>3. \A d \in Calls : call'[d].pc = "submitted" <=> d = c \/ call[d].pc = "submitted"
    BY <1>1, <2>1 DEF Call
  <2>4. Users' = Users \cup {c}
    BY <2>1, <2>3 DEF Users
  <2> QED
    BY <2>2, <2>4 DEF Source!Next, Source!Use, Told, Users
<1>8. CASE Complete(c) /\ Fail(c)
  <2>1. call'[c].pc = "failed" /\ call[c].pc = "complete"
    BY <1>1, <1>8 DEF Complete, Fail, Call
  <2>2. UNCHANGED <<object, multipart, session, other>>
    <3>1. CASE UNCHANGED <<multipart, received, object>>
      BY <1>8, <3>1 DEF Complete
    <3>2. CASE call' = [call EXCEPT ![c].pc = "mark"]
      BY <1>1, <2>1, <3>2 DEF Call
    <3> QED
      BY <1>8, <3>1, <3>2 DEF Complete
  <2> QED
    BY <1>4, <1>8, <2>1, <2>2
<1> QED
  BY <1>5, <1>6, <1>7, <1>8

\* Other clients, and the handler that creates the upload.
LEMMA OtherIsAtomic ==
  ASSUME UploadOK, NEW a \in Others,
         SubmitKey(a) \/ Abort(a) \/ MarkAborted(a) \/ AbortDies(a)
  PROVE  [Source!Next]_(Source!vars)
<1>1. other \in [Others -> {"idle", "mark", "done", "submitted", "failed"}]
  BY DEF UploadOK, TypeOK
<1>2. UNCHANGED <<object, call>>
  BY DEF SubmitKey, Abort, MarkAborted, AbortDies
<1>3. CASE SubmitKey(a) /\ object # {}
  <2>1. UNCHANGED <<multipart, session>> /\ other' = [other EXCEPT ![a] = "submitted"]
    BY <1>3 DEF SubmitKey
  <2>2. SourceState = "whole" /\ SourceState' = SourceState /\ Told' = Told
    BY <1>2, <1>3, <2>1, SourceIs DEF SourceState, Told
  <2>3. Users' = Users \cup {a}
    BY <1>1, <1>2, <2>1 DEF Users
  <2> QED
    BY <2>2, <2>3 DEF Source!Next, Source!Use, Told, Users
<1>4. CASE ~(SubmitKey(a) /\ object # {})
  <2>1. other[a] # "submitted" /\ other'[a] # "submitted"
    BY <1>1, <1>4 DEF SubmitKey, Abort, MarkAborted, AbortDies
  <2>2. \A b \in Others \ {a} : other'[b] = other[b]
    BY <1>1 DEF SubmitKey, Abort, MarkAborted, AbortDies
  <2>3. Users' = Users
    BY <1>2, <2>1, <2>2 DEF Users
  <2>4. CASE UNCHANGED <<multipart, session>>
    BY <1>2, <2>3, <2>4 DEF SourceState, Source!vars, Told, Users
  <2>5. CASE MarkAborted(a)
    <3>1. object = {} /\ multipart = "closed"
      BY <2>5 DEF MarkAborted, UploadOK, OtherOK
    <3>2. UNCHANGED multipart /\ session' = "aborted"
      BY <2>5 DEF MarkAborted
    <3>3. SourceState = "abandoned" /\ SourceState' = SourceState /\ Told' = "aborted"
      BY <1>2, <3>1, <3>2 DEF SourceState, Told
    <3> QED
      BY <2>3, <3>3 DEF Source!Next, Source!Tell, Told, Users
  <2>6. CASE Abort(a) /\ multipart = "open" /\ multipart' = "closed"
    <3>1. object = {} /\ UNCHANGED session
      BY <2>6 DEF Abort, UploadOK, StoreOK
    <3>2. SourceState = "absent" /\ SourceState' = "abandoned" /\ Told' = Told
      BY <1>2, <2>6, <3>1 DEF SourceState, Told
    <3> QED
      BY <2>3, <3>2 DEF Source!Next, Source!Abandon, Told, Users
  <2> QED
    BY <2>4, <2>5, <2>6 DEF SubmitKey, Abort, AbortDies
<1> QED
  BY <1>3, <1>4

LEMMA InitiateIsAtomic ==
  ASSUME UploadOK, NotYet, CreateMultipart \/ CreateSession \/ InitiateDies
  PROVE  [Source!Next]_(Source!vars)
<1>1. UNCHANGED <<object, call, other>>
  BY DEF CreateMultipart, CreateSession, InitiateDies
<1>2. session = None /\ session' \in {None, "in_progress"}
  BY DEF NotYet, CreateMultipart, CreateSession, InitiateDies
<1>3. multipart = "closed" <=> multipart' = "closed"
  BY DEF UploadOK, StoreOK, CreateMultipart, CreateSession, InitiateDies
<1>4. Told' = Told /\ Users' = Users
  BY <1>1, <1>2 DEF Told, Users
<1>5. SourceState' = SourceState
  BY <1>1, <1>3 DEF SourceState
<1> QED
  BY <1>4, <1>5 DEF Source!vars, Told, Users

\* Uploading in parts implements uploading at once: whatever complete and abort
\* requests, resumed calls and failures do, the source appears whole or is
\* abandoned, and session and jobs never say otherwise.
THEOREM UploadIsAtomic == Spec => SourceIsAtomic
<1>1. Init => Source!Init /\ NotYet
  BY UploadsAssumption
     DEF Init, NotYet, Source!Init, SourceState
<1>2. ASSUME UploadOK, UploadOK', NotYet, [Next]_vars
      PROVE  [Source!Next]_(Source!vars)
  <2>1. CASE UNCHANGED vars
    BY <2>1 DEF vars, Source!vars, SourceState
  <2>2. CASE CreateMultipart \/ CreateSession \/ InitiateDies
    BY <1>2, <2>2, InitiateIsAtomic
  <2>3. ASSUME NEW a \in Others,
               SubmitKey(a) \/ Abort(a) \/ MarkAborted(a) \/ AbortDies(a)
        PROVE  [Source!Next]_(Source!vars)
    BY <1>2, <2>3, OtherIsAtomic
  <2>4. ASSUME NEW c \in Calls, Complete(c) \/ MarkCompleted(c) \/ SubmitJob(c)
        PROVE  [Source!Next]_(Source!vars)
    BY <1>2, <2>4, EndIsAtomic
  <2>5. ASSUME NEW c \in Calls,
               \/ Start(c) \/ StartRefused(c) \/ CallDies(c)
               \/ \E l \in Loops : \/ PutPart(c, l) \/ PartAnswered(c, l)
                                  \/ PutRefused(c, l) \/ PutFails(c, l)
        PROVE  [Source!Next]_(Source!vars)
    <3>1. UNCHANGED <<SourceState, Told, Users>>
      BY <1>2, <2>5, LoopStutters
    <3> QED
      BY <3>1 DEF Source!vars, Told, Users
  <2> QED
    BY <1>2, <2>1, <2>2, <2>3, <2>4, <2>5 DEF Next, CallStep
<1>3. NotYet /\ [Next]_vars => NotYet'
  BY NextNotYet
<1> QED
  BY <1>1, <1>2, <1>3, UploadsSound, PTL DEF Spec, SourceIsAtomic, Source!Spec

=============================================================================
