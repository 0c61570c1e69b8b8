------------------------- MODULE SpoolDeliveryProofs -------------------------
(***************************************************************************)
(* Proofs about SpoolDelivery.                                             *)
(***************************************************************************)
EXTENDS SpoolDelivery, TLAPS, SequenceTheorems

------------------------------------------------------------------------------
(***************************************************************************)
(* Type correctness.                                                       *)
(***************************************************************************)

LEMMA NoRequestType == NoRequest \in Request
  BY EmptySeq DEF NoRequest, Request

\* What a handler answers keeps the type of the requests.
LEMMA ReplyType ==
  ASSUME TypeOK, NEW r \in Requests, NEW status \in {"accepted", "refused"},
         Reply(r, status)
  PROVE  req' \in [Requests -> Request]
  BY NoRequestType DEF TypeOK, Reply, Request

LEMMA AbandonType ==
  ASSUME TypeOK, Abandon
  PROVE  req' \in [Requests -> Request]
  BY NoRequestType DEF TypeOK, Abandon

\* Between two polls the agent keeps nothing.
LEMMA EndPollType ==
  ASSUME EndPoll
  PROVE  /\ pc' \in {"idle", "reading", "waiting", "marking"}
         /\ todo' \subseteq Names
         /\ batch' \in Seq(Events)
         /\ processed' \subseteq Names
         /\ call' \in Requests \cup {None}
  BY DEF EndPoll

\* The event a handler has come to is an event of its batch.
LEMMA CurrentType ==
  ASSUME TypeOK, NEW r \in Requests, AtEvent(r)
  PROVE  Current(r) \in Events
  BY DEF TypeOK, AtEvent, Current, Request

LEMMA InitType == Init => TypeOK
<1> SUFFICES ASSUME Init PROVE TypeOK
  OBVIOUS
<1>1. <<>> \in Seq(Events)
  BY EmptySeq
<1>2. copies \in [Events -> 0..MaxCopies]
  BY SpoolAssumption DEF Init
<1>3. req \in [Requests -> Request]
  BY NoRequestType DEF Init
<1> QED  BY <1>1, <1>2, <1>3 DEF Init, TypeOK

LEMMA ProgramType ==
  ASSUME TypeOK, Program
  PROVE  TypeOK'
<1> USE DEF dirVars, agentVars, serverVars
<1> SUFFICES ASSUME NEW n \in Names,
                    \/ \E es \in Contents : BeginDrop(n, es)
                    \/ EndDrop(n)
                    \/ \E e \in Events : AppendLine(n, e)
             PROVE  TypeOK'
  BY DEF Program
<1>1. CASE \E es \in Contents : BeginDrop(n, es)
  BY <1>1, SpoolAssumption DEF BeginDrop, TypeOK
<1>2. CASE EndDrop(n)
  <2>1. Range(writing[n]) \subseteq Events
    BY RangeOfSeq DEF TypeOK
  <2> QED  BY <1>2, <2>1 DEF EndDrop, TypeOK
<1>3. CASE \E e \in Events : AppendLine(n, e)
  BY <1>3 DEF AppendLine, TypeOK
<1> QED  BY <1>1, <1>2, <1>3

LEMMA AgentType ==
  ASSUME TypeOK, Agent
  PROVE  TypeOK'
<1> USE DEF dirVars, agentVars, serverVars
<1>1. CASE ReadDir
  BY <1>1 DEF ReadDir, Listing, TypeOK
<1>2. ASSUME NEW n \in Names, ReadFile(n) PROVE TypeOK'
  BY <1>2 DEF ReadFile, TypeOK
<1>3. ASSUME NEW n \in Names, SkipEmptyFile(n) PROVE TypeOK'
  BY <1>3 DEF SkipEmptyFile, TypeOK
<1>4. ASSUME NEW n \in Names, ParseError(n) PROVE TypeOK'
  BY <1>4, EndPollType DEF ParseError, TypeOK
<1>5. CASE NothingToSend
  BY <1>5, EndPollType DEF NothingToSend, TypeOK
<1>6. ASSUME NEW r \in Requests, Post(r) PROVE TypeOK'
  BY <1>6 DEF Post, TypeOK, Request
<1>7. CASE ReceiveAccepted
  BY <1>7, NoRequestType DEF ReceiveAccepted, TypeOK
<1>8. CASE ReceiveRefused
  BY <1>8, NoRequestType, EndPollType, RangeOfSeq DEF ReceiveRefused, TypeOK
<1>9. ASSUME NEW n \in Names, MarkProcessed(n) PROVE TypeOK'
  <2>1. /\ pc' \in {"idle", "reading", "waiting", "marking"}
        /\ todo' \subseteq Names
        /\ batch' \in Seq(Events)
        /\ processed' \subseteq Names
        /\ call' \in Requests \cup {None}
    BY <1>9, EndPollType DEF MarkProcessed, MarkNext, TypeOK
  <2> QED  BY <1>9, <2>1 DEF MarkProcessed, TypeOK
<1> QED
  BY <1>1, <1>2, <1>3, <1>4, <1>5, <1>6, <1>7, <1>8, <1>9 DEF Agent

LEMMA HandlerType ==
  ASSUME TypeOK, NEW r \in Requests, Handler(r)
  PROVE  TypeOK'
<1> USE DEF dirVars, agentVars, serverVars
<1>1. CASE RefuseOversize(r)
  BY <1>1, ReplyType DEF RefuseOversize, TypeOK
<1>2. CASE BeginStore(r)
  BY <1>2 DEF BeginStore, TypeOK, Request
<1>3. CASE InsertEvent(r)
  <2>1. copies' \in [Events -> 0..MaxCopies]
    BY <1>3, CurrentType, SpoolAssumption DEF InsertEvent, TypeOK, OneMore
  <2>2. req' \in [Requests -> Request]
    <3>1. /\ req[r] \in Request
          /\ req' = [req EXCEPT ![r] = [req[r] EXCEPT !.pos = req[r].pos + 1]]
      BY <1>3 DEF InsertEvent, TypeOK
    <3>2. [req[r] EXCEPT !.pos = req[r].pos + 1] \in Request
      BY <3>1 DEF Request
    <3> QED  BY <3>1, <3>2 DEF TypeOK
  <2> QED  BY <1>3, <2>1, <2>2 DEF InsertEvent, TypeOK
<1>4. CASE RejectEvent(r)
  BY <1>4, ReplyType DEF RejectEvent, TypeOK
<1>5. CASE Accept(r)
  BY <1>5, ReplyType DEF Accept, TypeOK
<1>6. CASE Cancelled(r)
  BY <1>6, NoRequestType DEF Cancelled, TypeOK
<1> QED  BY <1>1, <1>2, <1>3, <1>4, <1>5, <1>6 DEF Handler

LEMMA FaultType ==
  ASSUME TypeOK, Fault
  PROVE  TypeOK'
<1> USE DEF dirVars, agentVars, serverVars
<1>1. CASE SendFault
  BY <1>1, EndPollType DEF SendFault, TypeOK
<1>2. CASE Timeout
  BY <1>2, AbandonType, EndPollType, RangeOfSeq DEF Timeout, TypeOK
<1>3. ASSUME NEW r \in Requests, RefuseRequest(r) PROVE TypeOK'
  BY <1>3, ReplyType DEF RefuseRequest, TypeOK
<1>4. ASSUME NEW r \in Requests, StoreFault(r) PROVE TypeOK'
  BY <1>4, ReplyType DEF StoreFault, TypeOK
<1>5. CASE ServerCrash
  BY <1>5, NoRequestType DEF ServerCrash, TypeOK, Request
<1>6. ASSUME NEW n \in Names, RenameFault(n) PROVE TypeOK'
  <2>1. /\ pc' \in {"idle", "reading", "waiting", "marking"}
        /\ todo' \subseteq Names
        /\ batch' \in Seq(Events)
        /\ processed' \subseteq Names
        /\ call' \in Requests \cup {None}
    BY <1>6, EndPollType DEF RenameFault, MarkNext, TypeOK
  <2>2. Range(spool[n]) \subseteq Events
    BY RangeOfSeq DEF TypeOK
  <2> QED  BY <1>6, <2>1, <2>2 DEF RenameFault, TypeOK
<1>7. CASE AgentCrash
  BY <1>7, AbandonType, EndPollType, RangeOfSeq DEF AgentCrash, TypeOK
<1> QED
  BY <1>1, <1>2, <1>3, <1>4, <1>5, <1>6, <1>7 DEF Fault

LEMMA StepType == TypeOK /\ [Next]_vars => TypeOK'
<1> SUFFICES ASSUME TypeOK, [Next]_vars PROVE TypeOK'
  OBVIOUS
<1>1. CASE CalmDown
  BY <1>1 DEF CalmDown, TypeOK, agentVars, serverVars
<1>2. CASE UNCHANGED vars
  BY <1>2 DEF vars, TypeOK, dirVars, agentVars, serverVars
<1> QED
  BY <1>1, <1>2, ProgramType, AgentType, HandlerType, FaultType DEF Next

\* Each variable stays within its type, for any names, events and bounds.
THEOREM TypeCorrect == Spec => []TypeOK
  BY InitType, StepType, PTL DEF Spec

------------------------------------------------------------------------------
(***************************************************************************)
(* The inductive invariant behind the safety properties.  The hard part is *)
(* what is true of an event between two steps of three processes: that the *)
(* files the agent is about to rename hold nothing but what it has read,   *)
(* or what was appended since, and that what it has read is stored by the  *)
(* time the answer says so.                                                *)
(***************************************************************************)

\* A name is written to only when it is free.
WritingInv == \A n \in Names : writing[n] # <<>> => spool[n] = <<>>

\* What is being written is new, and no two files hold the same.
FreshInv ==
  /\ \A n \in Names : Range(writing[n]) \cap emitted = {}
  /\ \A m, n \in Names : m # n => Range(writing[m]) \cap Range(writing[n]) = {}

\* Whatever is spooled, read, sent or stored was completely written before.
EmittedInv ==
  /\ \A n \in Names : Range(spool[n]) \subseteq emitted
  /\ Delivered \subseteq emitted
  /\ raced \subseteq emitted
  /\ Range(batch) \subseteq emitted
  /\ \A r \in Requests : Range(req[r].batch) \subseteq emitted

\* A listed file stays until it is renamed, and a file that was read holds
\* the lines read, and those appended since.
ReadInv ==
  /\ pc # "reading" => todo = {}
  /\ \A n \in todo : spool[n] # <<>> \/ writing[n] # <<>>
  /\ \A n \in processed : /\ spool[n] # <<>>
                          /\ Range(spool[n]) \subseteq Range(batch) \cup raced

\* The agent waits for the request that carries its batch, and renames files
\* only when the batch is stored.
CallInv ==
  /\ pc = "waiting" => call \in Requests /\ req[call].batch = batch
  /\ pc = "marking" => Range(batch) \subseteq Delivered

\* A handler has stored the events before its position; when it accepts, all.
HandlerInv ==
  \A r \in Requests :
    /\ req[r].st = "sent" => req[r].pos = 1
    /\ req[r].st = "storing" =>
         /\ req[r].pos <= Len(req[r].batch) + 1
         /\ \A i \in 1..(req[r].pos - 1) : req[r].batch[i] \in Delivered
    /\ req[r].st = "accepted" => Range(req[r].batch) \subseteq Delivered

RacedInv == raced # {} => Appended # {}

IInv ==
  /\ TypeOK
  /\ WritingInv
  /\ FreshInv
  /\ EmittedInv
  /\ ReadInv
  /\ CallInv
  /\ HandlerInv
  /\ RacedInv
  /\ SentIsStoredOrRaced
  /\ NothingLost

------------------------------------------------------------------------------
(***************************************************************************)
(* Lemmas about sequences and about parts of the state.                    *)
(***************************************************************************)

LEMMA RangeEmpty == Range(<<>>) = {}
  BY DEF Range

LEMMA RangeAppend ==
  ASSUME NEW S, NEW s \in Seq(S), NEW e \in S
  PROVE  Range(Append(s, e)) = Range(s) \cup {e}
<1>1. /\ Append(s, e) \in Seq(S)
      /\ Len(s) \in Nat
      /\ Len(Append(s, e)) = Len(s) + 1
      /\ Append(s, e)[Len(s) + 1] = e
      /\ \A i \in 1..Len(s) : Append(s, e)[i] = s[i]
  OBVIOUS
<1>2. Range(s) = {s[i] : i \in 1..Len(s)}
  BY RangeEquality
<1>3. Range(Append(s, e)) = {Append(s, e)[i] : i \in 1..(Len(s) + 1)}
  BY <1>1, RangeEquality
<1>4. 1..(Len(s) + 1) = 1..Len(s) \cup {Len(s) + 1}
  BY <1>1
<1> QED  BY <1>1, <1>2, <1>3, <1>4

LEMMA DeliveredSame == UNCHANGED copies => Delivered' = Delivered
  BY DEF Delivered

\* A step that leaves the directory and the database alone keeps what is
\* said of them.
LEMMA DirKept ==
  ASSUME IInv, UNCHANGED dirVars, UNCHANGED copies
  PROVE  /\ WritingInv' /\ FreshInv' /\ RacedInv' /\ SentIsStoredOrRaced' /\ NothingLost'
         /\ \A n \in Names : Range(spool'[n]) \subseteq emitted'
         /\ Delivered' \subseteq emitted'
         /\ raced' \subseteq emitted'
  BY DeliveredSame
  DEF IInv, dirVars, WritingInv, FreshInv, RacedInv, SentIsStoredOrRaced, NothingLost, EmittedInv, Spooled

\* Refusing and forgetting requests keeps what is said of them.
LEMMA RequestsDropped ==
  ASSUME IInv, UNCHANGED copies, UNCHANGED emitted,
         \A r \in Requests : req'[r] \in {req[r], NoRequest, [req[r] EXCEPT !.st = "refused"]}
  PROVE  /\ HandlerInv'
         /\ \A r \in Requests : Range(req'[r].batch) \subseteq emitted'
<1> SUFFICES ASSUME NEW r \in Requests
             PROVE  /\ req'[r].st = "sent" => req'[r].pos = 1
                    /\ req'[r].st = "storing" =>
                         /\ req'[r].pos <= Len(req'[r].batch) + 1
                         /\ \A i \in 1..(req'[r].pos - 1) : req'[r].batch[i] \in Delivered'
                    /\ req'[r].st = "accepted" => Range(req'[r].batch) \subseteq Delivered'
                    /\ Range(req'[r].batch) \subseteq emitted'
  BY DEF HandlerInv
<1>0. req[r] \in Request
  BY DEF IInv, TypeOK
<1>1. CASE req'[r] = req[r]
  BY <1>1, DeliveredSame DEF IInv, HandlerInv, EmittedInv
<1>2. CASE req'[r] = NoRequest
  BY <1>2, RangeEmpty DEF NoRequest
<1>3. CASE req'[r] = [req[r] EXCEPT !.st = "refused"]
  <2>1. req'[r].st = "refused" /\ req'[r].batch = req[r].batch
    BY <1>0, <1>3 DEF Request
  <2> QED  BY <2>1 DEF IInv, EmittedInv
<1> QED  BY <1>1, <1>2, <1>3

\* The end of a poll leaves nothing to say of the agent.
LEMMA PollEnded ==
  ASSUME EndPoll
  PROVE  ReadInv' /\ CallInv' /\ Range(batch') = {}
  BY RangeEmpty DEF EndPoll, ReadInv, CallInv

LEMMA AbandonDrops ==
  ASSUME IInv, Abandon
  PROVE  \A r \in Requests : req'[r] \in {req[r], NoRequest, [req[r] EXCEPT !.st = "refused"]}
  BY DEF Abandon, IInv, TypeOK

\* A poll that ends, whatever becomes of its request, keeps the invariant.
LEMMA PollEndKeeps ==
  ASSUME IInv, TypeOK', EndPoll, UNCHANGED dirVars, UNCHANGED copies,
         \A r \in Requests : req'[r] \in {req[r], NoRequest, [req[r] EXCEPT !.st = "refused"]}
  PROVE  IInv'
<1>1. UNCHANGED emitted
  BY DEF dirVars
<1> QED  BY <1>1, DirKept, RequestsDropped, PollEnded DEF IInv, EmittedInv

\* An answer keeps the invariant if an acceptance says what is stored.
LEMMA ReplyKeeps ==
  ASSUME IInv, TypeOK', NEW r \in Requests, NEW status \in {"accepted", "refused"},
         Reply(r, status), UNCHANGED dirVars, UNCHANGED agentVars, UNCHANGED copies,
         status = "accepted" => Range(req[r].batch) \subseteq Delivered
  PROVE  IInv'
<1>0. req \in [Requests -> Request]
  BY DEF IInv, TypeOK
<1>1. HandlerInv' /\ \A q \in Requests : Range(req'[q].batch) \subseteq emitted'
  <2>1. \A q \in Requests \ {r} : req'[q] = req[q]
    BY <1>0 DEF Reply
  <2>2. req'[r] \in {NoRequest, [req[r] EXCEPT !.st = status]}
    BY <1>0 DEF Reply
  <2>3. CASE status = "refused"
    BY <2>1, <2>2, <2>3, RequestsDropped DEF dirVars
  <2>4. CASE status = "accepted" /\ req'[r] = NoRequest
    BY <2>1, <2>4, RequestsDropped DEF dirVars
  <2>5. CASE status = "accepted" /\ req'[r] = [req[r] EXCEPT !.st = status]
    <3>1. req'[r].st = "accepted" /\ req'[r].batch = req[r].batch
      BY <1>0, <2>5 DEF Request
    <3> QED  BY <2>1, <2>5, <3>1, DeliveredSame DEF IInv, HandlerInv, EmittedInv, dirVars
  <2> QED  BY <2>2, <2>3, <2>4, <2>5
<1>2. CallInv'
  <2>1. ASSUME call \in Requests PROVE req'[call].batch = req[call].batch
    BY <1>0, <2>1 DEF Reply, Request
  <2> QED  BY <2>1, DeliveredSame DEF IInv, CallInv, agentVars
<1>3. ReadInv'
  BY DEF IInv, ReadInv, agentVars, dirVars
<1>4. Range(batch') \subseteq emitted'
  BY DEF IInv, EmittedInv, agentVars, dirVars
<1> QED  BY <1>1, <1>2, <1>3, <1>4, DirKept DEF IInv, EmittedInv

------------------------------------------------------------------------------
(***************************************************************************)
(* The invariant is inductive: one lemma for each part of Next.            *)
(***************************************************************************)

LEMMA InitInv == Init => IInv
<1> SUFFICES ASSUME Init PROVE IInv
  OBVIOUS
<1>1. Delivered = {}
  BY DEF Init, Delivered
<1>2. \A r \in Requests : req[r] = NoRequest
  BY DEF Init
<1> QED
  BY <1>1, <1>2, InitType, RangeEmpty
  DEF Init, IInv, WritingInv, FreshInv, EmittedInv, ReadInv, CallInv, HandlerInv, RacedInv,
      SentIsStoredOrRaced, NothingLost, NoRequest

LEMMA ProgramInv ==
  ASSUME IInv, Program
  PROVE  IInv'
<1>0. TypeOK' /\ Delivered' = Delivered
  BY ProgramType, DeliveredSame DEF IInv, Program, BeginDrop, EndDrop, AppendLine, serverVars
<1> SUFFICES ASSUME NEW n \in Names,
                    \/ \E es \in Contents : BeginDrop(n, es)
                    \/ EndDrop(n)
                    \/ \E e \in Events : AppendLine(n, e)
             PROVE  IInv'
  BY DEF Program
<1> USE DEF agentVars, serverVars
<1>1. ASSUME NEW es \in Contents, BeginDrop(n, es) PROVE IInv'
  <2>1. /\ writing \in [Names -> Seq(Events)]
        /\ writing' = [writing EXCEPT ![n] = es]
        /\ spool[n] = <<>>
        /\ UNCHANGED <<calm, spool, sent, emitted, raced, agentVars, serverVars>>
    BY <1>1 DEF BeginDrop, IInv, TypeOK
  <2>2. WritingInv'
    BY <2>1 DEF IInv, WritingInv
  <2>3. FreshInv'
    <3>1. Range(es) \cap emitted = {} /\ \A m \in Names : Range(es) \cap Range(writing[m]) = {}
      BY <1>1 DEF BeginDrop, Claimed
    <3> QED  BY <2>1, <3>1 DEF IInv, FreshInv
  <2>4. ReadInv'
    <3>1. es # <<>>
      BY SpoolAssumption
    <3> QED  BY <2>1, <3>1 DEF IInv, ReadInv
  <2> QED
    BY <1>0, <2>1, <2>2, <2>3, <2>4
    DEF IInv, EmittedInv, CallInv, HandlerInv, RacedInv, SentIsStoredOrRaced, NothingLost, Spooled
<1>2. CASE EndDrop(n)
  <2>1. /\ writing \in [Names -> Seq(Events)] /\ spool \in [Names -> Seq(Events)]
        /\ writing[n] # <<>> /\ spool[n] = <<>>
        /\ spool' = [spool EXCEPT ![n] = writing[n]]
        /\ writing' = [writing EXCEPT ![n] = <<>>]
        /\ emitted' = emitted \cup Range(writing[n])
        /\ UNCHANGED <<calm, sent, raced, agentVars, serverVars>>
    BY <1>2 DEF EndDrop, IInv, TypeOK, WritingInv
  <2>2. WritingInv'
    BY <2>1 DEF IInv, WritingInv
  <2>3. FreshInv'
    BY <2>1, RangeEmpty DEF IInv, FreshInv
  <2>4. EmittedInv'
    BY <1>0, <2>1 DEF IInv, EmittedInv
  <2>5. ReadInv'
    BY <2>1 DEF IInv, ReadInv
  <2>6. NothingLost'
    <3>1. Spooled' = Spooled \cup Range(writing[n])
      BY <2>1, RangeEmpty DEF Spooled
    <3> QED  BY <1>0, <2>1, <3>1 DEF IInv, NothingLost
  <2> QED
    BY <1>0, <2>1, <2>2, <2>3, <2>4, <2>5, <2>6
    DEF IInv, CallInv, HandlerInv, RacedInv, SentIsStoredOrRaced
<1>3. ASSUME NEW e \in Events, AppendLine(n, e) PROVE IInv'
  <2>1. /\ writing \in [Names -> Seq(Events)] /\ spool \in [Names -> Seq(Events)]
        /\ e \in Appended /\ writing[n] = <<>>
        /\ spool' = [spool EXCEPT ![n] = Append(spool[n], e)]
        /\ emitted' = emitted \cup {e}
        /\ raced' = IF n \in processed THEN raced \cup {e} ELSE raced
        /\ UNCHANGED <<calm, sent, writing, agentVars, serverVars>>
    BY <1>3 DEF AppendLine, IInv, TypeOK
  <2>2. Range(Append(spool[n], e)) = Range(spool[n]) \cup {e} /\ Append(spool[n], e) # <<>>
    <3>1. spool[n] \in Seq(Events)
      BY <2>1
    <3>2. Append(spool[n], e) # <<>>
      BY <3>1
    <3> QED  BY <3>1, <3>2, RangeAppend
  <2>3. WritingInv'
    BY <2>1 DEF IInv, WritingInv
  <2>4. FreshInv'
    <3>1. \A m \in Names : e \notin Range(writing[m])
      BY <1>3 DEF AppendLine, Claimed
    <3> QED  BY <2>1, <3>1 DEF IInv, FreshInv
  <2>5. EmittedInv'
    BY <1>0, <2>1, <2>2 DEF IInv, EmittedInv
  <2>6. ReadInv'
    BY <2>1, <2>2 DEF IInv, ReadInv
  <2>7. NothingLost'
    <3>1. Spooled' = Spooled \cup {e}
      BY <2>1, <2>2 DEF Spooled
    <3> QED  BY <1>0, <2>1, <3>1 DEF IInv, NothingLost
  <2> QED
    BY <1>0, <2>1, <2>3, <2>4, <2>5, <2>6, <2>7
    DEF IInv, CallInv, HandlerInv, RacedInv, SentIsStoredOrRaced
<1> QED  BY <1>1, <1>2, <1>3

LEMMA AgentInv ==
  ASSUME IInv, Agent
  PROVE  IInv'
<1>0. TypeOK'
  BY AgentType DEF IInv
<1>t. /\ batch \in Seq(Events) /\ processed \subseteq Names
      /\ spool \in [Names -> Seq(Events)] /\ sent \in [Names -> Seq(Events)]
      /\ req \in [Requests -> Request]
  BY DEF IInv, TypeOK
<1> USE DEF agentVars, serverVars
<1>1. CASE ReadDir
  <2>1. /\ todo' = Listing /\ pc' = "reading"
        /\ UNCHANGED <<batch, processed, call, retried, dirVars, serverVars>>
    BY <1>1 DEF ReadDir
  <2>2. ReadInv'
    BY <2>1 DEF Listing, IInv, ReadInv, dirVars
  <2> QED
    BY <1>0, <2>1, <2>2, DirKept, DeliveredSame DEF IInv, EmittedInv, CallInv, HandlerInv, dirVars
<1>2. ASSUME NEW n \in Names, ReadFile(n) PROVE IInv'
  <2>1. /\ pc = "reading" /\ n \in todo /\ writing[n] = <<>>
        /\ batch' = batch \o spool[n]
        /\ processed' = processed \cup {n}
        /\ todo' = todo \ {n}
        /\ UNCHANGED <<pc, call, retried, dirVars, serverVars>>
    BY <1>2 DEF ReadFile, IsNext, Unparsable
  <2>2. Range(batch') = Range(batch) \cup Range(spool[n])
    <3>1. spool[n] \in Seq(Events)
      BY <1>t
    <3> QED  BY <1>t, <2>1, <3>1, RangeConcatenation
  <2>3. ReadInv'
    BY <2>1, <2>2 DEF IInv, ReadInv, dirVars
  <2>4. EmittedInv'
    BY <2>1, <2>2, DirKept DEF IInv, EmittedInv, dirVars
  <2> QED
    BY <1>0, <2>1, <2>3, <2>4, DirKept, DeliveredSame DEF IInv, CallInv, HandlerInv
<1>3. ASSUME NEW n \in Names, SkipEmptyFile(n) PROVE IInv'
  <2>1. /\ pc = "reading" /\ todo' = todo \ {n}
        /\ UNCHANGED <<pc, batch, processed, call, retried, dirVars, serverVars>>
    BY <1>3 DEF SkipEmptyFile
  <2>2. ReadInv'
    BY <2>1 DEF IInv, ReadInv, dirVars
  <2> QED
    BY <1>0, <2>1, <2>2, DirKept, DeliveredSame DEF IInv, EmittedInv, CallInv, HandlerInv, dirVars
<1>4. ASSUME NEW n \in Names, ParseError(n) PROVE IInv'
  BY <1>0, <1>4, PollEndKeeps DEF ParseError
<1>5. CASE NothingToSend
  BY <1>0, <1>5, PollEndKeeps DEF NothingToSend
<1>6. ASSUME NEW r \in Requests, Post(r) PROVE IInv'
  <2>1. /\ todo = {} /\ pc' = "waiting" /\ call' = r
        /\ req' = [req EXCEPT ![r] = [st |-> "sent", batch |-> batch, pos |-> 1]]
        /\ UNCHANGED <<todo, batch, processed, retried, dirVars, copies>>
    BY <1>6 DEF Post
  <2>2. HandlerInv'
    BY <1>t, <2>1, DeliveredSame DEF IInv, HandlerInv
  <2>3. ReadInv' /\ CallInv' /\ EmittedInv'
    BY <1>t, <2>1, DirKept DEF IInv, ReadInv, CallInv, EmittedInv, dirVars
  <2> QED  BY <1>0, <2>1, <2>2, <2>3, DirKept DEF IInv
<1>7. CASE ReceiveAccepted
  <2>1. /\ pc = "waiting" /\ req[call].st = "accepted"
        /\ pc' = "marking" /\ call' = None
        /\ req' = [req EXCEPT ![call] = NoRequest]
        /\ UNCHANGED <<todo, batch, processed, retried, dirVars, copies>>
    BY <1>7 DEF ReceiveAccepted
  <2>2. HandlerInv' /\ \A r \in Requests : Range(req'[r].batch) \subseteq emitted'
    BY <1>t, <2>1, RequestsDropped DEF dirVars
  <2>3. Range(batch) \subseteq Delivered
    BY <2>1 DEF IInv, CallInv, HandlerInv
  <2>4. ReadInv' /\ CallInv'
    BY <2>1, <2>3, DeliveredSame DEF IInv, ReadInv, CallInv, dirVars
  <2>5. EmittedInv'
    BY <2>1, <2>2, DirKept DEF IInv, EmittedInv, dirVars
  <2> QED  BY <1>0, <2>1, <2>2, <2>4, <2>5, DirKept DEF IInv
<1>8. CASE ReceiveRefused
  <2>1. \A r \in Requests : req'[r] \in {req[r], NoRequest, [req[r] EXCEPT !.st = "refused"]}
    BY <1>t, <1>8 DEF ReceiveRefused
  <2> QED  BY <1>0, <1>8, <2>1, PollEndKeeps DEF ReceiveRefused
<1>9. ASSUME NEW n \in Names, MarkProcessed(n) PROVE IInv'
  <2>1. /\ pc = "marking" /\ n \in processed
        /\ sent' = [sent EXCEPT ![n] = spool[n]]
        /\ spool' = [spool EXCEPT ![n] = <<>>]
        /\ MarkNext(n)
        /\ UNCHANGED <<calm, writing, emitted, raced, retried, serverVars>>
    BY <1>9 DEF MarkProcessed, IsNext
  <2>2. Range(spool[n]) \subseteq Delivered \cup raced
    BY <2>1 DEF IInv, ReadInv, CallInv
  <2>3. Delivered' = Delivered
    BY <2>1, DeliveredSame
  <2>4. WritingInv' /\ FreshInv'
    BY <1>t, <2>1 DEF IInv, WritingInv, FreshInv
  <2>5. SentIsStoredOrRaced'
    BY <1>t, <2>1, <2>2, <2>3 DEF IInv, SentIsStoredOrRaced
  <2>6. NothingLost'
    <3>1. \A m \in Names : m # n => spool'[m] = spool[m]
      BY <1>t, <2>1
    <3>2. Spooled \subseteq Spooled' \cup Range(spool[n])
      BY <3>1 DEF Spooled
    <3> QED  BY <2>1, <2>2, <2>3, <3>2 DEF IInv, NothingLost
  <2>7. /\ \A m \in Names : Range(spool'[m]) \subseteq emitted'
        /\ Delivered' \subseteq emitted' /\ raced' \subseteq emitted'
        /\ \A r \in Requests : Range(req'[r].batch) \subseteq emitted'
    BY <1>t, <2>1, <2>3, RangeEmpty DEF IInv, EmittedInv
  <2>8. CASE processed = {n}
    <3>1. EndPoll
      BY <2>1, <2>8 DEF MarkNext
    <3> QED
      BY <1>0, <2>1, <2>3, <2>4, <2>5, <2>6, <2>7, <3>1, PollEnded
      DEF IInv, EmittedInv, HandlerInv, RacedInv
  <2>9. CASE processed # {n}
    <3>1. processed' = processed \ {n} /\ UNCHANGED <<pc, todo, batch, call>>
      BY <2>1, <2>9 DEF MarkNext
    <3>2. ReadInv'
      BY <1>t, <2>1, <3>1 DEF IInv, ReadInv
    <3>3. CallInv'
      BY <2>1, <2>3, <3>1 DEF IInv, CallInv
    <3> QED
      BY <1>0, <2>1, <2>3, <2>4, <2>5, <2>6, <2>7, <3>1, <3>2, <3>3
      DEF IInv, EmittedInv, HandlerInv, RacedInv
  <2> QED  BY <2>8, <2>9
<1> QED
  BY <1>1, <1>2, <1>3, <1>4, <1>5, <1>6, <1>7, <1>8, <1>9 DEF Agent

LEMMA StepHandlerInv ==
  ASSUME IInv, NEW r \in Requests, Handler(r)
  PROVE  IInv'
<1>0. TypeOK'
  BY HandlerType DEF IInv
<1>t. req \in [Requests -> Request] /\ req[r] \in Request /\ copies \in [Events -> 0..MaxCopies]
  BY DEF IInv, TypeOK
<1> USE DEF agentVars, serverVars
<1>1. CASE RefuseOversize(r)
  BY <1>0, <1>1, ReplyKeeps DEF RefuseOversize
<1>2. CASE BeginStore(r)
  <2>1. /\ req[r].st = "sent"
        /\ req' = [req EXCEPT ![r] = [req[r] EXCEPT !.st = "storing"]]
        /\ UNCHANGED <<dirVars, agentVars, copies>>
    BY <1>2 DEF BeginStore
  <2>2. /\ req'[r].pos = req[r].pos /\ req'[r].batch = req[r].batch /\ req'[r].st = "storing"
        /\ \A q \in Requests : q # r => req'[q] = req[q]
    BY <1>t, <2>1 DEF Request
  <2>3. HandlerInv'
    <3>1. req[r].pos = 1 /\ Len(req[r].batch) \in Nat
      BY <1>t, <2>1 DEF IInv, HandlerInv, Request
    <3>2. 1..(req'[r].pos - 1) = {}
      BY <2>2, <3>1
    <3> QED  BY <2>1, <2>2, <3>1, <3>2, DeliveredSame DEF IInv, HandlerInv
  <2>4. CallInv' /\ ReadInv' /\ EmittedInv'
    BY <2>1, <2>2, DeliveredSame DEF IInv, CallInv, ReadInv, EmittedInv, dirVars
  <2> QED  BY <1>0, <2>1, <2>3, <2>4, DirKept DEF IInv
<1>3. CASE InsertEvent(r)
  <2> DEFINE e == req[r].batch[req[r].pos]
  <2>1. /\ req[r].st = "storing" /\ req[r].pos \in 1..Len(req[r].batch)
        /\ copies' = [copies EXCEPT ![e] = OneMore(copies[e])]
        /\ req' = [req EXCEPT ![r] = [req[r] EXCEPT !.pos = req[r].pos + 1]]
        /\ UNCHANGED <<dirVars, agentVars>>
    BY <1>3, <1>t DEF InsertEvent, AtEvent, Current, Request
  <2>2. e \in Events /\ e \in Range(req[r].batch) /\ req[r].batch \in Seq(Events)
    BY <1>t, <2>1, RangeEquality DEF Request
  <2>3. Delivered' = Delivered \cup {e}
    <3>1. \A k \in 0..MaxCopies : OneMore(k) \in 1..MaxCopies
      BY SpoolAssumption DEF OneMore
    <3>2. copies'[e] > 0 /\ \A f \in Events : f # e => copies'[f] = copies[f]
      BY <1>t, <2>1, <2>2, <3>1
    <3> QED  BY <2>2, <3>2 DEF Delivered
  <2>4. /\ req'[r].pos = req[r].pos + 1 /\ req'[r].batch = req[r].batch /\ req'[r].st = "storing"
        /\ \A q \in Requests : q # r => req'[q] = req[q]
    BY <1>t, <2>1 DEF Request
  <2>5. HandlerInv'
    <3>1. req[r].pos \in Nat /\ Len(req[r].batch) \in Nat
      BY <1>t, <2>1 DEF Request
    <3>2. req'[r].pos <= Len(req'[r].batch) + 1
      BY <2>1, <2>4, <3>1
    <3>3. ASSUME NEW i \in 1..(req'[r].pos - 1) PROVE req'[r].batch[i] \in Delivered'
      <4>1. i \in 1..(req[r].pos - 1) \/ i = req[r].pos
        BY <2>4, <3>1
      <4> QED  BY <2>1, <2>3, <2>4, <4>1 DEF IInv, HandlerInv
    <3> QED  BY <2>3, <2>4, <3>2, <3>3 DEF IInv, HandlerInv
  <2>6. EmittedInv'
    BY <2>1, <2>2, <2>3, <2>4 DEF IInv, EmittedInv, dirVars
  <2>7. CallInv' /\ ReadInv' /\ SentIsStoredOrRaced' /\ NothingLost'
    BY <2>1, <2>3, <2>4 DEF IInv, CallInv, ReadInv, SentIsStoredOrRaced, NothingLost, Spooled, dirVars
  <2>8. WritingInv' /\ FreshInv' /\ RacedInv'
    BY <2>1 DEF IInv, WritingInv, FreshInv, RacedInv, dirVars
  <2> QED  BY <1>0, <2>5, <2>6, <2>7, <2>8 DEF IInv
<1>4. CASE RejectEvent(r)
  BY <1>0, <1>4, ReplyKeeps DEF RejectEvent
<1>5. CASE Accept(r)
  <2>1. /\ req[r].st = "storing" /\ req[r].pos > Len(req[r].batch)
        /\ Reply(r, "accepted") /\ UNCHANGED <<dirVars, agentVars, copies>>
    BY <1>5 DEF Accept
  <2>2. Range(req[r].batch) \subseteq Delivered
    <3>0. req[r].batch \in Seq(Events) /\ req[r].pos \in Nat
      BY <1>t DEF Request
    <3>1. /\ req[r].pos \in Nat /\ Len(req[r].batch) \in Nat
          /\ Range(req[r].batch) = {req[r].batch[i] : i \in 1..Len(req[r].batch)}
      BY <3>0, RangeEquality
    <3>2. 1..Len(req[r].batch) \subseteq 1..(req[r].pos - 1)
      BY <2>1, <3>1
    <3> QED  BY <2>1, <3>1, <3>2 DEF IInv, HandlerInv
  <2> QED  BY <1>0, <2>1, <2>2, ReplyKeeps
<1>6. CASE Cancelled(r)
  <2>1. /\ call # r /\ req' = [req EXCEPT ![r] = NoRequest]
        /\ UNCHANGED <<dirVars, agentVars, copies>>
    BY <1>6 DEF Cancelled
  <2>2. HandlerInv' /\ \A q \in Requests : Range(req'[q].batch) \subseteq emitted'
    BY <1>t, <2>1, RequestsDropped DEF dirVars
  <2>3. CallInv' /\ ReadInv' /\ EmittedInv'
    BY <1>t, <2>1, <2>2, DeliveredSame DEF IInv, CallInv, ReadInv, EmittedInv, dirVars
  <2> QED  BY <1>0, <2>1, <2>2, <2>3, DirKept DEF IInv
<1> QED  BY <1>1, <1>2, <1>3, <1>4, <1>5, <1>6 DEF Handler

LEMMA FaultInv ==
  ASSUME IInv, Fault
  PROVE  IInv'
<1>0. TypeOK'
  BY FaultType DEF IInv
<1>t. /\ req \in [Requests -> Request] /\ spool \in [Names -> Seq(Events)]
      /\ processed \subseteq Names
  BY DEF IInv, TypeOK
<1> USE DEF agentVars, serverVars
<1>1. CASE SendFault
  BY <1>0, <1>1, PollEndKeeps DEF SendFault
<1>2. CASE Timeout
  BY <1>0, <1>2, PollEndKeeps, AbandonDrops DEF Timeout
<1>3. ASSUME NEW r \in Requests, RefuseRequest(r) PROVE IInv'
  BY <1>0, <1>3, ReplyKeeps DEF RefuseRequest
<1>4. ASSUME NEW r \in Requests, StoreFault(r) PROVE IInv'
  BY <1>0, <1>4, ReplyKeeps DEF StoreFault
<1>5. CASE ServerCrash
  <2>1. /\ req' = [r \in Requests |-> IF call = r THEN [req[r] EXCEPT !.st = "refused"]
                                                 ELSE NoRequest]
        /\ UNCHANGED <<dirVars, agentVars, copies>>
    BY <1>5 DEF ServerCrash
  <2>2. HandlerInv' /\ \A r \in Requests : Range(req'[r].batch) \subseteq emitted'
    BY <2>1, RequestsDropped DEF dirVars
  <2>3. ASSUME call \in Requests PROVE req'[call].batch = req[call].batch
    BY <1>t, <2>1, <2>3 DEF Request
  <2>4. CallInv' /\ ReadInv' /\ EmittedInv'
    BY <2>1, <2>2, <2>3, DeliveredSame DEF IInv, CallInv, ReadInv, EmittedInv, dirVars
  <2> QED  BY <1>0, <2>1, <2>2, <2>4, DirKept DEF IInv
<1>6. ASSUME NEW n \in Names, RenameFault(n) PROVE IInv'
  <2>1. /\ pc = "marking" /\ MarkNext(n)
        /\ UNCHANGED dirVars /\ UNCHANGED copies /\ UNCHANGED req
    BY <1>6 DEF RenameFault
  <2>2. CASE processed = {n}
    BY <1>0, <2>1, <2>2, PollEndKeeps DEF MarkNext
  <2>3. CASE processed # {n}
    <3>1. processed' = processed \ {n} /\ UNCHANGED <<pc, todo, batch, call>>
      BY <2>1, <2>3 DEF MarkNext
    <3>2. ReadInv' /\ CallInv' /\ HandlerInv' /\ EmittedInv'
      BY <2>1, <3>1, DeliveredSame
      DEF IInv, ReadInv, CallInv, HandlerInv, EmittedInv, dirVars
    <3> QED  BY <1>0, <2>1, <3>2, DirKept DEF IInv
  <2> QED  BY <2>2, <2>3
<1>7. CASE AgentCrash
  BY <1>0, <1>7, PollEndKeeps, AbandonDrops DEF AgentCrash
<1> QED
  BY <1>1, <1>2, <1>3, <1>4, <1>5, <1>6, <1>7 DEF Fault

LEMMA StepInv == IInv /\ [Next]_vars => IInv'
<1> SUFFICES ASSUME IInv, [Next]_vars PROVE IInv'
  OBVIOUS
<1>1. ASSUME UNCHANGED <<spool, sent, writing, emitted, raced, agentVars, serverVars>>
      PROVE  IInv'
  <2>1. TypeOK'
    BY <1>1, StepType DEF IInv
  <2>2. Delivered' = Delivered
    BY <1>1, DeliveredSame DEF serverVars
  <2>3. /\ UNCHANGED <<spool, sent, writing, emitted, raced>>
        /\ UNCHANGED <<pc, todo, batch, processed, call, req, copies>>
    BY <1>1 DEF agentVars, serverVars
  <2>4. WritingInv' /\ FreshInv'
    BY <2>3 DEF IInv, WritingInv, FreshInv
  <2>5. ReadInv' /\ CallInv'
    BY <2>2, <2>3 DEF IInv, ReadInv, CallInv
  <2>6. EmittedInv' /\ HandlerInv'
    BY <2>2, <2>3 DEF IInv, EmittedInv, HandlerInv
  <2>7. RacedInv' /\ SentIsStoredOrRaced' /\ NothingLost'
    BY <2>2, <2>3 DEF IInv, RacedInv, SentIsStoredOrRaced, NothingLost, Spooled
  <2> QED
    BY <2>1, <2>4, <2>5, <2>6, <2>7 DEF IInv
<1>2. CASE CalmDown
  BY <1>1, <1>2 DEF CalmDown
<1>3. CASE UNCHANGED vars
  BY <1>1, <1>3 DEF vars, dirVars
<1> QED
  BY <1>2, <1>3, ProgramInv, AgentInv, StepHandlerInv, FaultInv DEF Next

LEMMA Invariance == Spec => []IInv
  BY InitInv, StepInv, PTL DEF Spec

------------------------------------------------------------------------------
(***************************************************************************)
(* The safety properties.                                                  *)
(***************************************************************************)

\* No event a program completed is ever lost, but for lines appended to a
\* file between its read and its rename.
THEOREM NothingIsLost == Spec => []NothingLost
<1>1. IInv => NothingLost
  BY DEF IInv
<1> QED  BY <1>1, Invariance, PTL

\* What is in .sent files is stored, but for lines appended to a file between
\* its read and its rename.
THEOREM SentFilesAreStored == Spec => []SentIsStoredOrRaced
<1>1. IInv => SentIsStoredOrRaced
  BY DEF IInv
<1> QED  BY <1>1, Invariance, PTL

\* When programs drop whole files only, all of it is.
THEOREM WholeFilesAreStored ==
  ASSUME Appended = {}
  PROVE  Spec => []SentIsStored
<1>1. IInv => SentIsStored
  BY DEF IInv, RacedInv, SentIsStoredOrRaced, SentIsStored
<1> QED  BY <1>1, Invariance, PTL

------------------------------------------------------------------------------
(***************************************************************************)
(* The spool implements the at-least-once promise.  Completing a file is   *)
(* Submit, the insert of an event that was not stored before is Deliver,   *)
(* the rename of a file is Retire, and every other step is a stutter.      *)
(***************************************************************************)

LEMMA SamePromise ==
  ASSUME UNCHANGED spool, UNCHANGED raced, UNCHANGED copies
  PROVE  UNCHANGED Promise!promiseVars
  BY DEF Promise!promiseVars, Spooled, Delivered

LEMMA EndDropSubmits ==
  ASSUME IInv, NEW n \in Names, EndDrop(n)
  PROVE  Promise!Submit(Range(writing[n])) /\ Range(writing[n]) \in SUBSET Events
<1>1. /\ spool \in [Names -> Seq(Events)] /\ writing[n] \in Seq(Events)
      /\ writing[n] # <<>> /\ spool[n] = <<>>
      /\ spool' = [spool EXCEPT ![n] = writing[n]]
      /\ UNCHANGED copies /\ UNCHANGED raced
  BY DEF EndDrop, serverVars, IInv, TypeOK, WritingInv
<1>2. Range(writing[n]) # {} /\ Range(writing[n]) \subseteq Events
  <2>1. Len(writing[n]) \in Nat /\ Len(writing[n]) # 0
    BY <1>1
  <2>2. Range(writing[n]) = {writing[n][i] : i \in 1..Len(writing[n])}
    BY <1>1, RangeEquality
  <2>3. 1 \in 1..Len(writing[n])
    BY <2>1
  <2>4. writing[n][1] \in Range(writing[n])
    BY <2>2, <2>3
  <2>5. Range(writing[n]) \subseteq Events
    BY <1>1, RangeOfSeq
  <2> QED  BY <2>4, <2>5
<1>3. Range(writing[n]) \cap (Spooled \cup raced \cup Delivered) = {}
  BY DEF IInv, FreshInv, EmittedInv, Spooled
<1>4. Spooled' = Spooled \cup Range(writing[n])
  BY <1>1, RangeEmpty DEF Spooled
<1> QED  BY <1>1, <1>2, <1>3, <1>4, DeliveredSame DEF Promise!Submit

LEMMA AppendSubmits ==
  ASSUME IInv, NEW n \in Names, NEW e \in Events, AppendLine(n, e)
  PROVE  Promise!Submit({e})
<1>1. /\ spool \in [Names -> Seq(Events)] /\ e \notin emitted
      /\ spool' = [spool EXCEPT ![n] = Append(@, e)]
      /\ raced' \in {raced, raced \cup {e}}
      /\ UNCHANGED copies
  BY DEF AppendLine, Claimed, serverVars, IInv, TypeOK
<1>2. e \notin Spooled \cup raced \cup Delivered
  BY <1>1 DEF IInv, EmittedInv, Spooled
<1>3. Range(spool'[n]) = Range(spool[n]) \cup {e}
  BY <1>1, RangeAppend
<1>4. Spooled' = Spooled \cup {e}
  BY <1>1, <1>3 DEF Spooled
<1> QED  BY <1>1, <1>2, <1>4, DeliveredSame DEF Promise!Submit

LEMMA MarkRetires ==
  ASSUME IInv, NEW n \in Names, MarkProcessed(n)
  PROVE  Promise!Next
<1> DEFINE S == Spooled \ (Spooled' \cup raced)
<1>1. /\ spool \in [Names -> Seq(Events)]
      /\ pc = "marking" /\ n \in processed
      /\ spool' = [spool EXCEPT ![n] = <<>>]
      /\ UNCHANGED copies /\ UNCHANGED raced
  BY DEF MarkProcessed, IsNext, serverVars, IInv, TypeOK
<1>2. Range(spool[n]) \subseteq Delivered \cup raced
  BY <1>1 DEF IInv, ReadInv, CallInv
<1>3. Spooled' \subseteq Spooled /\ S \subseteq Range(spool[n])
  BY <1>1, RangeEmpty DEF Spooled
<1>4. Spooled \subseteq Events
  BY DEF IInv, TypeOK, EmittedInv, Spooled
<1>5. /\ S \subseteq Delivered
      /\ (Spooled \cup raced)' = (Spooled \cup raced) \ S
  BY <1>1, <1>2, <1>3
<1>6. Promise!Retire(S)
  BY <1>1, <1>5, DeliveredSame DEF Promise!Retire
<1>7. S \in SUBSET Events
  BY <1>4
<1> QED  BY <1>6, <1>7 DEF Promise!Next

LEMMA InsertDelivers ==
  ASSUME IInv, NEW r \in Requests, InsertEvent(r)
  PROVE  [Promise!Next]_(Promise!promiseVars)
<1> DEFINE e == Current(r)
<1>1. /\ AtEvent(r) /\ copies \in [Events -> 0..MaxCopies] /\ req[r] \in Request
      /\ copies' = [copies EXCEPT ![e] = OneMore(copies[e])]
      /\ UNCHANGED spool /\ UNCHANGED raced
  BY DEF InsertEvent, dirVars, IInv, TypeOK
<1>2. e \in Events
  BY <1>1, CurrentType DEF IInv
<1>3. e \in Spooled \cup raced \cup Delivered
  <2>1. e \in Range(req[r].batch)
    <3>1. req[r].batch \in Seq(Events) /\ req[r].pos \in 1..Len(req[r].batch)
      BY <1>1 DEF AtEvent, Request
    <3> QED  BY <3>1, RangeEquality DEF Current
  <2> QED  BY <2>1 DEF IInv, EmittedInv, NothingLost
<1>4. Delivered' = Delivered \cup {e}
  <2>1. \A k \in 0..MaxCopies : OneMore(k) \in 1..MaxCopies
    BY SpoolAssumption DEF OneMore
  <2>2. copies'[e] > 0 /\ \A f \in Events : f # e => copies'[f] = copies[f]
    BY <1>1, <1>2, <2>1
  <2> QED  BY <1>2, <2>2 DEF Delivered
<1>5. (Spooled \cup raced)' = Spooled \cup raced
  BY <1>1 DEF Spooled
<1>6. CASE e \in Spooled \cup raced
  BY <1>2, <1>4, <1>5, <1>6 DEF Promise!Deliver, Promise!Next
<1>7. CASE e \in Delivered
  BY <1>4, <1>5, <1>7 DEF Promise!promiseVars
<1> QED  BY <1>3, <1>6, <1>7

LEMMA StepRefines ==
  ASSUME IInv, [Next]_vars
  PROVE  [Promise!Next]_(Promise!promiseVars)
<1> USE DEF vars, dirVars, agentVars, serverVars
<1>1. CASE Program
  <2>1. PICK n \in Names : \/ \E es \in Contents : BeginDrop(n, es)
                           \/ EndDrop(n)
                           \/ \E e \in Events : AppendLine(n, e)
    BY <1>1 DEF Program
  <2>2. CASE EndDrop(n)
    BY <2>2, EndDropSubmits DEF Promise!Next
  <2>3. CASE \E es \in Contents : BeginDrop(n, es)
    BY <2>3, SamePromise DEF BeginDrop
  <2>4. ASSUME NEW e \in Events, AppendLine(n, e)
        PROVE  [Promise!Next]_(Promise!promiseVars)
    BY <2>4, AppendSubmits DEF Promise!Next
  <2> QED  BY <2>1, <2>2, <2>3, <2>4
<1>2. CASE Agent
  <2>1. CASE \E n \in Names : MarkProcessed(n)
    BY <2>1, MarkRetires
  <2>2. CASE ~ \E n \in Names : MarkProcessed(n)
    <3>1. UNCHANGED spool /\ UNCHANGED raced /\ UNCHANGED copies
      BY <1>2, <2>2
      DEF Agent, ReadDir, ReadFile, SkipEmptyFile, ParseError, NothingToSend, Post,
          ReceiveAccepted, ReceiveRefused
    <3> QED  BY <3>1, SamePromise
  <2> QED  BY <2>1, <2>2
<1>3. ASSUME NEW r \in Requests, Handler(r)
      PROVE  [Promise!Next]_(Promise!promiseVars)
  <2>1. CASE InsertEvent(r)
    BY <2>1, InsertDelivers
  <2>2. CASE ~InsertEvent(r)
    <3>1. UNCHANGED spool /\ UNCHANGED raced /\ UNCHANGED copies
      BY <1>3, <2>2
      DEF Handler, RefuseOversize, BeginStore, RejectEvent, Accept, Cancelled
    <3> QED  BY <3>1, SamePromise
  <2> QED  BY <2>1, <2>2
<1>4. CASE Fault
  <2>1. UNCHANGED spool /\ UNCHANGED raced /\ UNCHANGED copies
    BY <1>4
    DEF Fault, SendFault, Timeout, RefuseRequest, StoreFault, ServerCrash, RenameFault,
        AgentCrash
  <2> QED  BY <2>1, SamePromise
<1>5. CASE CalmDown \/ UNCHANGED vars
  BY <1>5, SamePromise DEF CalmDown
<1> QED  BY <1>1, <1>2, <1>3, <1>4, <1>5 DEF Next

LEMMA InitRefines == Init => Promise!Init
  BY RangeEmpty DEF Init, Promise!Init, Spooled, Delivered

\* The spool keeps the at-least-once promise: an event leaves the spool only
\* after it was stored, whatever the agent, the server and the network do; a
\* line appended between a read and a rename is the one exception, which is
\* in the mapping.
THEOREM SpoolKeepsPromise == Spec => ImplementsAtLeastOnce
<1>1. IInv /\ [Next]_vars => [Promise!Next]_(Promise!promiseVars)
  BY StepRefines
<1> QED
  BY <1>1, InitRefines, Invariance, PTL DEF Spec, ImplementsAtLeastOnce, Promise!Spec

------------------------------------------------------------------------------
(***************************************************************************)
(* No needless duplicate.  What has to be known of an event that is in no  *)
(* attempt the agent gave up: it is in one file and in one batch, once; it *)
(* is not stored before its batch is posted, nor before the handler comes  *)
(* to it; and its file is renamed before the agent looks again.            *)
(***************************************************************************)

\* The agent waits for a request, or has none.
CallFree == pc # "waiting" => call = None

\* No file holds a line twice, and no two files hold the same line.
LinesDistinct ==
  /\ \A n \in Names : IsInjective(spool[n]) /\ IsInjective(writing[n])
  /\ \A m, n \in Names : m # n => Range(spool[m]) \cap Range(spool[n]) = {}

\* No file is read twice in a poll, and what was read is still in its file.
ReadOnce ==
  /\ todo \cap processed = {}
  /\ IsInjective(batch)
  /\ pc = "idle" => batch = <<>> /\ processed = {}
  /\ pc = "reading" =>
       \A e \in Range(batch) : \E n \in processed : e \in Range(spool[n])

\* The requests nobody waits for are attempts that were given up.
OldAttempts ==
  \A r \in Requests : r # call => Range(req[r].batch) \subseteq retried

InFlight == IF pc \in {"waiting", "marking"} THEN Range(batch) ELSE {}

\* What is in the spool, and in no attempt, is not stored.
NotSent == \A e \in Spooled \ (retried \cup InFlight) : copies[e] = 0

\* What the handler of the agent's request has not come to is not stored.
StillToStore(i) ==
  req[call].st = "sent" \/ (req[call].st = "storing" /\ i >= req[call].pos)

NotStored ==
  pc = "waiting" =>
    \A i \in DOMAIN batch :
      batch[i] \notin retried /\ StillToStore(i) => copies[batch[i]] = 0

\* A line that was sent, and is in the spool, is in a file to be renamed.
ToRename ==
  pc \in {"waiting", "marking"} =>
    \A e \in Range(batch) \cap Spooled :
      e \in retried \/ \E n \in processed : e \in Range(spool[n])

OnceInv ==
  /\ CallFree
  /\ LinesDistinct
  /\ ReadOnce
  /\ OldAttempts
  /\ NotSent
  /\ NotStored
  /\ ToRename
  /\ NoNeedlessDuplicate

LEMMA InjectiveEmpty == IsInjective(<<>>)
  BY DEF IsInjective

LEMMA InjectiveConcat ==
  ASSUME NEW S, NEW a \in Seq(S), NEW b \in Seq(S), IsInjective(a), IsInjective(b),
         Range(a) \cap Range(b) = {}
  PROVE  IsInjective(a \o b)
<1> DEFINE c == a \o b
<1>1. /\ c \in Seq(S) /\ Len(c) = Len(a) + Len(b) /\ Len(a) \in Nat /\ Len(b) \in Nat
      /\ \A i \in 1..Len(c) : c[i] = IF i <= Len(a) THEN a[i] ELSE b[i - Len(a)]
  BY ConcatProperties
<1> HIDE DEF c
<1>2. /\ DOMAIN a = 1..Len(a) /\ DOMAIN b = 1..Len(b) /\ DOMAIN c = 1..Len(c)
  BY <1>1
<1>3. SUFFICES ASSUME NEW i \in DOMAIN c, NEW j \in DOMAIN c, c[i] = c[j]
               PROVE  i = j
  BY DEF IsInjective, c
<1>4. \A k \in DOMAIN c : \/ k \in DOMAIN a /\ c[k] = a[k]
                          \/ k - Len(a) \in DOMAIN b /\ c[k] = b[k - Len(a)]
  BY <1>1, <1>2
<1>5. \A k \in DOMAIN a, l \in DOMAIN b : a[k] # b[l]
  BY DEF Range
<1>6. CASE i \in DOMAIN a /\ c[i] = a[i]
  <2>1. j \in DOMAIN a /\ c[j] = a[j]
    BY <1>3, <1>4, <1>5, <1>6
  <2> QED  BY <1>3, <1>6, <2>1 DEF IsInjective
<1>7. CASE i - Len(a) \in DOMAIN b /\ c[i] = b[i - Len(a)]
  <2>1. j - Len(a) \in DOMAIN b /\ c[j] = b[j - Len(a)]
    BY <1>3, <1>4, <1>5, <1>7
  <2>2. i - Len(a) = j - Len(a)
    BY <1>3, <1>7, <2>1 DEF IsInjective
  <2> QED  BY <1>1, <1>2, <2>2
<1> QED  BY <1>4, <1>6, <1>7

LEMMA InjectiveAppend ==
  ASSUME NEW S, NEW s \in Seq(S), NEW e \in S, IsInjective(s), e \notin Range(s)
  PROVE  IsInjective(Append(s, e))
<1> DEFINE t == Append(s, e)
<1>1. /\ Len(s) \in Nat /\ Len(t) = Len(s) + 1 /\ t[Len(s) + 1] = e
      /\ DOMAIN s = 1..Len(s) /\ DOMAIN t = 1..(Len(s) + 1)
      /\ \A i \in 1..Len(s) : t[i] = s[i]
  OBVIOUS
<1>2. \A i \in DOMAIN s : s[i] # e
  BY DEF Range
<1> HIDE DEF t
<1>3. SUFFICES ASSUME NEW i \in DOMAIN t, NEW j \in DOMAIN t, t[i] = t[j]
               PROVE  i = j
  BY DEF IsInjective, t
<1> QED  BY <1>1, <1>2, <1>3 DEF IsInjective

\* Each request carries an attempt that was given up, or the agent's batch.
LEMMA Attempts ==
  ASSUME IInv, OnceInv, NEW r \in Requests
  PROVE  Range(req[r].batch) \subseteq retried \cup InFlight
<1>1. CASE r # call
  BY <1>1 DEF OnceInv, OldAttempts
<1>2. CASE r = call
  <2>1. pc = "waiting"
    BY <1>2, SpoolAssumption DEF OnceInv, CallFree
  <2> QED  BY <1>2, <2>1 DEF IInv, CallInv, InFlight
<1> QED  BY <1>1, <1>2

LEMMA DroppedBatch ==
  ASSUME IInv, NEW r \in Requests,
         req'[r] \in {req[r], NoRequest, [req[r] EXCEPT !.st = "refused"]}
  PROVE  Range(req'[r].batch) \subseteq Range(req[r].batch)
<1>1. req[r] \in Request
  BY DEF IInv, TypeOK
<1>2. [req[r] EXCEPT !.st = "refused"].batch = req[r].batch
  BY <1>1 DEF Request
<1>3. Range(NoRequest.batch) = {}
  BY RangeEmpty DEF NoRequest
<1> QED  BY <1>2, <1>3

\* The end of a poll, when no attempt is left in doubt.
LEMMA PollOver ==
  ASSUME EndPoll, UNCHANGED copies, LinesDistinct', NoNeedlessDuplicate,
         retried \subseteq retried',
         \A r \in Requests : Range(req'[r].batch) \subseteq retried',
         \A e \in Spooled' \ retried' : copies[e] = 0
  PROVE  OnceInv'
<1>1. /\ pc' = "idle" /\ todo' = {} /\ batch' = <<>> /\ processed' = {} /\ call' = None
  BY DEF EndPoll
<1>2. CallFree' /\ NotStored' /\ ToRename'
  BY <1>1 DEF CallFree, NotStored, ToRename
<1>3. ReadOnce'
  BY <1>1, InjectiveEmpty DEF ReadOnce
<1>4. NotSent' /\ OldAttempts'
  BY DEF NotSent, OldAttempts
<1>5. NoNeedlessDuplicate'
  BY DEF NoNeedlessDuplicate
<1> QED  BY <1>2, <1>3, <1>4, <1>5 DEF OnceInv

LEMMA SpoolSame ==
  ASSUME OnceInv, UNCHANGED <<spool, writing>>
  PROVE  Spooled' = Spooled /\ LinesDistinct'
  BY DEF OnceInv, Spooled, LinesDistinct

\* A poll that ends before anything was posted.
LEMMA PollOverUnsent ==
  ASSUME IInv, OnceInv, pc = "reading", EndPoll, UNCHANGED <<retried, dirVars, serverVars>>
  PROVE  OnceInv'
<1>1. UNCHANGED <<spool, writing, retried, req, copies>>
  BY DEF dirVars, serverVars
<1>2. InFlight = {}
  BY DEF InFlight
<1>3. \A r \in Requests : Range(req'[r].batch) \subseteq retried'
  BY <1>1, <1>2, Attempts
<1>4. \A e \in Spooled' \ retried' : copies[e] = 0
  BY <1>1, <1>2, SpoolSame DEF OnceInv, NotSent
<1> QED  BY <1>1, <1>3, <1>4, SpoolSame, PollOver DEF OnceInv

\* A poll that ends with an attempt that is not acknowledged.
LEMMA PollOverInDoubt ==
  ASSUME IInv, OnceInv, EndPoll, UNCHANGED dirVars, UNCHANGED copies,
         retried \cup InFlight \subseteq retried',
         \A r \in Requests : req'[r] \in {req[r], NoRequest, [req[r] EXCEPT !.st = "refused"]}
  PROVE  OnceInv'
<1>1. UNCHANGED <<spool, writing>>
  BY DEF dirVars
<1>2. \A r \in Requests : Range(req'[r].batch) \subseteq retried'
  BY Attempts, DroppedBatch
<1>3. \A e \in Spooled' \ retried' : copies[e] = 0
  BY <1>1, SpoolSame DEF OnceInv, NotSent
<1> QED  BY <1>1, <1>2, <1>3, SpoolSame, PollOver DEF OnceInv

\* A program adds lines that were nowhere before.
LEMMA SpoolGrows ==
  ASSUME IInv, OnceInv, UNCHANGED agentVars, UNCHANGED serverVars, LinesDistinct',
         \A n \in Names : Range(spool[n]) \subseteq Range(spool'[n]),
         \A n \in Names : Range(spool'[n]) \subseteq Events,
         \A n \in Names : Range(spool'[n]) \cap emitted \subseteq Range(spool[n])
  PROVE  OnceInv'
<1>1. UNCHANGED <<pc, todo, batch, processed, call, retried, req, copies>>
  BY DEF agentVars, serverVars
<1>2. InFlight' = InFlight
  BY <1>1 DEF InFlight
<1>3. Range(batch) \subseteq emitted /\ Delivered \subseteq emitted
  BY DEF IInv, EmittedInv
<1>4. CallFree' /\ OldAttempts' /\ NoNeedlessDuplicate'
  BY <1>1 DEF OnceInv, CallFree, OldAttempts, NoNeedlessDuplicate
<1>5. ReadOnce'
  BY <1>1 DEF OnceInv, ReadOnce, IInv, TypeOK
<1>6. NotStored'
  BY <1>1 DEF OnceInv, NotStored, StillToStore
<1>7. NotSent'
  <2>1. SUFFICES ASSUME NEW e \in Spooled', e \notin retried \cup InFlight
                 PROVE  copies[e] = 0
    BY <1>1, <1>2 DEF NotSent
  <2>2. PICK n \in Names : e \in Range(spool'[n])
    BY DEF Spooled
  <2>3. CASE e \in Range(spool[n])
    BY <2>1, <2>3 DEF OnceInv, NotSent, Spooled
  <2>4. CASE e \notin Range(spool[n])
    <3>1. e \in Events /\ e \notin Delivered
      BY <1>3, <2>2, <2>4
    <3>2. copies[e] \in 0..MaxCopies /\ ~(copies[e] > 0)
      BY <3>1 DEF IInv, TypeOK, Delivered
    <3> QED  BY <3>2, SpoolAssumption
  <2> QED  BY <2>3, <2>4
<1>8. ToRename'
  <2>1. SUFFICES ASSUME pc \in {"waiting", "marking"}, NEW e \in Range(batch), e \in Spooled',
                        e \notin retried
                 PROVE  \E n \in processed : e \in Range(spool'[n])
    BY <1>1 DEF ToRename
  <2>2. PICK n \in Names : e \in Range(spool'[n])
    BY <2>1 DEF Spooled
  <2>3. e \in Range(spool[n])
    BY <1>3, <2>1, <2>2
  <2>4. PICK m \in processed : e \in Range(spool[m])
    BY <2>1, <2>3 DEF OnceInv, ToRename, Spooled
  <2>5. m \in Names
    BY DEF IInv, TypeOK
  <2> QED  BY <2>4, <2>5
<1> QED  BY <1>4, <1>5, <1>6, <1>7, <1>8 DEF OnceInv

LEMMA ProgramOnce ==
  ASSUME IInv, OnceInv, Program
  PROVE  OnceInv'
<1>t. /\ spool \in [Names -> Seq(Events)] /\ writing \in [Names -> Seq(Events)]
      /\ \A n \in Names : IsInjective(spool[n]) /\ IsInjective(writing[n])
      /\ \A m, n \in Names : m # n => Range(spool[m]) \cap Range(spool[n]) = {}
      /\ \A n \in Names : Range(spool[n]) \subseteq emitted
      /\ \A n \in Names : Range(spool[n]) \subseteq Events
  BY RangeOfSeq DEF IInv, TypeOK, EmittedInv, OnceInv, LinesDistinct
<1>1. PICK n \in Names : \/ \E es \in Contents : BeginDrop(n, es)
                         \/ EndDrop(n)
                         \/ \E e \in Events : AppendLine(n, e)
  BY DEF Program
<1>2. ASSUME NEW es \in Contents, BeginDrop(n, es)
      PROVE  OnceInv'
  <2>1. /\ writing' = [writing EXCEPT ![n] = es] /\ UNCHANGED spool
        /\ UNCHANGED agentVars /\ UNCHANGED serverVars
    BY <1>2 DEF BeginDrop
  <2>2. LinesDistinct'
    BY <1>t, <2>1, OccurrenceAssumption DEF LinesDistinct
  <2> QED  BY <1>t, <2>1, <2>2, SpoolGrows
<1>3. CASE EndDrop(n)
  <2>1. /\ spool' = [spool EXCEPT ![n] = writing[n]]
        /\ writing' = [writing EXCEPT ![n] = <<>>]
        /\ UNCHANGED agentVars /\ UNCHANGED serverVars
    BY <1>3 DEF EndDrop
  <2>2. /\ spool'[n] = writing[n] /\ writing'[n] = <<>>
        /\ \A m \in Names \ {n} : spool'[m] = spool[m] /\ writing'[m] = writing[m]
    BY <1>t, <2>1
  <2>3. Range(writing[n]) \cap emitted = {} /\ Range(writing[n]) \subseteq Events
    BY <1>t, RangeOfSeq DEF IInv, FreshInv
  <2>4. spool[n] = <<>>
    BY <1>3 DEF EndDrop, IInv, WritingInv
  <2>5. LinesDistinct'
    BY <1>t, <2>2, <2>3, InjectiveEmpty DEF LinesDistinct
  <2> QED  BY <1>t, <2>1, <2>2, <2>3, <2>4, <2>5, RangeEmpty, SpoolGrows
<1>4. ASSUME NEW e \in Events, AppendLine(n, e)
      PROVE  OnceInv'
  <2>1. /\ spool' = [spool EXCEPT ![n] = Append(@, e)] /\ UNCHANGED writing
        /\ e \notin emitted
        /\ UNCHANGED agentVars /\ UNCHANGED serverVars
    BY <1>4 DEF AppendLine, Claimed
  <2>2. /\ spool'[n] = Append(spool[n], e)
        /\ \A m \in Names \ {n} : spool'[m] = spool[m]
    BY <1>t, <2>1
  <2>3. Range(spool'[n]) = Range(spool[n]) \cup {e} /\ IsInjective(spool'[n])
    BY <1>t, <2>1, <2>2, RangeAppend, InjectiveAppend
  <2>4. LinesDistinct'
    BY <1>t, <2>1, <2>2, <2>3 DEF LinesDistinct
  <2> QED  BY <1>t, <2>1, <2>2, <2>3, <2>4, SpoolGrows
<1> QED  BY <1>1, <1>2, <1>3, <1>4

\* Reading: a file is taken from the listing, and its lines may be read.
LEMMA ReadingOnce ==
  ASSUME IInv, OnceInv, pc' = "reading", pc \in {"idle", "reading"},
         ReadOnce', UNCHANGED <<call, retried>>, UNCHANGED dirVars, UNCHANGED serverVars
  PROVE  OnceInv'
<1>1. UNCHANGED <<spool, writing, retried, call, req, copies>>
  BY DEF dirVars, serverVars
<1>2. InFlight = {} /\ InFlight' = {} /\ call = None
  BY DEF InFlight, OnceInv, CallFree
<1>3. CallFree' /\ NotStored' /\ ToRename'
  BY <1>1, <1>2 DEF CallFree, NotStored, ToRename
<1>4. NotSent' /\ OldAttempts' /\ NoNeedlessDuplicate'
  BY <1>1, <1>2, SpoolSame DEF OnceInv, NotSent, OldAttempts, NoNeedlessDuplicate
<1> QED  BY <1>1, <1>3, <1>4, SpoolSame DEF OnceInv

LEMMA PostOnce ==
  ASSUME IInv, OnceInv, NEW r \in Requests, Post(r)
  PROVE  OnceInv'
<1>1. /\ pc = "reading" /\ pc' = "waiting" /\ call' = r
      /\ req' = [req EXCEPT ![r] = [st |-> "sent", batch |-> batch, pos |-> 1]]
      /\ UNCHANGED <<todo, batch, processed, retried, dirVars, copies>>
  BY DEF Post
<1>2. UNCHANGED <<spool, writing>>
  BY <1>1 DEF dirVars
<1>3. req \in [Requests -> Request] /\ processed \subseteq Names
  BY DEF IInv, TypeOK
<1>4. \A q \in Requests \ {r} : req'[q] = req[q]
  BY <1>1, <1>3
<1>5. InFlight = {} /\ InFlight' = Range(batch) /\ call = None
  BY <1>1 DEF InFlight, OnceInv, CallFree
<1>6. \A e \in Range(batch) : \E n \in processed : e \in Range(spool[n])
  BY <1>1 DEF OnceInv, ReadOnce
<1>7. \A e \in Range(batch) : e \in Spooled
  BY <1>3, <1>6 DEF Spooled
<1>8. CallFree' /\ ReadOnce' /\ ToRename'
  BY <1>1, <1>2, <1>6 DEF OnceInv, CallFree, ReadOnce, ToRename
<1>9. OldAttempts'
  BY <1>1, <1>4, <1>5, SpoolAssumption DEF OnceInv, OldAttempts
<1>10. NotSent' /\ NoNeedlessDuplicate'
  BY <1>1, <1>2, <1>5, SpoolSame DEF OnceInv, NotSent, NoNeedlessDuplicate
<1>11. NotStored'
  <2>1. ASSUME NEW i \in DOMAIN batch, batch[i] \notin retried
        PROVE  copies[batch[i]] = 0
    <3>1. batch[i] \in Range(batch)
      BY DEF Range
    <3> QED  BY <1>5, <1>7, <2>1, <3>1 DEF OnceInv, NotSent
  <2> QED  BY <1>1, <2>1 DEF NotStored
<1> QED  BY <1>2, <1>8, <1>9, <1>10, <1>11, SpoolSame DEF OnceInv

LEMMA ReceiveAcceptedOnce ==
  ASSUME IInv, OnceInv, ReceiveAccepted
  PROVE  OnceInv'
<1>1. /\ pc = "waiting" /\ pc' = "marking" /\ call' = None
      /\ req' = [req EXCEPT ![call] = NoRequest]
      /\ UNCHANGED <<todo, batch, processed, retried, dirVars, copies>>
  BY DEF ReceiveAccepted
<1>2. UNCHANGED <<spool, writing>> /\ req \in [Requests -> Request] /\ call \in Requests
  BY <1>1 DEF dirVars, IInv, TypeOK, CallInv
<1>3. InFlight' = InFlight
  BY <1>1 DEF InFlight
<1>4. CallFree' /\ NotStored'
  BY <1>1 DEF CallFree, NotStored
<1>5. ReadOnce' /\ ToRename'
  BY <1>1, <1>2, SpoolSame DEF OnceInv, ReadOnce, ToRename
<1>6. OldAttempts'
  <2>1. \A r \in Requests \ {call} : req'[r] = req[r]
    BY <1>1, <1>2
  <2>2. Range(req'[call].batch) = {}
    BY <1>1, <1>2, RangeEmpty DEF NoRequest
  <2> QED  BY <1>1, <2>1, <2>2 DEF OnceInv, OldAttempts
<1>7. NotSent' /\ NoNeedlessDuplicate'
  BY <1>1, <1>2, <1>3, SpoolSame DEF OnceInv, NotSent, NoNeedlessDuplicate
<1> QED  BY <1>2, <1>4, <1>5, <1>6, <1>7, SpoolSame DEF OnceInv

\* The poll goes on to the next file, or is over: what was sent is then out
\* of the spool, or in an attempt given up.
LEMMA MarkOnce ==
  ASSUME IInv, OnceInv, NEW n \in Names, pc = "marking", MarkNext(n), n \in processed,
         UNCHANGED <<writing, req, copies>>, retried \subseteq retried',
         \/ UNCHANGED spool /\ Range(spool[n]) \subseteq retried'
         \/ spool' = [spool EXCEPT ![n] = <<>>]
  PROVE  OnceInv'
<1>t. /\ spool \in [Names -> Seq(Events)] /\ processed \subseteq Names
      /\ \A m \in Names : IsInjective(spool[m]) /\ IsInjective(writing[m])
      /\ \A l, m \in Names : m # l => Range(spool[l]) \cap Range(spool[m]) = {}
  BY DEF IInv, TypeOK, OnceInv, LinesDistinct
<1>1. /\ InFlight = Range(batch) /\ call = None
      /\ \A e \in Range(batch) \cap Spooled :
           e \in retried \/ \E m \in processed : e \in Range(spool[m])
      /\ \A e \in Spooled \ (retried \cup Range(batch)) : copies[e] = 0
  BY DEF InFlight, OnceInv, CallFree, ToRename, NotSent
<1>2. \A m \in Names \ {n} : spool'[m] = spool[m]
  BY <1>t
<1>3. spool'[n] = <<>> \/ (spool'[n] = spool[n] /\ Range(spool[n]) \subseteq retried')
  BY <1>t
<1>4. \A m \in Names : spool'[m] \in {spool[m], <<>>}
  BY <1>2, <1>3
<1>5. LinesDistinct'
  BY <1>t, <1>4, RangeEmpty, InjectiveEmpty DEF LinesDistinct
<1>6. Spooled' \subseteq Spooled
  BY <1>4, RangeEmpty DEF Spooled
<1>7. \A e \in Spooled' \ retried' : e \notin Range(spool[n])
  <2>1. SUFFICES ASSUME NEW m \in Names, NEW e \in Range(spool'[m]), e \notin retried'
                 PROVE  e \notin Range(spool[n])
    BY DEF Spooled
  <2>2. CASE m = n
    BY <1>3, <2>1, <2>2, RangeEmpty
  <2>3. CASE m # n
    BY <1>t, <1>2, <2>1, <2>3
  <2> QED  BY <2>2, <2>3
<1>8. \A r \in Requests : Range(req[r].batch) \subseteq retried
  BY <1>1, SpoolAssumption DEF OnceInv, OldAttempts
<1>9. CASE processed = {n}
  <2>1. EndPoll
    BY <1>9 DEF MarkNext
  <2>2. \A e \in Spooled' \ retried' : copies[e] = 0
    BY <1>1, <1>6, <1>7, <1>9
  <2> QED  BY <1>5, <1>8, <2>1, <2>2, PollOver DEF OnceInv
<1>10. CASE processed # {n}
  <2>1. processed' = processed \ {n} /\ UNCHANGED <<pc, todo, batch, call>>
    BY <1>10 DEF MarkNext
  <2>2. CallFree' /\ NotStored'
    BY <2>1 DEF OnceInv, CallFree, NotStored
  <2>3. ReadOnce'
    BY <2>1 DEF OnceInv, ReadOnce
  <2>4. OldAttempts' /\ NoNeedlessDuplicate'
    BY <1>8, <2>1 DEF OnceInv, OldAttempts, NoNeedlessDuplicate
  <2>5. NotSent'
    BY <1>1, <1>6, <2>1 DEF NotSent, InFlight
  <2>6. ToRename'
    <3>1. SUFFICES ASSUME NEW e \in Range(batch), e \in Spooled', e \notin retried'
                   PROVE  \E m \in processed \ {n} : e \in Range(spool'[m])
      BY <2>1 DEF ToRename
    <3>2. PICK m \in processed : e \in Range(spool[m])
      BY <1>1, <1>6, <3>1
    <3>3. m # n /\ m \in Names
      BY <1>t, <1>7, <3>1, <3>2
    <3> QED  BY <1>2, <3>2, <3>3
  <2> QED  BY <1>5, <2>2, <2>3, <2>4, <2>5, <2>6 DEF OnceInv
<1> QED  BY <1>9, <1>10

LEMMA AgentOnce ==
  ASSUME IInv, OnceInv, Agent
  PROVE  OnceInv'
<1>t. /\ spool \in [Names -> Seq(Events)] /\ batch \in Seq(Events) /\ processed \subseteq Names
  BY DEF IInv, TypeOK
<1>1. CASE ReadDir
  <2>1. /\ pc = "idle" /\ pc' = "reading"
        /\ UNCHANGED <<batch, processed, call, retried, dirVars, serverVars>>
    BY <1>1 DEF ReadDir
  <2>2. batch = <<>> /\ processed = {}
    BY <2>1 DEF OnceInv, ReadOnce
  <2>3. ReadOnce'
    BY <2>1, <2>2, RangeEmpty, InjectiveEmpty DEF ReadOnce
  <2> QED  BY <2>1, <2>3, ReadingOnce
<1>2. ASSUME NEW n \in Names, ReadFile(n)
      PROVE  OnceInv'
  <2>1. /\ pc = "reading" /\ pc' = "reading" /\ n \in todo
        /\ batch' = batch \o spool[n] /\ processed' = processed \cup {n} /\ todo' = todo \ {n}
        /\ UNCHANGED <<call, retried, dirVars, serverVars>> /\ UNCHANGED spool
    BY <1>2 DEF ReadFile, IsNext, dirVars
  <2>2. \A e \in Range(batch) : \E m \in processed : e \in Range(spool[m])
    BY <2>1 DEF OnceInv, ReadOnce
  <2>3. n \notin processed
    BY <2>1 DEF OnceInv, ReadOnce
  <2>4. Range(batch) \cap Range(spool[n]) = {}
    BY <1>t, <2>2, <2>3 DEF OnceInv, LinesDistinct
  <2>5. IsInjective(batch')
    BY <1>t, <2>1, <2>4, InjectiveConcat DEF OnceInv, LinesDistinct, ReadOnce
  <2>6. Range(batch') = Range(batch) \cup Range(spool[n])
    BY <1>t, <2>1, RangeConcatenation
  <2>7. ReadOnce'
    BY <2>1, <2>2, <2>5, <2>6 DEF OnceInv, ReadOnce
  <2> QED  BY <2>1, <2>7, ReadingOnce
<1>3. ASSUME NEW n \in Names, SkipEmptyFile(n)
      PROVE  OnceInv'
  <2>1. /\ pc = "reading" /\ pc' = "reading" /\ todo' = todo \ {n}
        /\ UNCHANGED <<batch, processed, call, retried, dirVars, serverVars>>
        /\ UNCHANGED spool
    BY <1>3 DEF SkipEmptyFile, dirVars
  <2>2. ReadOnce'
    BY <2>1 DEF OnceInv, ReadOnce
  <2> QED  BY <2>1, <2>2, ReadingOnce
<1>4. ASSUME NEW n \in Names, ParseError(n)
      PROVE  OnceInv'
  BY <1>4, PollOverUnsent DEF ParseError
<1>5. CASE NothingToSend
  BY <1>5, PollOverUnsent DEF NothingToSend
<1>6. CASE ReceiveRefused
  <2>1. /\ pc = "waiting" /\ EndPoll /\ retried' = retried \cup Range(batch)
        /\ req' = [req EXCEPT ![call] = NoRequest]
        /\ UNCHANGED <<dirVars, copies>>
    BY <1>6 DEF ReceiveRefused
  <2>2. \A r \in Requests : req'[r] \in {req[r], NoRequest}
    BY <2>1 DEF IInv, TypeOK
  <2>3. InFlight = Range(batch)
    BY <2>1 DEF InFlight
  <2> QED  BY <2>1, <2>2, <2>3, PollOverInDoubt
<1>7. ASSUME NEW n \in Names, MarkProcessed(n)
      PROVE  OnceInv'
  BY <1>7, MarkOnce DEF MarkProcessed, IsNext, serverVars
<1> QED
  BY <1>1, <1>2, <1>3, <1>4, <1>5, <1>6, <1>7, PostOnce, ReceiveAcceptedOnce DEF Agent

\* A step of the server that stores nothing: no batch grows, and no handler
\* goes back.
LEMMA RequestsOnce ==
  ASSUME OnceInv, UNCHANGED dirVars, UNCHANGED agentVars, UNCHANGED copies,
         \A r \in Requests : Range(req'[r].batch) \subseteq Range(req[r].batch),
         pc = "waiting" => \A i \in DOMAIN batch : StillToStore(i)' => StillToStore(i)
  PROVE  OnceInv'
<1>1. UNCHANGED <<spool, writing, pc, todo, batch, processed, call, retried>>
  BY DEF dirVars, agentVars
<1>2. CallFree' /\ ReadOnce'
  BY <1>1 DEF OnceInv, CallFree, ReadOnce
<1>3. ToRename'
  BY <1>1, SpoolSame DEF OnceInv, ToRename
<1>4. OldAttempts'
  BY <1>1 DEF OnceInv, OldAttempts
<1>5. NotSent'
  BY <1>1, SpoolSame DEF OnceInv, NotSent, InFlight
<1>6. NotStored'
  BY <1>1 DEF OnceInv, NotStored
<1>7. NoNeedlessDuplicate'
  BY <1>1 DEF OnceInv, NoNeedlessDuplicate
<1> QED  BY <1>1, <1>2, <1>3, <1>4, <1>5, <1>6, <1>7, SpoolSame DEF OnceInv

LEMMA ReplyOnce ==
  ASSUME IInv, OnceInv, NEW r \in Requests, NEW status \in {"accepted", "refused"},
         Reply(r, status), UNCHANGED dirVars, UNCHANGED agentVars, UNCHANGED copies
  PROVE  OnceInv'
<1>1. req \in [Requests -> Request] /\ call' = call
  BY DEF IInv, TypeOK, agentVars
<1>2. \A q \in Requests \ {r} : req'[q] = req[q]
  BY <1>1 DEF Reply
<1>3. /\ req'[r].st \in {"free", "accepted", "refused"}
      /\ Range(req'[r].batch) \subseteq Range(req[r].batch)
  <2>1. CASE call = r
    BY <1>1, <2>1 DEF Reply, Request
  <2>2. CASE call # r
    BY <1>1, <2>2, RangeEmpty DEF Reply, NoRequest
  <2> QED  BY <2>1, <2>2
<1>4. ASSUME pc = "waiting", NEW i \in DOMAIN batch, StillToStore(i)'
      PROVE  StillToStore(i)
  <2>1. call \in Requests
    BY <1>4 DEF IInv, CallInv
  <2> QED  BY <1>1, <1>2, <1>3, <1>4, <2>1 DEF StillToStore
<1> QED  BY <1>2, <1>3, <1>4, RequestsOnce

\* The insert of an event: of the agent's batch, for the first time; of a
\* batch that was given up, whatever it stores was retried.
LEMMA InsertOnce ==
  ASSUME IInv, OnceInv, NEW r \in Requests, InsertEvent(r)
  PROVE  OnceInv'
<1> DEFINE e == req[r].batch[req[r].pos]
           p == req[r].pos
<1>t. req[r] \in Request /\ req \in [Requests -> Request] /\ copies \in [Events -> 0..MaxCopies]
  BY DEF IInv, TypeOK
<1>1. /\ req[r].st = "storing" /\ p \in 1..Len(req[r].batch)
      /\ copies' = [copies EXCEPT ![e] = OneMore(copies[e])]
      /\ req' = [req EXCEPT ![r] = [req[r] EXCEPT !.pos = p + 1]]
      /\ UNCHANGED <<dirVars, agentVars>>
  BY <1>t DEF InsertEvent, AtEvent, Current, Request
<1>2. UNCHANGED <<spool, writing, pc, todo, batch, processed, call, retried>>
  BY <1>1 DEF dirVars, agentVars
<1>3. /\ req[r].batch \in Seq(Events) /\ DOMAIN req[r].batch = 1..Len(req[r].batch)
      /\ e \in Events /\ e \in Range(req[r].batch)
  BY <1>t, <1>1, RangeEquality DEF Request
<1>4. /\ req'[r].st = "storing" /\ req'[r].batch = req[r].batch /\ req'[r].pos = p + 1
      /\ \A q \in Requests \ {r} : req'[q] = req[q]
  BY <1>t, <1>1 DEF Request
<1>5. \A f \in Events \ {e} : copies'[f] = copies[f]
  BY <1>t, <1>1, <1>3
<1>6. e \in retried \/ (/\ r = call /\ pc = "waiting" /\ req[r].batch = batch
                        /\ e \in InFlight /\ copies[e] = 0)
  <2>1. CASE r # call
    BY <1>3, <2>1 DEF OnceInv, OldAttempts
  <2>2. CASE r = call
    <3>1. pc = "waiting"
      BY <2>2, SpoolAssumption DEF OnceInv, CallFree
    <3>2. req[r].batch = batch
      BY <2>2, <3>1 DEF IInv, CallInv
    <3>3. p \in DOMAIN batch /\ StillToStore(p)
      BY <1>1, <1>3, <2>2, <3>2 DEF StillToStore
    <3>4. e \in InFlight
      BY <1>3, <3>1, <3>2 DEF InFlight
    <3> QED  BY <2>2, <3>1, <3>2, <3>3, <3>4 DEF OnceInv, NotStored
  <2> QED  BY <2>1, <2>2
<1> HIDE DEF e, p
<1>7. CallFree' /\ ReadOnce' /\ ToRename'
  BY <1>2, SpoolSame DEF OnceInv, CallFree, ReadOnce, ToRename
<1>8. OldAttempts'
  BY <1>2, <1>4 DEF OnceInv, OldAttempts
<1>9. NotSent'
  <2>1. SUFFICES ASSUME NEW f \in Spooled, f \notin retried \cup InFlight
                 PROVE  copies'[f] = 0
    BY <1>2, SpoolSame DEF NotSent, InFlight
  <2>2. f \in Events /\ f # e
    BY <1>6, <2>1 DEF IInv, TypeOK, EmittedInv, Spooled
  <2> QED  BY <1>5, <2>1, <2>2 DEF OnceInv, NotSent
<1>10. NotStored'
  <2>1. SUFFICES ASSUME pc = "waiting", NEW i \in DOMAIN batch, batch[i] \notin retried,
                        StillToStore(i)'
                 PROVE  copies'[batch[i]] = 0
    BY <1>2 DEF NotStored
  <2>2. batch \in Seq(Events) /\ DOMAIN batch = 1..Len(batch) /\ batch[i] \in Events
    BY DEF IInv, TypeOK
  <2>3. call \in Requests /\ req[call].batch = batch
    BY <2>1 DEF IInv, CallInv
  <2>4. StillToStore(i) /\ batch[i] # e
    <3>1. CASE call # r
      <4>1. StillToStore(i)
        BY <1>2, <1>4, <2>1, <2>3, <3>1 DEF StillToStore
      <4>2. e \in retried
        BY <1>6, <3>1
      <4> QED  BY <2>1, <4>1, <4>2
    <3>2. CASE call = r
      <4>1. i >= p + 1 /\ p \in Nat
        BY <1>1, <1>2, <1>4, <2>1, <3>2 DEF StillToStore
      <4>2. StillToStore(i)
        BY <1>1, <2>2, <3>2, <4>1 DEF StillToStore, p
      <4>3. e = batch[p] /\ p \in DOMAIN batch
        BY <1>1, <2>2, <2>3, <3>2 DEF e, p
      <4>4. batch[i] # e
        BY <2>2, <4>1, <4>3 DEF OnceInv, ReadOnce, IsInjective
      <4> QED  BY <4>2, <4>4
    <3> QED  BY <3>1, <3>2
  <2>5. copies[batch[i]] = 0
    BY <2>1, <2>4 DEF OnceInv, NotStored
  <2> QED  BY <1>5, <2>2, <2>4, <2>5
<1>11. NoNeedlessDuplicate'
  <2>1. SUFFICES ASSUME NEW f \in Events, copies'[f] > 1
                 PROVE  f \in retried
    BY <1>2 DEF NoNeedlessDuplicate
  <2>2. CASE f # e
    BY <1>5, <2>1, <2>2 DEF OnceInv, NoNeedlessDuplicate
  <2>3. CASE f = e /\ e \notin retried
    <3>1. copies'[e] = OneMore(0)
      BY <1>t, <1>1, <1>3, <1>6, <2>3
    <3>2. OneMore(0) <= 1
      BY SpoolAssumption DEF OneMore
    <3> QED  BY <2>1, <2>3, <3>1, <3>2, SpoolAssumption DEF OneMore
  <2> QED  BY <2>2, <2>3
<1> QED  BY <1>2, <1>7, <1>8, <1>9, <1>10, <1>11, SpoolSame DEF OnceInv

LEMMA HandlerOnce ==
  ASSUME IInv, OnceInv, NEW r \in Requests, Handler(r)
  PROVE  OnceInv'
<1>t. req \in [Requests -> Request]
  BY DEF IInv, TypeOK
<1>1. CASE RefuseOversize(r)
  BY <1>1, ReplyOnce DEF RefuseOversize
<1>2. CASE BeginStore(r)
  <2>1. /\ req[r].st = "sent" /\ req' = [req EXCEPT ![r] = [req[r] EXCEPT !.st = "storing"]]
        /\ UNCHANGED <<dirVars, agentVars, copies>> /\ call' = call
    BY <1>2 DEF BeginStore, agentVars
  <2>2. /\ \A q \in Requests : req'[q].batch = req[q].batch
        /\ \A q \in Requests \ {r} : req'[q] = req[q]
    BY <1>t, <2>1 DEF Request
  <2>3. ASSUME pc = "waiting", NEW i \in DOMAIN batch, StillToStore(i)'
        PROVE  StillToStore(i)
    <3>1. call \in Requests
      BY <2>3 DEF IInv, CallInv
    <3> QED  BY <2>1, <2>2, <2>3, <3>1 DEF StillToStore
  <2> QED  BY <2>1, <2>2, <2>3, RequestsOnce
<1>3. CASE RejectEvent(r)
  BY <1>3, ReplyOnce DEF RejectEvent
<1>4. CASE Accept(r)
  BY <1>4, ReplyOnce DEF Accept
<1>5. CASE Cancelled(r)
  <2>1. /\ call # r /\ req' = [req EXCEPT ![r] = NoRequest]
        /\ UNCHANGED <<dirVars, agentVars, copies>> /\ call' = call
    BY <1>5 DEF Cancelled, agentVars
  <2>2. /\ \A q \in Requests \ {r} : req'[q] = req[q]
        /\ Range(req'[r].batch) = {}
    BY <1>t, <2>1, RangeEmpty DEF NoRequest
  <2>3. ASSUME pc = "waiting", NEW i \in DOMAIN batch, StillToStore(i)'
        PROVE  StillToStore(i)
    <3>1. call \in Requests
      BY <2>3 DEF IInv, CallInv
    <3> QED  BY <2>1, <2>2, <2>3, <3>1 DEF StillToStore
  <2> QED  BY <2>1, <2>2, <2>3, RequestsOnce
<1> QED  BY <1>1, <1>2, <1>3, <1>4, <1>5, InsertOnce DEF Handler

LEMMA FaultOnce ==
  ASSUME IInv, OnceInv, Fault
  PROVE  OnceInv'
<1>1. CASE SendFault
  BY <1>1, PollOverUnsent DEF SendFault
<1>2. CASE Timeout
  <2>1. InFlight = Range(batch)
    BY <1>2 DEF Timeout, InFlight
  <2> QED  BY <1>2, <2>1, AbandonDrops, PollOverInDoubt DEF Timeout
<1>3. ASSUME NEW r \in Requests, RefuseRequest(r)
      PROVE  OnceInv'
  BY <1>3, ReplyOnce DEF RefuseRequest
<1>4. ASSUME NEW r \in Requests, StoreFault(r)
      PROVE  OnceInv'
  BY <1>4, ReplyOnce DEF StoreFault
<1>5. CASE ServerCrash
  <2>1. /\ req' = [r \in Requests |-> IF call = r THEN [req[r] EXCEPT !.st = "refused"]
                                                 ELSE NoRequest]
        /\ UNCHANGED <<dirVars, agentVars, copies>> /\ call' = call
    BY <1>5 DEF ServerCrash, agentVars
  <2>2. \A r \in Requests : Range(req'[r].batch) \subseteq Range(req[r].batch)
    BY <2>1, DroppedBatch
  <2>3. ASSUME pc = "waiting", NEW i \in DOMAIN batch
        PROVE  ~StillToStore(i)'
    <3>1. call \in Requests /\ req[call] \in Request
      BY <2>3 DEF IInv, CallInv, TypeOK
    <3>2. req'[call].st = "refused"
      BY <2>1, <3>1 DEF Request
    <3> QED  BY <2>1, <3>2 DEF StillToStore
  <2> QED  BY <2>1, <2>2, <2>3, RequestsOnce
<1>6. ASSUME NEW n \in Names, RenameFault(n)
      PROVE  OnceInv'
  BY <1>6, MarkOnce DEF RenameFault, IsNext, dirVars, serverVars
<1>7. CASE AgentCrash
  <2>1. CASE pc = "reading"
    <3>1. /\ EndPoll /\ Abandon /\ UNCHANGED <<dirVars, copies>> /\ retried' = retried
      BY <1>7, <2>1 DEF AgentCrash
    <3>2. InFlight = {}
      BY <2>1 DEF InFlight
    <3> QED  BY <3>1, <3>2, AbandonDrops, PollOverInDoubt
  <2>2. CASE pc # "reading"
    <3>1. /\ EndPoll /\ Abandon /\ UNCHANGED <<dirVars, copies>>
          /\ retried' = retried \cup Range(batch)
      BY <1>7, <2>2 DEF AgentCrash
    <3>2. InFlight \subseteq Range(batch)
      BY DEF InFlight
    <3> QED  BY <3>1, <3>2, AbandonDrops, PollOverInDoubt
  <2> QED  BY <2>1, <2>2
<1> QED  BY <1>1, <1>2, <1>3, <1>4, <1>5, <1>6, <1>7 DEF Fault

LEMMA StepOnce == IInv /\ OnceInv /\ [Next]_vars => OnceInv'
<1> SUFFICES ASSUME IInv, OnceInv, [Next]_vars PROVE OnceInv'
  OBVIOUS
<1>1. ASSUME UNCHANGED <<spool, sent, writing, emitted, raced, agentVars, serverVars>>
      PROVE  OnceInv'
  <2>1. UNCHANGED <<spool, writing, pc, todo, batch, processed, call, retried, req, copies>>
    BY <1>1 DEF agentVars, serverVars
  <2>2. CallFree' /\ ReadOnce' /\ OldAttempts' /\ NoNeedlessDuplicate'
    BY <2>1 DEF OnceInv, CallFree, ReadOnce, OldAttempts, NoNeedlessDuplicate
  <2>3. NotSent' /\ ToRename'
    BY <2>1, SpoolSame DEF OnceInv, NotSent, InFlight, ToRename
  <2>4. NotStored'
    BY <2>1 DEF OnceInv, NotStored, StillToStore
  <2> QED  BY <2>1, <2>2, <2>3, <2>4, SpoolSame DEF OnceInv
<1>2. CASE CalmDown
  BY <1>1, <1>2 DEF CalmDown
<1>3. CASE UNCHANGED vars
  BY <1>1, <1>3 DEF vars, dirVars
<1> QED  BY <1>2, <1>3, ProgramOnce, AgentOnce, HandlerOnce, FaultOnce DEF Next

LEMMA InitOnce == Init => OnceInv
<1> SUFFICES ASSUME Init PROVE OnceInv
  OBVIOUS
<1>1. \A r \in Requests : Range(req[r].batch) = {}
  BY RangeEmpty DEF Init, NoRequest
<1> QED
  BY <1>1, RangeEmpty, InjectiveEmpty
  DEF Init, OnceInv, CallFree, LinesDistinct, ReadOnce, OldAttempts, NotSent, NotStored,
      ToRename, NoNeedlessDuplicate, Spooled

\* No event is stored twice unless the agent had to leave an attempt to send
\* it unacknowledged: neither the scan of the directory, nor the order of the
\* rename and the answer, nor a handler that outlives its client duplicates
\* one on its own.
THEOREM NothingIsDuplicatedNeedlessly == Spec => []NoNeedlessDuplicate
<1>1. OnceInv => NoNeedlessDuplicate
  BY DEF OnceInv
<1> QED  BY <1>1, InitOnce, StepOnce, Invariance, PTL DEF Spec

==============================================================================
