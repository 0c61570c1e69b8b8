---------------------------- MODULE SpoolDelivery ----------------------------
(***************************************************************************)
(* The spool of gt-agent, end to end: a program drops event files in the   *)
(* spool directory, sendSpool (cmd/agent/main.go) reads all of them, posts *)
(* them as one batch, and renames the files to .sent when the server has   *)
(* answered with success; handleEvents (internal/server/server.go) stores  *)
(* the batch one event at a time, without a transaction.                   *)
(*                                                                         *)
(* Every system call, HTTP exchange and SQL statement is a step of its     *)
(* own, so that the program, the agent and the handlers interleave, and    *)
(* each of them can fail between two steps.                                *)
(*                                                                         *)
(* An event of Events is one occurrence: it is written at most once.       *)
(***************************************************************************)
EXTENDS Integers, Sequences, Functions

CONSTANTS
  Events,       \* the events (the lines) programs write
  Malformed,    \* those json.Unmarshal, or the line scanner, refuses
  Bad,          \* those the server or the database refuses
  Names,        \* the .json and .jsonl file names, in os.ReadDir's order
  Contents,     \* the contents a dropped file may have
  Requests,     \* bound: the requests that can be in progress together
  MaxBatch,     \* GTCP_MAX_EVENT_BYTES, counted in events
  MaxCopies,    \* bound: the copies of an event that are told apart
  Appended,     \* those programs append to a file, instead of dropping one
  None          \* the agent has no request in progress

ASSUME SpoolAssumption ==
  /\ Malformed \subseteq Events
  /\ Bad \subseteq Events
  /\ Names \subseteq Int
  /\ Contents \subseteq Seq(Events) \ {<<>>}
  /\ MaxBatch \in Nat
  /\ MaxCopies \in Nat \ {0}
  /\ Appended \subseteq Events
  /\ None \notin Requests

\* A file does not hold the same occurrence twice.
ASSUME OccurrenceAssumption == \A es \in Contents : IsInjective(es)

VARIABLES
  (* the environment: the failures, and the spool directory *)
  calm,         \* TRUE: the failures have ceased
  spool,        \* spool[n]: the lines of file n, <<>> when there is none
  sent,         \* sent[n]: the lines of n.sent
  writing,      \* writing[n]: what a program is now writing to file n
  emitted,      \* history: the events whose write to the spool is complete
  raced,        \* history: lines appended between the read and the rename
  (* the agent *)
  pc,           \* where sendSpool is
  todo,         \* the names of the directory listing still to be read
  batch,        \* the events read so far, in order
  processed,    \* the names they were read from
  call,         \* the request the agent waits for
  retried,      \* history: events of an attempt that was not acknowledged
  (* the server and its database *)
  req,          \* the requests in progress
  copies        \* copies[e]: the rows of table events that hold e

dirVars    == <<calm, spool, sent, writing, emitted, raced>>
agentVars  == <<pc, todo, batch, processed, call, retried>>
serverVars == <<req, copies>>
vars       == <<dirVars, agentVars, serverVars>>

Request == [st    : {"free", "sent", "storing", "accepted", "refused"},
            batch : Seq(Events),
            pos   : Nat \ {0}]

NoRequest == [st |-> "free", batch |-> <<>>, pos |-> 1]

Spooled   == UNION {Range(spool[n]) : n \in Names}
Delivered == {e \in Events : copies[e] > 0}

Init ==
  /\ calm = FALSE
  /\ spool = [n \in Names |-> <<>>]
  /\ sent = [n \in Names |-> <<>>]
  /\ writing = [n \in Names |-> <<>>]
  /\ emitted = {}
  /\ raced = {}
  /\ pc = "idle"
  /\ todo = {}
  /\ batch = <<>>
  /\ processed = {}
  /\ call = None
  /\ retried = {}
  /\ req = [r \in Requests |-> NoRequest]
  /\ copies = [e \in Events |-> 0]

------------------------------------------------------------------------------
(***************************************************************************)
(* The programs that use the spool (external to the repository; README     *)
(* "Spool directory").  A file is dropped under a name that is free; a     *)
(* name can be used again once its file was renamed to .sent.              *)
(***************************************************************************)

\* The events already written, or being written.
Claimed == emitted \cup UNION {Range(writing[n]) : n \in Names}

\* A program creates file n and starts writing es to it.
BeginDrop(n, es) ==
  /\ spool[n] = <<>>
  /\ writing[n] = <<>>
  /\ Range(es) \cap Claimed = {}
  /\ writing' = [writing EXCEPT ![n] = es]
  /\ UNCHANGED <<calm, spool, sent, emitted, raced, agentVars, serverVars>>

\* The file is complete.
EndDrop(n) ==
  /\ writing[n] # <<>>
  /\ spool' = [spool EXCEPT ![n] = writing[n]]
  /\ writing' = [writing EXCEPT ![n] = <<>>]
  /\ emitted' = emitted \cup Range(writing[n])
  /\ UNCHANGED <<calm, sent, raced, agentVars, serverVars>>

\* A program appends a line to file n, opened by its name.
AppendLine(n, e) ==
  /\ e \in Appended
  /\ writing[n] = <<>>
  /\ e \notin Claimed
  /\ spool' = [spool EXCEPT ![n] = Append(@, e)]
  /\ emitted' = emitted \cup {e}
  /\ raced' = IF n \in processed THEN raced \cup {e} ELSE raced
  /\ UNCHANGED <<calm, sent, writing, agentVars, serverVars>>

Program ==
  \E n \in Names :
    \/ \E es \in Contents : BeginDrop(n, es)
    \/ EndDrop(n)
    \/ \E e \in Events : AppendLine(n, e)

------------------------------------------------------------------------------
(***************************************************************************)
(* The agent reads the spool: agent.ReadSpoolEvents.                       *)
(***************************************************************************)

\* sendSpool returns; its local variables are gone.
EndPoll ==
  /\ pc' = "idle"
  /\ todo' = {}
  /\ batch' = <<>>
  /\ processed' = {}
  /\ call' = None

\* The files a listing has: a file being written is there already.
Listing == {n \in Names : spool[n] # <<>> \/ writing[n] # <<>>}

\* os.ReadDir, on a heartbeat tick.
ReadDir ==
  /\ pc = "idle"
  /\ pc' = "reading"
  /\ todo' = Listing
  /\ UNCHANGED <<batch, processed, call, retried, dirVars, serverVars>>

\* n is the next name of the listing.
IsNext(n, S) == n \in S /\ \A m \in S : n <= m

\* A prefix of a JSON document does not parse, and neither does a file with
\* a malformed line.
Unparsable(n) == writing[n] # <<>> \/ Range(spool[n]) \cap Malformed # {}

ReadFile(n) ==
  /\ pc = "reading"
  /\ IsNext(n, todo)
  /\ ~Unparsable(n)
  /\ batch' = batch \o spool[n]
  /\ processed' = processed \cup {n}
  /\ todo' = todo \ {n}
  /\ UNCHANGED <<pc, call, retried, dirVars, serverVars>>

\* Mutant of SkipEmptyFile: a file without events is renamed as well.
KeepEmptyFile(n) ==
  /\ pc = "reading"
  /\ IsNext(n, todo)
  /\ writing[n] # <<>>
  /\ processed' = processed \cup {n}
  /\ todo' = todo \ {n}
  /\ UNCHANGED <<pc, batch, call, retried, dirVars, serverVars>>

\* Nothing has been written to the file yet.
SkipEmptyFile(n) ==
  /\ pc = "reading"
  /\ IsNext(n, todo)
  /\ writing[n] # <<>>
  /\ todo' = todo \ {n}
  /\ UNCHANGED <<pc, batch, processed, call, retried, dirVars, serverVars>>

\* One file that does not parse ends the poll for all of them.
ParseError(n) ==
  /\ pc = "reading"
  /\ IsNext(n, todo)
  /\ Unparsable(n)
  /\ EndPoll
  /\ UNCHANGED <<retried, dirVars, serverVars>>

NothingToSend ==
  /\ pc = "reading"
  /\ todo = {}
  /\ batch = <<>>
  /\ EndPoll
  /\ UNCHANGED <<retried, dirVars, serverVars>>

------------------------------------------------------------------------------
(***************************************************************************)
(* The agent posts the batch and waits: agent.Client.SendEvents.           *)
(***************************************************************************)

Post(r) ==
  /\ pc = "reading"
  /\ todo = {}
  /\ batch # <<>>
  /\ req[r].st = "free"
  /\ pc' = "waiting"
  /\ call' = r
  /\ req' = [req EXCEPT ![r] = [st |-> "sent", batch |-> batch, pos |-> 1]]
  /\ UNCHANGED <<todo, batch, processed, retried, dirVars, copies>>

\* Mutant of ReceiveAccepted: the status of the answer is not looked at.
ReceiveAny ==
  /\ pc = "waiting"
  /\ req[call].st \in {"accepted", "refused"}
  /\ pc' = "marking"
  /\ call' = None
  /\ req' = [req EXCEPT ![call] = NoRequest]
  /\ UNCHANGED <<todo, batch, processed, retried, dirVars, copies>>

\* A status below 300: go on to rename the files.
ReceiveAccepted ==
  /\ pc = "waiting"
  /\ req[call].st = "accepted"
  /\ pc' = "marking"
  /\ call' = None
  /\ req' = [req EXCEPT ![call] = NoRequest]
  /\ UNCHANGED <<todo, batch, processed, retried, dirVars, copies>>

\* Any other status: the files stay, to be sent again at the next tick.
ReceiveRefused ==
  /\ pc = "waiting"
  /\ req[call].st = "refused"
  /\ EndPoll
  /\ retried' = retried \cup Range(batch)
  /\ req' = [req EXCEPT ![call] = NoRequest]
  /\ UNCHANGED <<dirVars, copies>>

\* Mutant of MarkNext: the loop over the files stops after the first.
MarkFirst(n) == EndPoll

\* The poll ends when the last file has been renamed, or skipped.
MarkNext(n) ==
  IF processed = {n}
  THEN EndPoll
  ELSE /\ processed' = processed \ {n}
       /\ UNCHANGED <<pc, todo, batch, call>>

\* Mutant of MarkProcessed: the file is copied to n.sent, not renamed.
CopyToSent(n) ==
  /\ pc = "marking"
  /\ IsNext(n, processed)
  /\ sent' = [sent EXCEPT ![n] = spool[n]]
  /\ MarkNext(n)
  /\ UNCHANGED <<calm, spool, writing, emitted, raced, retried, serverVars>>

\* os.Rename to n.sent, which replaces an older n.sent.
MarkProcessed(n) ==
  /\ pc = "marking"
  /\ IsNext(n, processed)
  /\ sent' = [sent EXCEPT ![n] = spool[n]]
  /\ spool' = [spool EXCEPT ![n] = <<>>]
  /\ MarkNext(n)
  /\ UNCHANGED <<calm, writing, emitted, raced, retried, serverVars>>

Agent ==
  \/ ReadDir
  \/ \E n \in Names : ReadFile(n) \/ SkipEmptyFile(n) \/ ParseError(n)
  \/ NothingToSend
  \/ \E r \in Requests : Post(r)
  \/ ReceiveAccepted
  \/ ReceiveRefused
  \/ \E n \in Names : MarkProcessed(n)

------------------------------------------------------------------------------
(***************************************************************************)
(* The server handles a request: withAuth and handleEvents.  The answer of *)
(* a handler whose client has gone away is lost.                           *)
(***************************************************************************)

Reply(r, status) ==
  req' = [req EXCEPT ![r] =
            IF call = r THEN [@ EXCEPT !.st = status] ELSE NoRequest]

\* Mutant of RefuseOversize: the limit itself is refused.
RefuseLimit(r) ==
  /\ req[r].st = "sent"
  /\ Len(req[r].batch) >= MaxBatch
  /\ Reply(r, "refused")
  /\ UNCHANGED <<dirVars, agentVars, copies>>

\* http.MaxBytesReader refuses the body before anything is stored.
RefuseOversize(r) ==
  /\ req[r].st = "sent"
  /\ Len(req[r].batch) > MaxBatch
  /\ Reply(r, "refused")
  /\ UNCHANGED <<dirVars, agentVars, copies>>

\* Mutant of BeginStore: the index of the first event is off by one.
BeginBeforeFirst(r) ==
  /\ req[r].st = "sent"
  /\ Len(req[r].batch) <= MaxBatch
  /\ req' = [req EXCEPT ![r].st = "storing", ![r].pos = 0]
  /\ UNCHANGED <<dirVars, agentVars, copies>>

BeginStore(r) ==
  /\ req[r].st = "sent"
  /\ Len(req[r].batch) <= MaxBatch
  /\ req' = [req EXCEPT ![r].st = "storing"]
  /\ UNCHANGED <<dirVars, agentVars, copies>>

Current(r) == req[r].batch[req[r].pos]

AtEvent(r) == req[r].st = "storing" /\ req[r].pos <= Len(req[r].batch)

OneMore(k) == IF k < MaxCopies THEN k + 1 ELSE k

\* store.InsertEvent of one event; it is committed on its own.
InsertEvent(r) ==
  /\ AtEvent(r)
  /\ Current(r) \notin Bad
  /\ copies' = [copies EXCEPT ![Current(r)] = OneMore(@)]
  /\ req' = [req EXCEPT ![r].pos = @ + 1]
  /\ UNCHANGED <<dirVars, agentVars>>

\* A refused event ends the request; the events before it stay stored.
RejectEvent(r) ==
  /\ AtEvent(r)
  /\ Current(r) \in Bad
  /\ Reply(r, "refused")
  /\ UNCHANGED <<dirVars, agentVars, copies>>

\* Mutant of Accept: the answer comes before the last event is stored.
AcceptEarly(r) ==
  /\ req[r].st = "storing"
  /\ req[r].pos >= Len(req[r].batch)
  /\ Reply(r, "accepted")
  /\ UNCHANGED <<dirVars, agentVars, copies>>

Accept(r) ==
  /\ req[r].st = "storing"
  /\ req[r].pos > Len(req[r].batch)
  /\ Reply(r, "accepted")
  /\ UNCHANGED <<dirVars, agentVars, copies>>

\* The context of a request is cancelled when its client goes away; the
\* request may also never have reached the server.
Cancelled(r) ==
  /\ req[r].st \in {"sent", "storing"}
  /\ call # r
  /\ req' = [req EXCEPT ![r] = NoRequest]
  /\ UNCHANGED <<dirVars, agentVars, copies>>

Handler(r) ==
  \/ RefuseOversize(r)
  \/ BeginStore(r)
  \/ InsertEvent(r)
  \/ RejectEvent(r)
  \/ Accept(r)
  \/ Cancelled(r)

------------------------------------------------------------------------------
(***************************************************************************)
(* Failures.                                                               *)
(***************************************************************************)

\* A file cannot be read, or the server cannot be reached.
SendFault ==
  /\ pc = "reading"
  /\ EndPoll
  /\ UNCHANGED <<retried, dirVars, serverVars>>

\* What is left of the request when the agent stops waiting for it.
Abandon ==
  IF call # None /\ req[call].st \in {"accepted", "refused"}
  THEN req' = [req EXCEPT ![call] = NoRequest]
  ELSE UNCHANGED req

\* The timeout of the HTTP client, or an answer lost on its way.
Timeout ==
  /\ pc = "waiting"
  /\ Abandon
  /\ EndPoll
  /\ retried' = retried \cup Range(batch)
  /\ UNCHANGED <<dirVars, copies>>

\* The key cannot be checked or is refused, or the rate limit is reached.
RefuseRequest(r) ==
  /\ req[r].st = "sent"
  /\ Reply(r, "refused")
  /\ UNCHANGED <<dirVars, agentVars, copies>>

\* The insert of an event fails; the events before it stay stored.  (An insert
\* that was committed though it looked failed is InsertEvent, and then a
\* request that gets no answer.)
StoreFault(r) ==
  /\ AtEvent(r)
  /\ Reply(r, "refused")
  /\ UNCHANGED <<dirVars, agentVars, copies>>

\* The API process dies: its connections are reset.
ServerCrash ==
  /\ \E r \in Requests : req[r].st # "free"
  /\ req' = [r \in Requests |->
               IF call = r THEN [req[r] EXCEPT !.st = "refused"]
                           ELSE NoRequest]
  /\ UNCHANGED <<dirVars, agentVars, copies>>

\* os.Rename fails; sendSpool ignores the error.
RenameFault(n) ==
  /\ pc = "marking"
  /\ IsNext(n, processed)
  /\ MarkNext(n)
  /\ retried' = retried \cup Range(spool[n])
  /\ UNCHANGED <<dirVars, serverVars>>

\* The agent process dies, and is started again.
AgentCrash ==
  /\ pc # "idle"
  /\ Abandon
  /\ EndPoll
  /\ retried' = IF pc = "reading" THEN retried ELSE retried \cup Range(batch)
  /\ UNCHANGED <<dirVars, copies>>

Fault ==
  /\ ~calm
  /\ \/ SendFault
     \/ Timeout
     \/ \E r \in Requests : RefuseRequest(r) \/ StoreFault(r)
     \/ ServerCrash
     \/ \E n \in Names : RenameFault(n)
     \/ AgentCrash

\* The failures cease for good.
CalmDown ==
  /\ ~calm
  /\ calm' = TRUE
  /\ UNCHANGED <<spool, sent, writing, emitted, raced, agentVars, serverVars>>

------------------------------------------------------------------------------
Next ==
  \/ Program
  \/ Agent
  \/ \E r \in Requests : Handler(r)
  \/ Fault
  \/ CalmDown

Spec == Init /\ [][Next]_vars

------------------------------------------------------------------------------
(***************************************************************************)
(* Properties.                                                             *)
(***************************************************************************)

\* Type invariant: each variable stays within what its declaration says.
TypeOK ==
  /\ calm \in BOOLEAN
  /\ spool \in [Names -> Seq(Events)]
  /\ sent \in [Names -> Seq(Events)]
  /\ writing \in [Names -> Seq(Events)]
  /\ emitted \subseteq Events
  /\ raced \subseteq Events
  /\ pc \in {"idle", "reading", "waiting", "marking"}
  /\ todo \subseteq Names
  /\ batch \in Seq(Events)
  /\ processed \subseteq Names
  /\ call \in Requests \cup {None}
  /\ retried \subseteq Events
  /\ req \in [Requests -> Request]
  /\ copies \in [Events -> 0..MaxCopies]

\* "Files are renamed to .sent after successful upload" (README.md:93): what
\* is in a .sent file is stored, whatever failed, was retried or raced with
\* the rename.
SentIsStored == \A n \in Names : Range(sent[n]) \subseteq Delivered

\* The one way into a .sent file without being stored is to be appended
\* between the agent's read and its rename, which no failure, retry or crash
\* widens.
SentIsStoredOrRaced == \A n \in Names : Range(sent[n]) \subseteq Delivered \cup raced

\* No event a program completed is lost: it is in the spool, or in the
\* database.  Renaming, retrying and dying between steps never drop one; the
\* one way to lose a line is to append it to a file the agent has read and
\* not yet renamed.
NothingLost == emitted \subseteq Spooled \cup Delivered \cup raced

\* An event is stored twice only when the agent had to leave an attempt to
\* send it unacknowledged: no step duplicates one on its own.
NoNeedlessDuplicate == \A e \in Events : copies[e] > 1 => e \in retried

\* The spool implements the at-least-once promise, but that a line which was
\* appended between a read and a rename may stay pending for ever.
Promise == INSTANCE AtLeastOnce WITH pending <- Spooled \cup raced,
                                     delivered <- Delivered
ImplementsAtLeastOnce == Promise!Spec

==============================================================================
