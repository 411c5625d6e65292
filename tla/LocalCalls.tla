----------------------------- MODULE LocalCalls -----------------------------
(***************************************************************************)
(* The domain socket of a daemon: its clients' calls (ccnu.c, ccnf.c,      *)
(* bfr.c), its listener thread, the pool of threads that serves requests   *)
(* and the main thread that takes the other messages (ccnud.c, ccnfd.c).   *)
(* Clients end at any time, and so may the daemon.                         *)
(*                                                                         *)
(* A stream holds what was sent and not yet received.  When the other end  *)
(* is closed, recv returns what the stream still holds and then 0 (-1 if   *)
(* the other end left something unread), and send raises SIGPIPE, which    *)
(* nobody handles.                                                         *)
(***************************************************************************)
EXTENDS LocalProtocols, FiniteSets, Functions

CONSTANTS Calls,   \* calls; each is the only one its connection carries
          Made,    \* Made[c]: the kinds call c may be of (a bound)
          NoCall,
          NoKind

ASSUME CallsAssumption == NoCall \notin Calls

VARIABLES service,   \* the daemon
          alive,     \* it runs
          call,      \* the client's side of each call
          up, down,  \* streams to and from the daemon
          shut,      \* the ends of the connection that are closed
          backlog,   \* connections not yet accepted
          listener,  \* where the listener thread is, and the connection it serves
          jobs,      \* the pool's pending jobs
          handler,   \* the daemon's side of each call that became a job
          queue,     \* messages for the main thread
          main,      \* where the main thread is
          performed, \* how often each call was carried out
          applied,   \* the calls main has carried out, in order
          before     \* before[c]: the calls that had returned when c was made

streams == <<up, down, shut>>
daemonVars == <<alive, backlog, listener, jobs, handler, queue, main>>
history == <<performed, applied, before>>
vars == <<service, alive, call, up, down, shut, backlog, listener, jobs, handler, queue, main,
          performed, applied, before>>

KindsOf(d) == DOMAIN ClientOf[d]
AllKinds == UNION {KindsOf(d) : d \in Daemons}
Pooled(d) == DOMAIN HandlerOf[d]
NamedFields == UNION {UNION {Range(ClientOf[d][k].awaits) \cup Range(FlattenSeq(ClientOf[d][k].sends)) :
                             k \in KindsOf(d)} : d \in Daemons}
Fields == NamedFields \cup {"error", "garbage"}

ASSUME KindsAssumption == NoKind \notin AllKinds

Idle == [at |-> "none", kind |-> NoKind, got |-> <<>>, left |-> <<>>]

Init ==
    /\ service \in Daemons
    /\ alive = TRUE
    /\ call = [c \in Calls |-> [at |-> "idle", kind |-> NoKind, short |-> FALSE, sent |-> 0,
                                got |-> <<>>, rv |-> "none"]]
    /\ up = [c \in Calls |-> <<>>] /\ down = [c \in Calls |-> <<>>]
    /\ shut = [c \in Calls |-> {}]
    /\ backlog = <<>>
    /\ listener = [at |-> "accept", conn |-> NoCall, kind |-> NoKind]
    /\ jobs = <<>>
    /\ handler = [c \in Calls |-> Idle]
    /\ queue = <<>>
    /\ main = "starting"
    /\ performed = [c \in Calls |-> 0]
    /\ applied = <<>>
    /\ before = [c \in Calls |-> {}]

Client(c) == ClientOf[service][call[c].kind]
Returned(c) == call[c].at = "done"
Gone(c) == call[c].at \in {"dead", "killed"}

TypeOK ==
    /\ service \in Daemons /\ alive \in BOOLEAN
    /\ call \in [Calls -> [at : {"idle", "sending", "receiving", "spinning", "done", "dead", "killed"},
                           kind : KindsOf(service) \cup {NoKind}, short : BOOLEAN, sent : Nat,
                           got : Seq(Fields), rv : {"none", "ok", "failed"}]]
    /\ up \in [Calls -> Seq(Fields)] /\ down \in [Calls -> Seq(Fields)]
    /\ shut \in [Calls -> SUBSET {"client", "daemon"}]
    /\ handler \in [Calls -> [at : {"none", "queued", "reading", "working", "replying", "closed"},
                              kind : Pooled(service) \cup {NoKind}, got : Seq(Fields), left : Seq(Fields)]]
    /\ listener \in [at : {"accept", "header", "body", "enqueue", "signal"}, conn : Calls \cup {NoCall},
                     kind : KindsOf(service) \cup {NoKind}]
    /\ {backlog, jobs, queue, applied} \subseteq Seq(Calls)
    /\ main \in {"starting", "waiting", "awake"}
    /\ performed \in [Calls -> 0..1] /\ before \in [Calls -> SUBSET Calls]
-----------------------------------------------------------------------------
(* The client: one function of the library, which connects, sends a        *)
(* request field by field, waits for the answer it asks for and closes.    *)

Closed(c, end) == shut' = [shut EXCEPT ![c] = @ \cup {end}]

\* What it has not received is lost.
Finish(c, at, rv) ==
    /\ call' = [call EXCEPT ![c].at = at, ![c].rv = rv, ![c].sent = 0]
    /\ down' = [down EXCEPT ![c] = <<>>]
    /\ Closed(c, "client")

\* A call begins with connect, which fails without a daemon.
Connect(c, k, short) ==
    /\ call[c].at = "idle" /\ (short => k \in {"forward", "where"})
    /\ call' = [call EXCEPT ![c].kind = k, ![c].short = short, ![c].at = IF alive THEN "sending" ELSE "done",
                            ![c].rv = IF alive THEN "none" ELSE "failed"]
    /\ backlog' = IF alive THEN Append(backlog, c) ELSE backlog
    /\ before' = [before EXCEPT ![c] = {d \in Calls : Returned(d)}]
    /\ UNCHANGED <<service, alive, streams, listener, jobs, handler, queue, main, performed, applied>>

\* The sends of a request, in two steps: nothing in a daemon happens between two of them but before the
\* last.
Pauses(sends) == {Len(sends) - 1, Len(sends)}

Send(c) ==
    LET sends == Client(c).sends
    IN  /\ call[c].at = "sending" /\ "daemon" \notin shut[c]
        /\ \E n \in Pauses(sends) :
              /\ n > call[c].sent
              /\ up' = [up EXCEPT ![c] = @ \o FlattenSeq(SubSeq(sends, call[c].sent + 1, n))]
              /\ IF n < Len(sends) THEN call' = [call EXCEPT ![c].sent = n] /\ UNCHANGED shut
                 ELSE IF Client(c).awaits # <<>>
                      THEN call' = [call EXCEPT ![c].sent = 0, ![c].at = "receiving"] /\ UNCHANGED shut
                 ELSE call' = [call EXCEPT ![c].sent = 0, ![c].at = "done", ![c].rv = "ok"] /\ Closed(c, "client")
        /\ UNCHANGED <<service, daemonVars, down, history>>

SendKilled(c) ==
    /\ call[c].at = "sending" /\ "daemon" \in shut[c]
    /\ Finish(c, "killed", "none")
    /\ UNCHANGED <<service, daemonVars, up, history>>

HasAnswer(c) == Len(down[c]) >= Len(Client(c).awaits)
RefusedNever(c) == FALSE
Refused(c) == down[c] # <<>> /\ Head(down[c]) = "error"

Receive(c) ==
    /\ call[c].at = "receiving"
    /\ HasAnswer(c) \/ Refused(c)
    /\ LET n == IF Refused(c) THEN 1 ELSE Len(Client(c).awaits)
       IN  /\ call' = [call EXCEPT ![c].at = "done", ![c].rv = IF Refused(c) THEN "failed" ELSE "ok",
                                   ![c].got = SubSeq(down[c], 1, n)]
           /\ down' = [down EXCEPT ![c] = SubSeq(@, n + 1, Len(@))]
    /\ Closed(c, "client")
    /\ UNCHANGED <<service, daemonVars, up, history>>

\* The data of a file is received in a loop that ends at an error or with the last byte, not at the 0.
LastOfFile(c) ==
    call[c].kind \in {"retrieveSeq", "retrieveOpts"} /\ Len(down[c]) = Len(Client(c).awaits) - 1

ReceiveForEver(c) ==
    /\ call[c].at = "receiving" /\ "daemon" \in shut[c]
    /\ LastOfFile(c) /\ ~Refused(c)
    /\ call' = [call EXCEPT ![c].at = "spinning"]
    /\ UNCHANGED <<service, daemonVars, streams, history>>

\* The daemon's end is closed before all of the answer has come.  recv is compared with an unsigned size,
\* so the 0 is an error and a -1 is not: queryDistance then returns what was in its variable.
ReceiveEnd(c) ==
    /\ call[c].at = "receiving" /\ "daemon" \in shut[c]
    /\ ~HasAnswer(c) /\ ~Refused(c)
    /\ ~LastOfFile(c)
    /\ \/ Finish(c, "done", "failed")
       \/ call[c].kind = "distance" /\ Finish(c, "done", "ok")
    /\ UNCHANGED <<service, daemonVars, up, history>>

Die(c) ==
    /\ call[c].at \in {"sending", "receiving", "spinning"}
    /\ Finish(c, "dead", "none")
    /\ UNCHANGED <<service, daemonVars, up, history>>
-----------------------------------------------------------------------------
(* The listener thread (ccnudl_service, bfr_listener_service).             *)

Accept ==
    /\ listener.at = "accept" /\ backlog # <<>>
    /\ listener' = [at |-> "header", conn |-> Head(backlog), kind |-> NoKind]
    /\ backlog' = Tail(backlog)
    /\ UNCHANGED <<service, alive, call, streams, jobs, handler, queue, main, history>>

Listening == [at |-> "accept", conn |-> NoCall, kind |-> NoKind]

\* tpool_add_job with the function that serves a request of kind k.  publishSeq is missing from the test
\* that follows: its message, already served, also goes to the main thread.
AddJob(c, k) ==
    /\ jobs' = Append(jobs, c)
    /\ handler' = [handler EXCEPT ![c] = [@ EXCEPT !.at = "queued", !.kind = k]]
    /\ listener' = IF k = "publishSeq" THEN [at |-> "enqueue", conn |-> c, kind |-> k] ELSE Listening

ReadHeader ==
    LET c == listener.conn IN
    /\ listener.at = "header" /\ Len(up[c]) >= Len(Header[service])
    /\ up' = [up EXCEPT ![c] = SubSeq(@, Len(Header[service]) + 1, Len(@))]
    /\ IF call[c].kind \in Pooled(service) THEN AddJob(c, call[c].kind)
       ELSE listener' = [at |-> "body", conn |-> c, kind |-> call[c].kind] /\ UNCHANGED <<jobs, handler>>
    /\ UNCHANGED <<service, alive, call, down, shut, backlog, queue, main, history>>

\* The client closed before it sent a header.  bfrd leaves the connection open; ccnud and ccnfd take what
\* malloc left in the message for its type, which may be any.
HeaderEnd ==
    LET c == listener.conn IN
    /\ listener.at = "header" /\ up[c] = <<>> /\ "client" \in shut[c]
    /\ \/ listener' = Listening /\ UNCHANGED <<jobs, handler>>
       \/ service # "bfrd" /\ \E k \in Pooled(service) : AddJob(c, k)
    /\ UNCHANGED <<service, alive, call, streams, backlog, queue, main, history>>

\* One recv for the whole payload.  What is there but not all of it is an error: the message is dropped
\* and the connection stays open.
ReadBody ==
    LET c == listener.conn IN
    /\ listener.at = "body" /\ up[c] # <<>>
    /\ up' = [up EXCEPT ![c] = <<>>]
    /\ IF up[c] = Body(service, listener.kind)
       THEN listener' = [listener EXCEPT !.at = "enqueue"] /\ Closed(c, "daemon")
       ELSE listener' = Listening /\ UNCHANGED shut
    /\ UNCHANGED <<service, alive, call, down, backlog, jobs, handler, queue, main, history>>

BodyEnd ==
    LET c == listener.conn IN
    /\ listener.at = "body" /\ up[c] = <<>> /\ "client" \in shut[c]
    /\ listener' = Listening
    /\ UNCHANGED <<service, alive, call, streams, backlog, jobs, handler, queue, main, history>>

EnqueueFront ==
    /\ listener.at = "enqueue"
    /\ queue' = <<listener.conn>> \o queue
    /\ listener' = [listener EXCEPT !.at = "signal"]
    /\ UNCHANGED <<service, alive, call, streams, backlog, jobs, handler, main, history>>
Enqueue ==
    /\ listener.at = "enqueue"
    /\ queue' = Append(queue, listener.conn)
    /\ listener' = [listener EXCEPT !.at = "signal"]
    /\ UNCHANGED <<service, alive, call, streams, backlog, jobs, handler, main, history>>

Signal ==
    /\ listener.at = "signal"
    /\ main' = IF main = "waiting" THEN "awake" ELSE main
    /\ listener' = Listening
    /\ UNCHANGED <<service, alive, call, streams, backlog, jobs, handler, queue, history>>
-----------------------------------------------------------------------------
(* The main thread: it waits first, takes all there is when it is woken,   *)
(* and looks at the queue again without the lock before it waits again.    *)

Wait ==
    /\ alive /\ main = "starting"
    /\ main' = "waiting"
    /\ UNCHANGED <<service, alive, call, streams, backlog, listener, jobs, handler, queue, history>>

Spurious ==
    /\ alive /\ main = "waiting"
    /\ main' = "awake"
    /\ UNCHANGED <<service, alive, call, streams, backlog, listener, jobs, handler, queue, history>>

IsUpdate(c) == handler[c].kind = NoKind

TakeMessage ==
    /\ main = "awake" /\ queue # <<>>
    /\ queue' = Tail(queue)
    /\ LET c == Head(queue) IN
       IF IsUpdate(c)
       THEN performed' = [performed EXCEPT ![c] = @ + 1] /\ applied' = Append(applied, c)
       ELSE UNCHANGED <<performed, applied>>
    /\ UNCHANGED <<service, alive, call, streams, backlog, listener, jobs, handler, main, before>>

Drained ==
    /\ main = "awake" /\ queue = <<>>
    /\ main' = "starting"
    /\ UNCHANGED <<service, alive, call, streams, backlog, listener, jobs, handler, queue, history>>
-----------------------------------------------------------------------------
(* The pool's threads.                                                     *)

Busy == {c \in Calls : handler[c].at \in {"reading", "working", "replying"}}
Script(c) == HandlerOf[service][handler[c].kind]
Set(c, at, got, left) ==
    handler' = [handler EXCEPT ![c] = [@ EXCEPT !.at = at, !.got = got, !.left = left]]

StartJob ==
    /\ jobs # <<>> /\ Cardinality(Busy) < PoolSize[service]
    /\ jobs' = Tail(jobs)
    /\ Set(Head(jobs), "reading", <<>>, <<>>)
    /\ UNCHANGED <<service, alive, call, streams, backlog, listener, queue, main, history>>

\* bfrd compares what it received of the name with the size of the length: it gives up a name of fewer
\* than four characters, without an answer.
GivesUpAll(c) == handler[c].kind \in {"forward", "where"}
GivesUp(c) == call[c].short /\ handler[c].kind \in {"forward", "where"}

HandlerRead(c) ==
    LET n == Len(Script(c).reads) IN
    /\ handler[c].at = "reading" /\ ~GivesUp(c)
    /\ Len(up[c]) >= n
    /\ up' = [up EXCEPT ![c] = SubSeq(@, n + 1, Len(@))]
    /\ Set(c, "working", SubSeq(up[c], 1, n), <<>>)
    /\ UNCHANGED <<service, alive, call, down, shut, backlog, listener, jobs, queue, main, history>>

HandlerGivesUp(c) ==
    /\ handler[c].at = "reading" /\ GivesUp(c)
    /\ Len(up[c]) >= 2
    /\ up' = [up EXCEPT ![c] = SubSeq(@, 3, Len(@))]
    /\ Set(c, "closed", <<>>, <<>>) /\ Closed(c, "daemon")
    /\ UNCHANGED <<service, alive, call, down, backlog, listener, jobs, queue, main, history>>

\* The client closed before the end of its request.  bfrd gives the request up; ccnud and ccnfd take the 0
\* for a field and go on with what was in their variables.
HandlerEnd(c) ==
    /\ handler[c].at = "reading" /\ "client" \in shut[c]
    /\ Len(up[c]) < Len(Script(c).reads)
    /\ IF service = "bfrd" THEN Set(c, "closed", <<>>, <<>>) /\ Closed(c, "daemon")
       ELSE Set(c, "working", Append(up[c], "garbage"), <<>>) /\ UNCHANGED shut
    /\ up' = [up EXCEPT ![c] = <<>>]
    /\ UNCHANGED <<service, alive, call, down, backlog, listener, jobs, queue, main, history>>

Garbled(c) == "garbage" \in Range(handler[c].got)

\* The job itself: CS_put, CS_summary, ccnudnb_express_interest, retrieve_segment or a look at the clusters.
Work(c) ==
    /\ handler[c].at = "working"
    /\ Set(c, "replying", handler[c].got, Script(c).replies)
    /\ performed' = [performed EXCEPT ![c] = IF Garbled(c) THEN @ ELSE @ + 1]
    /\ UNCHANGED <<service, alive, call, streams, backlog, listener, jobs, queue, main, applied, before>>

\* publishSeq does not look at what CS_putSegment returns.
WorkFails(c) ==
    /\ handler[c].at = "working" /\ Head(Script(c).replies) = "rv" /\ handler[c].kind # "publishSeq"
    /\ Set(c, "replying", handler[c].got, <<"error">>)
    /\ UNCHANGED <<service, alive, call, streams, backlog, listener, jobs, queue, main, history>>

SummaryFailsOpen(c) ==
    /\ handler[c].at = "working" /\ handler[c].kind = "summary"
    /\ Set(c, "closed", <<>>, <<>>)
    /\ UNCHANGED <<service, alive, call, streams, backlog, listener, jobs, queue, main, history>>

\* CS_summary fails: the connection is closed without an answer.
SummaryFails(c) ==
    /\ handler[c].at = "working" /\ handler[c].kind = "summary"
    /\ Set(c, "closed", <<>>, <<>>) /\ Closed(c, "daemon")
    /\ UNCHANGED <<service, alive, call, up, down, backlog, listener, jobs, queue, main, history>>

\* The sends of an answer, in two steps: those before the last, and the last.
Reply(c) ==
    LET left == handler[c].left IN
    /\ handler[c].at = "replying" /\ "client" \notin shut[c]
    /\ IF Len(left) > 1
       THEN /\ down' = [down EXCEPT ![c] = @ \o Front(left)]
            /\ Set(c, "replying", handler[c].got, <<Last(left)>>) /\ UNCHANGED shut
       ELSE /\ down' = [down EXCEPT ![c] = @ \o left]
            /\ Set(c, "closed", <<>>, <<>>) /\ Closed(c, "daemon")
    /\ UNCHANGED <<service, alive, call, up, backlog, listener, jobs, queue, main, history>>
-----------------------------------------------------------------------------
(* The end of the daemon, by a signal or by a client that has gone.        *)

DaemonDown ==
    /\ alive' = FALSE
    /\ shut' = [c \in Calls |-> IF call[c].at = "idle" THEN shut[c] ELSE shut[c] \cup {"daemon"}]
    /\ backlog' = <<>> /\ jobs' = <<>> /\ queue' = <<>>
    /\ listener' = Listening
    /\ handler' = [c \in Calls |-> [Idle EXCEPT !.at = "closed"]]
    /\ main' = "starting"
    /\ up' = [c \in Calls |-> <<>>]
    /\ UNCHANGED <<service, call, down, history>>

Terminate == alive /\ DaemonDown

\* The first send to a client that has closed.
ReplyKilled(c) ==
    /\ handler[c].at = "replying" /\ "client" \in shut[c]
    /\ DaemonDown

\* What a garbled request does to the daemon is undefined.
WorkCrashes(c) ==
    /\ handler[c].at = "working" /\ Garbled(c)
    /\ DaemonDown
-----------------------------------------------------------------------------
ClientStep(c) == Send(c) \/ SendKilled(c) \/ Receive(c) \/ ReceiveForEver(c) \/ ReceiveEnd(c)
ListenerStep == Accept \/ ReadHeader \/ HeaderEnd \/ ReadBody \/ BodyEnd \/ Enqueue \/ Signal
MainStep == Wait \/ TakeMessage \/ Drained
HandlerStep(c) ==
    HandlerRead(c) \/ HandlerGivesUp(c) \/ HandlerEnd(c) \/ Work(c) \/ WorkFails(c) \/ SummaryFails(c)
        \/ Reply(c) \/ ReplyKilled(c) \/ WorkCrashes(c)

Next ==
    \/ \E c \in Calls : \/ \E k \in KindsOf(service) \cap Made[c], short \in BOOLEAN : Connect(c, k, short)
                        \/ ClientStep(c) \/ Die(c) \/ HandlerStep(c)
    \/ ListenerStep \/ MainStep \/ Spurious \/ StartJob \/ Terminate

\* retrieve_segment sends its interests again for ever.
Endless == {"retrieveSeq", "retrieveOpts"}
Occupied == \E c \in Calls : handler[c].at = "working" /\ handler[c].kind \in Endless

\* Clients go on until they die, the threads run; nothing makes a client call, die or stop the daemon.
Fairness ==
    /\ \A c \in Calls : /\ WF_vars(ClientStep(c))
                        /\ WF_vars(HandlerStep(c) /\ ~(handler[c].at = "working" /\ handler[c].kind \in Endless))
    /\ WF_vars(ListenerStep) /\ WF_vars(StartJob) /\ WF_vars(MainStep)

Spec == Init /\ [][Next]_vars /\ Fairness
-----------------------------------------------------------------------------
(* Properties.                                                             *)

\* What a handler has read is what its client sent for it, field by field, and nothing of the request is
\* left for its answer to be read as (ccnud.h, "DOCUMENTATION of msg format").
RequestsUnderstood ==
    \A c \in Calls :
       handler[c].at \in {"working", "replying"} /\ ~Garbled(c) =>
          handler[c].kind = call[c].kind /\ handler[c].got = Script(c).reads /\ up[c] = <<>>

\* A client that returns 0 has received the fields it reads, in its order, and the daemon sent no others.
AnswersUnderstood ==
    \A c \in Calls :
       call[c].rv = "ok" /\ call[c].kind # "distance" => call[c].got = Client(c).awaits /\ down[c] = <<>>

\* A client waits for more of an answer, a thread of the pool for more of a request, the listener for a
\* connection, a header or a body.
ClientWaits(c) == call[c].at = "receiving" /\ "daemon" \notin shut[c] /\ ~HasAnswer(c) /\ ~Refused(c)
HandlerWaits(c) ==
    /\ handler[c].at = "reading" /\ "client" \notin shut[c]
    /\ Len(up[c]) < IF GivesUp(c) THEN 2 ELSE Len(Script(c).reads)
ListenerWaits ==
    LET c == listener.conn IN
    \/ listener.at = "accept" /\ backlog = <<>>
    \/ listener.at = "header" /\ Len(up[c]) < Len(Header[service]) /\ ~("client" \in shut[c] /\ up[c] = <<>>)
    \/ listener.at = "body" /\ up[c] = <<>> /\ "client" \notin shut[c]

NobodyGoesOn ==
    /\ ListenerWaits
    /\ \A c \in Calls : call[c].at # "sending" /\ (call[c].at = "receiving" => ClientWaits(c))
    /\ \A c \in Busy : HandlerWaits(c)
    /\ jobs = <<>> \/ Cardinality(Busy) >= PoolSize[service]

\* A client never waits for a daemon that waits for it, nor for a listener or a pool that another client
\* keeps waiting: while some client waits for an answer somebody goes on.
NobodyLeftWaiting == NobodyGoesOn => \A c \in Calls : call[c].at # "receiving"

\* The two ends of a connection agree on what is in it and on whose turn it is.
StreamInv == TypeOK /\ RequestsUnderstood /\ AnswersUnderstood /\ NobodyLeftWaiting

\* A client is only killed by its daemon's socket, or left in the receive loop of a file, by the end of the
\* daemon, or by a query of bfrd for a name it takes for an error.
ClientsSurvive ==
    \A c \in Calls :
       call[c].at \in {"killed", "spinning"} => ~alive \/ (call[c].short /\ call[c].kind = "forward")

\* Options and locations are applied in the order they were set in: none after one that was set when its
\* call had returned.
AppliedInOrder ==
    \A i, j \in 1..Len(applied) : i < j => applied[j] \notin before[applied[i]]

Kept(c) ==
    \/ performed[c] = 1
    \/ c \in Range(backlog) \cup Range(queue) \cup {listener.conn}

\* A message nobody answers is on its way or applied once its sender has returned, while the daemon runs,
\* but for the update of a distance, which comes in several pieces and may be dropped.
OthersKept ==
    \A c \in Calls :
       alive /\ call[c].rv = "ok" /\ call[c].kind # "hops" /\ Client(c).awaits = <<>> => Kept(c)

\* The receive loop of a file takes the daemon's end for more data to come: the call neither returns nor
\* dies of itself.
LoopsForEver(c) == call[c].at = "spinning" /\ call[c].kind \in Endless /\ ~alive

\* Every call ends, by an answer, an error or the end of its process.  Two are let off: one that loops for
\* ever for a file because its daemon has ended, and, for as long as it lasts, one behind a thread of the pool
\* that retrieves a file and does not finish.
CallsReturn ==
    \A c \in Calls :
       call[c].at \in {"sending", "receiving", "spinning"}
          ~> call[c].at \in {"done", "dead", "killed"} \/ LoopsForEver(c) \/ []Occupied

Result(c) == IF call[c].at = "done" THEN call[c].rv ELSE "none"
MadeAs == [c \in Calls |-> call[c].kind]
Results == [c \in Calls |-> Result(c)]
\* The kinds of calls whose caller waits, but for the one that may return 0 without an answer.
AnsweredKinds == {k \in AllKinds : k # "distance" /\ \E d \in Daemons : k \in KindsOf(d) /\ ClientOf[d][k].awaits # <<>>}

Abstract == INSTANCE CallService WITH
    Kinds <- AllKinds, Answered <- AnsweredKinds, made <- MadeAs, result <- Results

\* A call is carried out at most once, and has been when the caller that waits for it returns 0.
ImplementsCalls == Abstract!Spec
=============================================================================
