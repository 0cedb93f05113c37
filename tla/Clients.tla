------------------------------ MODULE Clients ------------------------------
(***************************************************************************)
(* speaktap/client.py against main and _serve of speaktap/service_app.py:  *)
(* short-lived clients that ask whether a service answers, start one if    *)
(* none does, and send it one command; service processes that compete for  *)
(* the lock file, load the model and answer one connection at a time on    *)
(* the socket whose name is a file.                                        *)
(*                                                                         *)
(* A client is one run of the command, and starts at most one service,     *)
(* which has the client's number.  What a command does to a service is     *)
(* what Handling.tla says, which Service.tla is shown to implement.        *)
(*                                                                         *)
(* A connection and its request are one step, because the service waits    *)
(* for the request; a peer that connects and sends nothing is a request of *)
(* its own.  Time-outs may fire whenever the answer is not there.          *)
(***************************************************************************)
EXTENDS Integers, Sequences, Handling

CONSTANTS NClients,     \* bound: runs of the client
          Backlog,      \* the argument of listen(), 8 in the code
          MaxFaults,    \* bound: services killed or signalled, and silent peers
          Commands      \* the commands considered

AllCommands == {"toggle", "start", "stop", "cancel", "status", "service-stop"}

ASSUME ClientsAssumption ==
    /\ NClients \in Nat
    /\ Backlog \in Nat
    /\ MaxFaults \in Nat
    /\ Commands \subseteq AllCommands

Clients == 1 .. NClients
Services == 1 .. NClients
None == 0

VARIABLES
    at,        \* service -> where its process is
    lock,      \* the service that holds the lock file's lock, or None
    file,      \* the service that bound the name of the socket, or None
    line,      \* service -> connections nobody accepted yet
    served,    \* service -> the connection being served
    answer,    \* service -> whether the answer it is about to send is ok
    state,     \* service -> ServiceStateMachine._state between commands
    leaving,   \* service -> a signal or a shutdown was noticed
    faults,    \* services killed or signalled, and silent peers, so far
    pc,        \* client -> where it is
    command,   \* client -> what it sends in the end
    net,       \* client -> what became of its connection
    reply,     \* client -> the answer it received
    result,    \* client -> how it ended
    carried    \* client -> how often its command was carried out

serviceVars == <<at, lock, file, served, answer, state, leaving>>
clientVars  == <<pc, command, result>>
vars == <<serviceVars, line, faults, clientVars, net, reply, carried>>

Listening == {"accept", "handle", "reply", "leave"}
Holding   == {"load", "bind", "close"} \cup Listening
Dead      == {"exited", "killed"}
ServicePc == {"unborn", "lock"} \cup Holding \cup Dead

Asking   == {"stop_probe", "probe", "poll", "ask", "send"}
ClientPc == {"new", "ended"} \cup Asking

Answers == [ok : BOOLEAN, state : States]
NoAnswer == [ok |-> FALSE, state |-> "idle"]

Requests == [from : Clients \cup {None}, what : Words \cup {"nothing"}, live : BOOLEAN]
Nothing == [from |-> None, what |-> "nothing", live |-> FALSE]

Init ==
    /\ at = [s \in Services |-> "unborn"]
    /\ lock = None
    /\ file = None
    /\ line = [s \in Services |-> << >>]
    /\ served = [s \in Services |-> Nothing]
    /\ answer = [s \in Services |-> FALSE]
    /\ state = [s \in Services |-> "idle"]
    /\ leaving = [s \in Services |-> FALSE]
    /\ faults = 0
    /\ pc = [c \in Clients |-> "new"]
    /\ command = [c \in Clients |-> "none"]
    /\ net = [c \in Clients |-> "none"]
    /\ reply = [c \in Clients |-> NoAnswer]
    /\ result = [c \in Clients |-> "none"]
    /\ carried = [c \in Clients |-> 0]

-----------------------------------------------------------------------------
(* The service: main, _serve, _read_request.                                *)

Goes(s, from, to) ==
    /\ at[s] = from
    /\ at' = [at EXCEPT ![s] = to]

\* The head of the loop in _serve.
LoopsTo(s) == IF leaving[s] THEN "leave" ELSE "accept"

\* A process that is gone has no state.
Forgets(s) ==
    /\ state' = [state EXCEPT ![s] = "idle"]
    /\ leaving' = [leaving EXCEPT ![s] = FALSE]

Quiet == UNCHANGED <<line, faults, clientVars, net, reply, carried>>

\* Who closes a connection with the request unread resets it.
Lost(cs, how) == net' = [c \in Clients |-> IF c \in cs THEN how ELSE net[c]]
Waiting(s) == {r.from : r \in {line[s][i] : i \in {j \in 1 .. Len(line[s]) : line[s][j].live}}}
Serving(s) == IF served[s].live THEN {served[s].from} ELSE {}

\* Bug: the lock is taken inside the try whose finally removes the file.
BugTakeLock(s) ==
    /\ IF lock = None
       THEN Goes(s, "lock", "load") /\ lock' = s
       ELSE Goes(s, "lock", "close") /\ UNCHANGED lock
    /\ file' = IF lock = None THEN file ELSE None
    /\ UNCHANGED <<served, answer, state, leaving>>
    /\ Quiet

\* flock without waiting: the second process exits with status 2.
TakeLock(s) ==
    /\ IF lock = None
       THEN Goes(s, "lock", "load") /\ lock' = s
       ELSE Goes(s, "lock", "exited") /\ UNCHANGED lock
    /\ UNCHANGED <<file, served, answer, state, leaving>>
    /\ Quiet

\* The configuration is refused before the try: the process just ends.
Misconfigured(s) ==
    /\ Goes(s, "load", "exited")
    /\ lock' = None
    /\ Forgets(s)
    /\ UNCHANGED <<file, served, answer>>
    /\ Quiet

\* prepare(): the model is verified, built and warmed up.
Prepare(s) ==
    /\ Goes(s, "load", "bind")
    /\ UNCHANGED <<lock, file, served, answer, state, leaving>>
    /\ Quiet

\* One of these raises: finally removes the file.
NotPrepared(s) ==
    /\ Goes(s, "load", "close")
    /\ file' = None
    /\ UNCHANGED <<lock, served, answer, state, leaving>>
    /\ Quiet

\* The file of a service that was killed is removed first.  From then until
\* listen() who connects is refused, as before.
Bind(s) ==
    /\ Goes(s, "bind", LoopsTo(s))
    /\ file' = s
    /\ UNCHANGED <<lock, served, answer, state, leaving>>
    /\ Quiet

\* A signal that comes while accept() waits is noticed after it.
Accept(s) ==
    /\ line[s] # << >>
    /\ Goes(s, "accept", "handle")
    /\ served' = [served EXCEPT ![s] = Head(line[s])]
    /\ line' = [line EXCEPT ![s] = Tail(line[s])]
    /\ UNCHANGED <<lock, file, answer, state, leaving, faults, clientVars, net, reply, carried>>

\* Bug: the accepted connection has no time-out.
BugNoRequest(s) == FALSE /\ UNCHANGED vars

\* A request that does not come is given up after five seconds.
NoRequest(s) ==
    /\ served[s].what = "nothing"
    /\ Goes(s, "handle", "reply")
    /\ UNCHANGED <<lock, file, served, answer, state, leaving>>
    /\ Quiet

Handle(s) ==
    /\ served[s].what # "nothing"
    /\ Goes(s, "handle", "reply")
    /\ \E outcome \in Outcomes(served[s].what, state[s]) :
           /\ answer' = [answer EXCEPT ![s] = outcome.ok]
           /\ state' = [state EXCEPT ![s] = outcome.state]
           /\ leaving' = [leaving EXCEPT ![s] = @ \/ (served[s].what = "shutdown" /\ outcome.ok)]
    /\ carried' = IF served[s].what = "status" THEN carried
                  ELSE [carried EXCEPT ![served[s].from] = @ + 1]
    /\ UNCHANGED <<lock, file, served, line, faults, clientVars, net, reply>>

\* Only _toggle looks at the state in an answer.
Seen(c, a) == IF pc[c] = "ask" THEN a ELSE [a EXCEPT !.state = "idle"]

\* A peer that has gone does not hurt.
Reply(s) ==
    /\ Goes(s, "reply", LoopsTo(s))
    /\ Lost(Serving(s), "answered")
    /\ reply' = [c \in Clients |-> IF c \in Serving(s) THEN Seen(c, [ok |-> answer[s], state |-> state[s]])
                                 ELSE reply[c]]
    /\ served' = [served EXCEPT ![s] = Nothing]
    /\ answer' = [answer EXCEPT ![s] = FALSE]
    /\ UNCHANGED <<lock, file, state, leaving, line, faults, clientVars, carried>>

\* Bug: main lets go of the lock before it closes the service.
BugLeaveLoop(s) ==
    /\ \/ Goes(s, "leave", "close")
       \/ leaving[s] /\ line[s] = << >> /\ Goes(s, "accept", "close")
    /\ Lost(Waiting(s), "reset")
    /\ line' = [line EXCEPT ![s] = << >>]
    /\ file' = None
    /\ lock' = None
    /\ UNCHANGED <<served, answer, state, leaving, faults, clientVars, reply, carried>>

\* The loop ends, the listening socket is closed, and who waits is reset; _serve
\* removes the file, and so does main.
LeaveLoop(s) ==
    /\ \/ Goes(s, "leave", "close")
       \/ leaving[s] /\ line[s] = << >> /\ Goes(s, "accept", "close")
    /\ Lost(Waiting(s), "reset")
    /\ line' = [line EXCEPT ![s] = << >>]
    /\ file' = None
    /\ UNCHANGED <<lock, served, answer, state, leaving, faults, clientVars, reply, carried>>

\* close() cancels a recording, or raises if the recorder will not die; either
\* way the process ends, with the lock.
Close(s) ==
    /\ Goes(s, "close", "exited")
    /\ lock' = None
    /\ Forgets(s)
    /\ UNCHANGED <<file, served, answer>>
    /\ Quiet

\* Loading may take for ever; everything else is done in bounded time.
ServiceStep(s) ==
    \/ TakeLock(s) \/ Bind(s) \/ Accept(s) \/ NoRequest(s) \/ Handle(s)
    \/ Reply(s) \/ LeaveLoop(s) \/ Close(s)

\* SIGTERM or SIGINT sets an event that only the loop looks at.
Signal(s) ==
    /\ faults < MaxFaults
    /\ at[s] \in {"load", "bind"} \cup Listening
    /\ ~leaving[s]
    /\ faults' = faults + 1
    /\ leaving' = [leaving EXCEPT ![s] = TRUE]
    /\ UNCHANGED <<at, lock, file, served, answer, state, line, clientVars, net, reply, carried>>

\* The kernel releases the lock and closes the sockets; the file stays.  A
\* request that was read leaves an end of file, an unread one a reset.
Crash(s) ==
    /\ faults < MaxFaults
    /\ at[s] \in {"lock"} \cup Holding
    /\ faults' = faults + 1
    /\ at' = [at EXCEPT ![s] = "killed"]
    /\ lock' = IF lock = s THEN None ELSE lock
    /\ \E unread \in BOOLEAN :
           /\ unread => at[s] = "handle"
           /\ net' = [c \in Clients |-> IF c \in Waiting(s) \/ (unread /\ c \in Serving(s)) THEN "reset"
                                      ELSE IF c \in Serving(s) THEN "eof" ELSE net[c]]
    /\ line' = [line EXCEPT ![s] = << >>]
    /\ served' = [served EXCEPT ![s] = Nothing]
    /\ answer' = [answer EXCEPT ![s] = FALSE]
    /\ Forgets(s)
    /\ UNCHANGED <<file, clientVars, reply, carried>>

-----------------------------------------------------------------------------
(* The client: main, _ensure_service, _toggle, _send.                       *)

\* The file names a socket that listens and has room: Linux lets one connection
\* more wait than listen() was told, and refuses the next at once.
Connectable == file # None /\ at[file] \in Listening /\ Len(line[file]) <= Backlog

Joins(request) == line' = [line EXCEPT ![file] = Append(@, request)]

\* A peer that connects and sends nothing.
Stall ==
    /\ Connectable
    /\ faults < MaxFaults
    /\ faults' = faults + 1
    /\ Joins(Nothing)
    /\ UNCHANGED <<serviceVars, clientVars, net, reply, carried>>

Aside == UNCHANGED <<lock, file, answer, state, leaving, faults, carried>>
Stays == Aside /\ UNCHANGED <<served, line>>

\* The next request, if any, goes over a new connection.
Closed(c) ==
    /\ net' = [net EXCEPT ![c] = "none"]
    /\ reply' = [reply EXCEPT ![c] = NoAnswer]

Goto(c, next) ==
    /\ pc' = [pc EXCEPT ![c] = next]
    /\ Closed(c)

Gone(c, how) ==
    /\ Goto(c, "ended")
    /\ result' = [result EXCEPT ![c] = how]
    /\ command' = [command EXCEPT ![c] = "none"]
    /\ UNCHANGED at
    /\ Aside

Ends(c, how) == Gone(c, how) /\ UNCHANGED <<served, line>>

\* Clients are started in the order of their numbers.
Invoke(c) ==
    /\ pc[c] = "new"
    /\ \A d \in 1 .. c - 1 : pc[d] # "new"
    /\ \E what \in Commands :
           /\ command' = [command EXCEPT ![c] = IF what = "service-stop" THEN "shutdown" ELSE what]
           /\ Goto(c, IF what = "service-stop" THEN "stop_probe" ELSE "probe")
    /\ UNCHANGED <<at, result>>
    /\ Stays

Request(c) == [from |-> c, what |-> IF pc[c] = "send" THEN command[c] ELSE "status", live |-> TRUE]

Connect(c) ==
    /\ pc[c] \in Asking
    /\ net[c] = "none"
    /\ Connectable
    /\ Joins(Request(c))
    /\ net' = [net EXCEPT ![c] = "pending"]
    /\ UNCHANGED <<serviceVars, faults, clientVars, reply, carried>>

\* The request of a client that no longer listens stays where it is.
Abandon(c) ==
    LET Abandoned(r) == [r EXCEPT !.live = @ /\ r.from # c] IN
    /\ line' = [s \in Services |-> [i \in 1 .. Len(line[s]) |-> Abandoned(line[s][i])]]
    /\ served' = [s \in Services |-> Abandoned(served[s])]

\* One second for status in _service_responds, six minutes for the rest.
Timeout(c) ==
    /\ net[c] = "pending"
    /\ net' = [net EXCEPT ![c] = "timeout"]
    /\ Abandon(c)
    /\ UNCHANGED <<at, lock, file, answer, state, leaving, faults, clientVars, reply, carried>>

Responds(c) == net[c] = "answered" /\ reply[c].ok
Silent(c)   == net[c] \in {"reset", "timeout"} \/ (net[c] = "none" /\ ~Connectable)

\* An empty answer is a ProtocolError, which neither _service_responds nor
\* main of the client catches.
EmptyAnswer(c) ==
    /\ net[c] = "eof"
    /\ Ends(c, "uncertain")

NotRunning(c) ==
    /\ pc[c] = "stop_probe"
    /\ Silent(c)
    /\ Ends(c, "gave_up")

\* Also a client that is to stop the service makes sure that there is one.
Running(c) ==
    /\ pc[c] = "stop_probe"
    /\ Responds(c)
    /\ Goto(c, "probe")
    /\ UNCHANGED <<at, command, result>>
    /\ Stays

\* Bug: a toggle is sent as it is, and not made a start or a stop.
BugEnsured(c) ==
    /\ pc[c] \in {"probe", "poll"}
    /\ Responds(c)
    /\ Goto(c, "send")
    /\ UNCHANGED <<at, command, result>>
    /\ Stays

Ensured(c) ==
    /\ pc[c] \in {"probe", "poll"}
    /\ Responds(c)
    /\ Goto(c, IF command[c] = "toggle" THEN "ask" ELSE "send")
    /\ UNCHANGED <<at, command, result>>
    /\ Stays

Spawn(c) ==
    /\ pc[c] = "probe"
    /\ Silent(c)
    /\ at' = [at EXCEPT ![c] = "lock"]
    /\ Goto(c, "poll")
    /\ UNCHANGED <<command, result>>
    /\ Stays

\* Bug: while True.
BugDeadline(c) == FALSE /\ UNCHANGED vars

\* Six minutes are over: the last question may time out, and the loop ends.
Deadline(c) ==
    /\ pc[c] = "poll"
    /\ net[c] \notin {"answered", "eof"}
    /\ Gone(c, "gave_up")
    /\ Abandon(c)

\* Does the process this client started still run?
Poll(c) ==
    /\ pc[c] = "poll"
    /\ Silent(c)
    /\ IF at[c] \in Dead
       THEN Ends(c, "gave_up")
       ELSE Goto(c, "poll") /\ UNCHANGED <<at, command, result>> /\ Stays

Toggle(c) ==
    /\ pc[c] = "ask"
    /\ net[c] = "answered"
    /\ IF reply[c].state = "finalizing"
       THEN Ends(c, "gave_up")
       ELSE /\ command' = [command EXCEPT ![c] = IF reply[c].state = "idle" THEN "start" ELSE "stop"]
            /\ Goto(c, "send")
            /\ UNCHANGED <<at, result>>
            /\ Stays

\* Bug: a command that was not answered is sent again.
BugUnanswered(c) ==
    /\ pc[c] \in {"ask", "send"}
    /\ Silent(c)
    /\ Goto(c, pc[c])
    /\ UNCHANGED <<at, command, result>>
    /\ Stays

Unanswered(c) ==
    /\ pc[c] \in {"ask", "send"}
    /\ Silent(c)
    /\ Ends(c, IF net[c] = "timeout" THEN "uncertain" ELSE "gave_up")

Answered(c) ==
    /\ pc[c] = "send"
    /\ net[c] = "answered"
    /\ Ends(c, IF command[c] = "status" THEN "informed" ELSE "answered")

ClientStep(c) ==
    \/ Connect(c) \/ Timeout(c) \/ EmptyAnswer(c) \/ NotRunning(c) \/ Running(c)
    \/ Ensured(c) \/ Spawn(c) \/ Poll(c) \/ Toggle(c) \/ Unanswered(c)
    \/ Answered(c)

-----------------------------------------------------------------------------
Next ==
    \/ \E c \in Clients : Invoke(c) \/ ClientStep(c) \/ Deadline(c)
    \/ \E s \in Services : ServiceStep(s) \/ Prepare(s) \/ NotPrepared(s) \/ Misconfigured(s) \/ Signal(s) \/ Crash(s)
    \/ Stall

Spec == Init /\ [][Next]_vars

(* Processes run on and time passes, but a model may load for ever, and     *)
(* nobody has to run a client.                                              *)
FairSpec ==
    /\ Spec
    /\ \A c \in Clients : WF_vars(ClientStep(c)) /\ WF_vars(Deadline(c))
    /\ \A s \in Services : WF_vars(ServiceStep(s))

-----------------------------------------------------------------------------
(* Properties.                                                              *)

Results == {"none", "informed", "answered", "gave_up", "uncertain"}

\* Types.  Among them, that what a client sends is a word of the protocol.
TypeOK ==
    /\ at \in [Services -> ServicePc]
    /\ lock \in Services \cup {None}
    /\ file \in Services \cup {None}
    /\ line \in [Services -> Seq(Requests)]
    /\ served \in [Services -> Requests]
    /\ answer \in [Services -> BOOLEAN]
    /\ state \in [Services -> States]
    /\ leaving \in [Services -> BOOLEAN]
    /\ faults \in 0 .. MaxFaults
    /\ pc \in [Clients -> ClientPc]
    /\ command \in [Clients -> Words \cup {"toggle", "none"}]
    /\ net \in [Clients -> {"none", "pending", "answered", "reset", "eof", "timeout"}]
    /\ reply \in [Clients -> Answers]
    /\ result \in [Clients -> Results]
    /\ carried \in [Clients -> Nat]

\* A service that listens can be found: the file is its own, whatever other
\* processes were started, lost the lock, failed, ended or were killed in the
\* meantime.  A file that leads nowhere was left by a service that was killed.
SocketOwned ==
    /\ \A s \in Services : at[s] \in Listening => file = s
    /\ file # None => at[file] \in {"killed"} \cup Listening

\* Two services never record at once: a service that ends has let go of the
\* microphone before another can take the lock.  Of one that was killed only the
\* process is meant, not a recorder that has still to notice.
OneMicrophone ==
    \A s, t \in Services :
        (s # t /\ state[s] = "recording" /\ state[t] = "recording")
            => at[s] \in Dead \/ at[t] \in Dead

\* What a client says is true of its command, which is carried out at most
\* once: a command that was answered was carried out, one that the client could
\* not deliver never is, not even later.  After a time-out or a crash it may be.
AnswerTellsTruth ==
    \A c \in Clients :
        /\ carried[c] <= 1
        /\ result[c] = "answered" => carried[c] = 1
        /\ result[c] = "gave_up" => carried[c] = 0

\* Every client comes to an end, though the service it started loads for ever,
\* lost the lock or was killed, and though another answers nobody.
ClientEnds == \A c \in Clients : (pc[c] # "new") ~> (pc[c] = "ended")

\* A service that serves comes to have nobody waiting and no order to end that
\* it has not followed, or it is gone, though a peer connected to it says nothing.
ServiceCatchesUp ==
    \A s \in Services :
        (at[s] \in Listening)
            ~> (at[s] \in Dead \/ (at[s] = "accept" /\ line[s] = << >> /\ ~leaving[s]))
=============================================================================
