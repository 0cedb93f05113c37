--------------------------- MODULE ClientsProofs ---------------------------
(***************************************************************************)
(* Proofs about Clients.tla for any number of clients and faults and any   *)
(* length of the queue of connections.                                     *)
(***************************************************************************)
EXTENDS Clients, SequenceTheorems, TLAPS

USE DEF Services, Clients

\* Nobody has started the service of a client that has not come to Spawn.
Unborn == \A c \in Clients : pc[c] \in {"new", "stop_probe", "probe"} => at[c] = "unborn"

\* A client that asks has a command, and one that sends knows which.
Known ==
    \A c \in Clients :
        /\ pc[c] \in Asking => command[c] # "none"
        /\ pc[c] = "send" => command[c] \in Words

\* From the lock to the end a service holds the lock, and no other records.
Locked ==
    \A s \in Services :
        /\ at[s] \in Holding => lock = s
        /\ state[s] # "idle" => at[s] \in Holding

IInv == TypeOK /\ Unborn /\ Known /\ Locked /\ SocketOwned

-----------------------------------------------------------------------------
(* Types. *)

\* Nothing has happened yet.
LEMMA InitIInv == Init => IInv
  BY ClientsAssumption
  DEF Init, IInv, TypeOK, Unborn, Known, Locked, SocketOwned, ServicePc, Requests, Nothing,
      States, Answers, NoAnswer, ClientPc, Results, None, Holding, Listening, Asking

\* A handler leaves the service in one of the states between commands.
LEMMA OutcomesFacts ==
    ASSUME NEW what \in Words, NEW now \in States, NEW o \in Outcomes(what, now)
    PROVE  o.ok \in BOOLEAN /\ o.state \in States
  <1> DEFINE To(ok, next, says) == [ok |-> ok, state |-> next, says |-> says]
  <1>1. \A ok \in BOOLEAN, next, says \in States :
            To(ok, next, says).ok \in BOOLEAN /\ To(ok, next, says).state \in States
    OBVIOUS
  <1>2. "idle" \in States /\ "recording" \in States /\ "finalizing" \in States
    BY DEF States
  <1>3. \E ok \in BOOLEAN, next, says \in States : o = To(ok, next, says)
    <2>1. CASE what = "status"
      BY <2>1, <1>2 DEF Outcomes
    <2>2. CASE what = "start"
      BY <2>2, <1>2 DEF Outcomes
    <2>3. CASE what = "stop"
      BY <2>3, <1>2 DEF Outcomes
    <2>4. CASE what = "cancel"
      BY <2>4, <1>2 DEF Outcomes
    <2>5. CASE what = "shutdown"
      BY <2>5, <1>2 DEF Outcomes
    <2> QED
      BY <2>1, <2>2, <2>3, <2>4, <2>5 DEF Words
  <1> HIDE DEF To
  <1> QED
    BY <1>1, <1>3

\* One more connection waits.
LEMMA JoinsTypes ==
    ASSUME TypeOK, Connectable, NEW r \in Requests, Joins(r)
    PROVE  line' \in [Services -> Seq(Requests)]
  <1>1. file \in Services /\ line[file] \in Seq(Requests)
    BY DEF TypeOK, Connectable
  <1>2. Append(line[file], r) \in Seq(Requests) /\ Len(Append(line[file], r)) = Len(line[file]) + 1
    BY <1>1
  <1> QED
    BY <1>1, <1>2, ClientsAssumption DEF TypeOK, Joins

\* An abandoned request stays where it is.
LEMMA AbandonTypes ==
    ASSUME TypeOK, NEW c \in Clients, Abandon(c)
    PROVE  /\ line' \in [Services -> Seq(Requests)]
           /\ served' \in [Services -> Requests]
  <1> DEFINE A(r) == [r EXCEPT !.live = @ /\ r.from # c]
  <1>1. \A r \in Requests : A(r) \in Requests
    BY DEF Requests
  <1>2. served' \in [Services -> Requests]
    BY <1>1 DEF Abandon, TypeOK
  <1> DEFINE L(t) == [i \in 1 .. Len(line[t]) |-> A(line[t][i])]
  <1>3. ASSUME NEW t \in Services PROVE L(t) \in Seq(Requests) /\ Len(L(t)) = Len(line[t])
    <2>1. line[t] \in Seq(Requests)
      BY DEF TypeOK
    <2>2. \A i \in 1 .. Len(line[t]) : A(line[t][i]) \in Requests
      BY <1>1, <2>1
    <2> HIDE DEF A
    <2> QED
      BY <2>1, <2>2
  <1>4. line' = [t \in Services |-> L(t)]
    BY DEF Abandon
  <1> HIDE DEF L
  <1> QED
    BY <1>2, <1>3, <1>4 DEF TypeOK

\* The line loses its first connection.
LEMMA AcceptTypes ==
    ASSUME IInv, NEW s \in Services, Accept(s)
    PROVE  TypeOK'
  <1>1. /\ line[s] \in Seq(Requests) /\ line[s] # << >>
        /\ line \in [Services -> Seq(Requests)]
    BY DEF IInv, TypeOK, Accept
  <1>2. Head(line[s]) \in Requests /\ Tail(line[s]) \in Seq(Requests) /\ Len(Tail(line[s])) = Len(line[s]) - 1
    BY <1>1
  <1>3. line' \in [Services -> Seq(Requests)]
    BY <1>1, <1>2, ClientsAssumption DEF Accept
  <1> QED
    BY <1>2, <1>3 DEF IInv, TypeOK, Accept, Goes, ServicePc, Holding, Listening, clientVars

\* A command is carried out, once for its client.
LEMMA HandleTypes ==
    ASSUME IInv, NEW s \in Services, Handle(s)
    PROVE  TypeOK'
  <1>1. served[s].what \in Words /\ state[s] \in States
    BY DEF IInv, TypeOK, Handle, Requests
  <1>2. PICK o \in Outcomes(served[s].what, state[s]) :
           /\ answer' = [answer EXCEPT ![s] = o.ok]
           /\ state' = [state EXCEPT ![s] = o.state]
           /\ leaving' = [leaving EXCEPT ![s] = @ \/ (served[s].what = "shutdown" /\ o.ok)]
    BY DEF Handle
  <1>3. o.ok \in BOOLEAN /\ o.state \in States
    BY <1>1, OutcomesFacts
  <1>4. answer' \in [Services -> BOOLEAN] /\ state' \in [Services -> States]
    BY <1>2, <1>3 DEF IInv, TypeOK
  <1>6. at' \in [Services -> ServicePc]
    BY DEF IInv, TypeOK, Handle, Goes, ServicePc, Holding, Listening
  <1>8. carried' \in [Clients -> Nat]
    <2>1. carried \in [Clients -> Nat]
      BY DEF IInv, TypeOK
    <2>2. CASE served[s].what = "status"
      BY <2>1, <2>2 DEF Handle
    <2>3. CASE served[s].what # "status"
      <3>1. carried' = [carried EXCEPT ![served[s].from] = carried[served[s].from] + 1]
        BY <2>3 DEF Handle
      <3>2. CASE served[s].from \in Clients
        BY <2>1, <3>1, <3>2
      <3>3. CASE served[s].from \notin Clients
        BY <2>1, <3>1, <3>3
      <3> QED
        BY <3>2, <3>3
    <2> QED
      BY <2>2, <2>3
  <1>7. /\ lock' = lock /\ file' = file /\ served' = served /\ line' = line /\ faults' = faults
        /\ pc' = pc /\ command' = command /\ result' = result /\ net' = net /\ reply' = reply
    BY DEF Handle, clientVars
  <1>5. leaving' \in [Services -> BOOLEAN]
    <2> DEFINE now == leaving[s] \/ (served[s].what = "shutdown" /\ o.ok)
    <2>1. now \in BOOLEAN
      OBVIOUS
    <2>2. leaving' = [leaving EXCEPT ![s] = now]
      BY <1>2
    <2> HIDE DEF now
    <2> QED
      BY <2>1, <2>2 DEF IInv, TypeOK
  <1> QED
    BY <1>4, <1>5, <1>6, <1>7, <1>8 DEF IInv, TypeOK

\* The line is dropped.
LEMMA LeaveLoopTypes ==
    ASSUME IInv, NEW s \in Services, LeaveLoop(s)
    PROVE  TypeOK'
  <1>1. line' \in [Services -> Seq(Requests)]
    BY ClientsAssumption DEF IInv, TypeOK, LeaveLoop
  <1>2. at' \in [Services -> ServicePc]
    BY DEF IInv, TypeOK, LeaveLoop, Goes, ServicePc, Holding
  <1> QED
    BY <1>1, <1>2 DEF IInv, TypeOK, LeaveLoop, Lost, None, clientVars

\* A killed service loses everything it had but the name of the socket.
LEMMA CrashTypes ==
    ASSUME IInv, NEW s \in Services, Crash(s)
    PROVE  TypeOK'
  <1>1. line' \in [Services -> Seq(Requests)]
    BY ClientsAssumption DEF IInv, TypeOK, Crash
  <1>2. at' \in [Services -> ServicePc] /\ faults' \in 0 .. MaxFaults
    BY ClientsAssumption DEF IInv, TypeOK, Crash, ServicePc, Dead
  <1>3. state' \in [Services -> States] /\ leaving' \in [Services -> BOOLEAN] 
    BY DEF IInv, TypeOK, Crash, Forgets, States
  <1>4. answer' \in [Services -> BOOLEAN] /\ served' \in [Services -> Requests] /\ lock' \in Services \cup {None}
    BY DEF IInv, TypeOK, Crash, Nothing, Requests
  <1>5. net' \in [Clients -> {"none", "pending", "answered", "reset", "eof", "timeout"}]
    BY DEF IInv, TypeOK, Crash
  <1> QED
    BY <1>1, <1>2, <1>3, <1>4, <1>5 DEF IInv, TypeOK, Crash, clientVars

\* The command of a client is one of those a service knows, or toggle.
LEMMA InvokeTypes ==
    ASSUME IInv, NEW c \in Clients, Invoke(c)
    PROVE  TypeOK'
  <1>1. command' \in [Clients -> Words \cup {"toggle", "none"}]
    BY ClientsAssumption DEF IInv, TypeOK, Invoke, Words, AllCommands
  <1>2. pc' \in [Clients -> ClientPc] /\ reply' \in [Clients -> Answers]
        /\ net' \in [Clients -> {"none", "pending", "answered", "reset", "eof", "timeout"}]
    BY DEF IInv, TypeOK, Invoke, Goto, Closed, ClientPc, Asking, NoAnswer, Answers, States
  <1> QED
    BY <1>1, <1>2 DEF IInv, TypeOK, Invoke, Stays, Aside

\* A connection joins the line while there is room.
LEMMA ConnectTypes ==
    ASSUME IInv, NEW c \in Clients, Connect(c)
    PROVE  TypeOK'
  <1>1. Request(c) \in Requests
    BY DEF IInv, TypeOK, Known, Request, Requests, Words
  <1>2. line' \in [Services -> Seq(Requests)]
    BY <1>1, JoinsTypes DEF IInv, Connect
  <1> QED
    BY <1>2 DEF IInv, TypeOK, Connect, serviceVars, clientVars

\* Every step of a service keeps the types.
LEMMA ServiceTypes ==
    ASSUME IInv, NEW s \in Services,
           TakeLock(s) \/ Misconfigured(s) \/ Prepare(s) \/ NotPrepared(s) \/ Bind(s)
           \/ Accept(s) \/ NoRequest(s) \/ Handle(s) \/ Reply(s) \/ LeaveLoop(s)
           \/ Close(s) \/ Signal(s) \/ Crash(s)
    PROVE  TypeOK'
  <1>1. CASE TakeLock(s)
    BY <1>1, ClientsAssumption DEF IInv, TypeOK, TakeLock, Goes, Quiet, clientVars, ServicePc, Holding, Dead, None
  <1>2. CASE Misconfigured(s)
    BY <1>2, ClientsAssumption DEF IInv, TypeOK, Misconfigured, Goes, Forgets, Quiet, clientVars, ServicePc, Dead, States
  <1>3. CASE Prepare(s)
    BY <1>3, ClientsAssumption DEF IInv, TypeOK, Prepare, Goes, Quiet, clientVars, ServicePc, Holding
  <1>4. CASE NotPrepared(s)
    BY <1>4, ClientsAssumption DEF IInv, TypeOK, NotPrepared, Goes, Quiet, clientVars, ServicePc, Holding
  <1>5. CASE Bind(s)
    BY <1>5, ClientsAssumption DEF IInv, TypeOK, Bind, Goes, LoopsTo, Quiet, clientVars, ServicePc, Holding, Listening
  <1>6. CASE Accept(s)
    BY <1>6, AcceptTypes
  <1>7. CASE NoRequest(s)
    BY <1>7, ClientsAssumption DEF IInv, TypeOK, NoRequest, Goes, Quiet, clientVars, ServicePc, Holding, Listening
  <1>8. CASE Handle(s)
    BY <1>8, HandleTypes
  <1>9. CASE Reply(s)
    BY <1>9, ClientsAssumption DEF IInv, TypeOK, Reply, Goes, LoopsTo, Lost, Seen, clientVars, ServicePc, Holding, Listening, Nothing, Requests, Answers, States
  <1>10. CASE LeaveLoop(s)
    BY <1>10, LeaveLoopTypes
  <1>11. CASE Close(s)
    BY <1>11, ClientsAssumption DEF IInv, TypeOK, Close, Goes, Forgets, Quiet, clientVars, ServicePc, Dead, States
  <1>12. CASE Signal(s)
    BY <1>12, ClientsAssumption DEF IInv, TypeOK, Signal, clientVars
  <1>13. CASE Crash(s)
    BY <1>13, CrashTypes
  <1> QED
    BY <1>1, <1>2, <1>3, <1>4, <1>5, <1>6, <1>7, <1>8, <1>9, <1>10, <1>11, <1>12, <1>13

\* Every step of a client keeps the types.
LEMMA ClientTypes ==
    ASSUME IInv, NEW c \in Clients,
           Invoke(c) \/ Connect(c) \/ Timeout(c) \/ EmptyAnswer(c) \/ NotRunning(c)
           \/ Running(c) \/ Ensured(c) \/ Spawn(c) \/ Deadline(c) \/ Poll(c)
           \/ Toggle(c) \/ Unanswered(c) \/ Answered(c)
    PROVE  TypeOK'
  <1>1. CASE Invoke(c)
    BY <1>1, InvokeTypes
  <1>2. CASE Connect(c)
    BY <1>2, ConnectTypes
  <1>3. CASE Timeout(c)
    <2>1. TypeOK
      BY DEF IInv
    <2> QED
      BY <1>3, <2>1, AbandonTypes DEF TypeOK, Timeout, clientVars
  <1>4. CASE EmptyAnswer(c)
    BY <1>4 DEF IInv, TypeOK, EmptyAnswer, Ends, Gone, Goto, Closed, Aside, ClientPc, Results, Answers, NoAnswer, States
  <1>5. CASE NotRunning(c)
    BY <1>5 DEF IInv, TypeOK, NotRunning, Ends, Gone, Goto, Closed, Aside, ClientPc, Results, Answers, NoAnswer, States
  <1>6. CASE Running(c)
    BY <1>6 DEF IInv, TypeOK, Running, Goto, Closed, Stays, Aside, ClientPc, Asking, Answers, NoAnswer, States
  <1>7. CASE Ensured(c)
    BY <1>7 DEF IInv, TypeOK, Ensured, Goto, Closed, Stays, Aside, ClientPc, Asking, Answers, NoAnswer, States
  <1>8. CASE Spawn(c)
    BY <1>8 DEF IInv, TypeOK, Spawn, Goto, Closed, Stays, Aside, ClientPc, Asking, ServicePc, Answers, NoAnswer, States
  <1>9. CASE Deadline(c)
    <2>1. TypeOK
      BY DEF IInv
    <2>2. /\ line' \in [Services -> Seq(Requests)]
          /\ served' \in [Services -> Requests]
      BY <1>9, <2>1, AbandonTypes DEF Deadline
    <2> QED
      BY <1>9, <2>1, <2>2 DEF TypeOK, Deadline, Gone, Goto, Closed, Aside, ClientPc, Results, Answers, NoAnswer, States
  <1>10. CASE Poll(c)
    <2>2. CASE Ends(c, "gave_up")
      BY <2>2 DEF IInv, TypeOK, Ends, Gone, Goto, Closed, Aside, ClientPc, Results, Answers, NoAnswer, States
    <2>3. CASE Goto(c, "poll") /\ UNCHANGED <<at, command, result>> /\ Stays
      BY <2>3 DEF IInv, TypeOK, Goto, Closed, Stays, Aside, Asking, ClientPc, Answers, NoAnswer, States
    <2> QED
      BY <1>10, <2>2, <2>3 DEF Poll
  <1>11. CASE Toggle(c)
    <2>2. CASE Ends(c, "gave_up")
      BY <2>2 DEF IInv, TypeOK, Ends, Gone, Goto, Closed, Aside, ClientPc, Results, Answers, NoAnswer, States
    <2>3. CASE /\ command' = [command EXCEPT ![c] = IF reply[c].state = "idle" THEN "start" ELSE "stop"]
               /\ Goto(c, "send") /\ UNCHANGED <<at, result>> /\ Stays
      BY <2>3 DEF IInv, TypeOK, Goto, Closed, Stays, Aside, Asking, ClientPc, Answers, NoAnswer, States, Words
    <2> QED
      BY <1>11, <2>2, <2>3 DEF Toggle
  <1>12. CASE Unanswered(c)
    BY <1>12 DEF IInv, TypeOK, Unanswered, Ends, Gone, Goto, Closed, Aside, ClientPc, Results, Answers, NoAnswer, States
  <1>13. CASE Answered(c)
    BY <1>13 DEF IInv, TypeOK, Answered, Ends, Gone, Goto, Closed, Aside, ClientPc, Results, Answers, NoAnswer, States
  <1> QED
    BY <1>1, <1>2, <1>3, <1>4, <1>5, <1>6, <1>7, <1>8, <1>9, <1>10, <1>11, <1>12, <1>13

-----------------------------------------------------------------------------
(* Who holds the lock and the name of the socket. *)

\* A service that finds the lock free is the only one that holds it.
LEMMA TakeLockOwned ==
    ASSUME IInv, NEW s \in Services, TakeLock(s)
    PROVE  (Unborn /\ Locked /\ SocketOwned)'
  <1>1. CASE lock = None
    <2>1. \A t \in Services : at[t] \notin Holding
      BY <1>1 DEF IInv, Locked, None
    <2>2. at' = [at EXCEPT ![s] = "load"] /\ lock' = s /\ state' = state /\ file' = file /\ at[s] = "lock" /\ pc' = pc
      BY <1>1 DEF TakeLock, Goes, Quiet, clientVars
    <2>3. Locked'
      BY <2>1, <2>2 DEF IInv, TypeOK, Locked
    <2>4. Unborn'
      BY <2>2 DEF IInv, TypeOK, Unborn
    <2>5. SocketOwned'
      BY <2>2 DEF IInv, TypeOK, SocketOwned, Listening
    <2> QED
      BY <2>3, <2>4, <2>5
  <1>2. CASE lock # None
    <2>1. at' = [at EXCEPT ![s] = "exited"] /\ lock' = lock /\ state' = state /\ file' = file /\ at[s] = "lock" /\ pc' = pc
      BY <1>2 DEF TakeLock, Goes, Quiet, clientVars
    <2>2. Locked'
      BY <2>1 DEF IInv, TypeOK, Locked, Holding, Listening
    <2>3. Unborn'
      BY <2>1 DEF IInv, TypeOK, Unborn
    <2>4. SocketOwned'
      BY <2>1 DEF IInv, TypeOK, SocketOwned, Listening
    <2> QED
      BY <2>2, <2>3, <2>4
  <1> QED
    BY <1>1, <1>2

\* The socket's name goes while the lock is still held.
LEMMA LeaveLoopOwned ==
    ASSUME IInv, NEW s \in Services, LeaveLoop(s)
    PROVE  (Unborn /\ Locked /\ SocketOwned)'
  <1>0. at[s] \in Listening /\ at' = [at EXCEPT ![s] = "close"] /\ file' = None /\ lock' = lock /\ state' = state
    BY DEF LeaveLoop, Goes, Listening
  <1>1. Locked'
    BY <1>0 DEF IInv, TypeOK, Locked, Holding, Listening
  <1>2. Unborn'
    BY <1>0 DEF IInv, TypeOK, Unborn, LeaveLoop, Listening, clientVars
  <1>3. SocketOwned'
    BY <1>0 DEF IInv, TypeOK, SocketOwned, Listening, Locked, Holding, None
  <1> QED
    BY <1>1, <1>2, <1>3

\* Every step of a service leaves lock and socket with one service.
LEMMA ServiceOwned ==
    ASSUME IInv, NEW s \in Services,
           TakeLock(s) \/ Misconfigured(s) \/ Prepare(s) \/ NotPrepared(s) \/ Bind(s)
           \/ Accept(s) \/ NoRequest(s) \/ Handle(s) \/ Reply(s) \/ LeaveLoop(s)
           \/ Close(s) \/ Signal(s) \/ Crash(s)
    PROVE  (Unborn /\ Locked /\ SocketOwned)'
  <1>1. CASE TakeLock(s)
    BY <1>1, TakeLockOwned
  <1>2. CASE Misconfigured(s)
    <2>1. Locked'
      BY <1>2 DEF IInv, TypeOK, Locked, Misconfigured, Goes, Forgets, Holding, Listening, None
    <2>2. Unborn'
      BY <1>2 DEF IInv, TypeOK, Unborn, Misconfigured, Goes, Quiet, clientVars
    <2>3. SocketOwned'
      BY <1>2 DEF IInv, TypeOK, SocketOwned, Misconfigured, Goes, Listening, None
    <2> QED
      BY <2>1, <2>2, <2>3
  <1>3. CASE Prepare(s)
    BY <1>3 DEF IInv, TypeOK, Prepare, Quiet, Goes, clientVars, Unborn, Locked, SocketOwned, Holding, Listening, None
  <1>4. CASE NotPrepared(s)
    BY <1>4 DEF IInv, TypeOK, NotPrepared, Quiet, Goes, clientVars, Unborn, Locked, SocketOwned, Holding, Listening, None
  <1>5. CASE Bind(s)
    BY <1>5 DEF IInv, TypeOK, Bind, Quiet, LoopsTo, Goes, clientVars, Unborn, Locked, SocketOwned, Holding, Listening, None
  <1>6. CASE Accept(s)
    BY <1>6 DEF IInv, TypeOK, Accept, Goes, clientVars, Unborn, Locked, SocketOwned, Holding, Listening, None
  <1>7. CASE NoRequest(s)
    BY <1>7 DEF IInv, TypeOK, NoRequest, Quiet, Goes, clientVars, Unborn, Locked, SocketOwned, Holding, Listening, None
  <1>8. CASE Handle(s)
    BY <1>8 DEF IInv, TypeOK, Handle, Goes, clientVars, Unborn, Locked, SocketOwned, Holding, Listening, None
  <1>9. CASE Reply(s)
    BY <1>9 DEF IInv, TypeOK, Reply, LoopsTo, Goes, clientVars, Unborn, Locked, SocketOwned, Holding, Listening, None
  <1>10. CASE LeaveLoop(s)
    BY <1>10, LeaveLoopOwned
  <1>11. CASE Close(s)
    BY <1>11 DEF IInv, TypeOK, Close, Quiet, Forgets, Goes, clientVars, Unborn, Locked, SocketOwned, Holding, Listening, None
  <1>12. CASE Signal(s)
    BY <1>12 DEF IInv, TypeOK, Signal, clientVars, Unborn, Locked, SocketOwned, Holding, Listening, None
  <1>13. CASE Crash(s)
    BY <1>13 DEF IInv, TypeOK, Crash, Forgets, clientVars, Unborn, Locked, SocketOwned, Holding, Listening, None
  <1> QED
    BY <1>1, <1>2, <1>3, <1>4, <1>5, <1>6, <1>7, <1>8, <1>9, <1>10, <1>11, <1>12, <1>13

\* A client starts with a command.
LEMMA InvokeKnown ==
    ASSUME IInv, NEW c \in Clients, Invoke(c)
    PROVE  (Unborn /\ Known)'
  <1>1. PICK what \in Commands :
           /\ command' = [command EXCEPT ![c] = IF what = "service-stop" THEN "shutdown" ELSE what]
           /\ Goto(c, IF what = "service-stop" THEN "stop_probe" ELSE "probe")
    BY DEF Invoke
  <1>2. what # "none"
    BY ClientsAssumption DEF AllCommands
  <1>3. Known'
    BY <1>1, <1>2 DEF IInv, TypeOK, Known, Goto, Words
  <1>4. Unborn'
    BY <1>1 DEF IInv, TypeOK, Unborn, Goto, Invoke
  <1> QED
    BY <1>3, <1>4

\* Every step of a client leaves it with a command while it asks.
LEMMA ClientKnown ==
    ASSUME IInv, NEW c \in Clients,
           Invoke(c) \/ Connect(c) \/ Timeout(c) \/ EmptyAnswer(c) \/ NotRunning(c)
           \/ Running(c) \/ Ensured(c) \/ Spawn(c) \/ Deadline(c) \/ Poll(c)
           \/ Toggle(c) \/ Unanswered(c) \/ Answered(c)
    PROVE  (Unborn /\ Known)'
  <1>1. CASE Invoke(c)
    BY <1>1, InvokeKnown
  <1>2. CASE Connect(c)
    BY <1>2 DEF IInv, TypeOK, Connect, serviceVars, clientVars, Unborn, Known
  <1>3. CASE Timeout(c)
    BY <1>3 DEF IInv, TypeOK, Timeout, clientVars, Unborn, Known
  <1>4. CASE EmptyAnswer(c)
    BY <1>4 DEF IInv, TypeOK, EmptyAnswer, Ends, Gone, Goto, Asking, Unborn, Known
  <1>5. CASE NotRunning(c)
    BY <1>5 DEF IInv, TypeOK, NotRunning, Ends, Gone, Goto, Asking, Unborn, Known
  <1>6. CASE Running(c)
    BY <1>6 DEF IInv, TypeOK, Running, Goto, Asking, Unborn, Known
  <1>7. CASE Ensured(c)
    BY <1>7 DEF IInv, TypeOK, Ensured, Goto, Asking, Unborn, Known
  <1>8. CASE Spawn(c)
    BY <1>8 DEF IInv, TypeOK, Spawn, Goto, Asking, Unborn, Known
  <1>9. CASE Deadline(c)
    BY <1>9 DEF IInv, TypeOK, Deadline, Gone, Goto, Asking, Unborn, Known
  <1>10. CASE Poll(c)
    <2>1. pc[c] = "poll" /\ at' = at
      BY <1>10 DEF Poll, Ends, Gone
    <2>2. CASE Ends(c, "gave_up")
      BY <2>1, <2>2 DEF IInv, TypeOK, Unborn, Known, Ends, Gone, Goto, Asking
    <2>3. CASE Goto(c, "poll") /\ command' = command
      BY <2>1, <2>3 DEF IInv, TypeOK, Unborn, Known, Goto, Asking
    <2> QED
      BY <1>10, <2>2, <2>3 DEF Poll
  <1>11. CASE Toggle(c)
    <2>1. pc[c] = "ask" /\ at' = at
      BY <1>11 DEF Toggle, Ends, Gone
    <2>2. CASE Ends(c, "gave_up")
      BY <2>1, <2>2 DEF IInv, TypeOK, Unborn, Known, Ends, Gone, Goto, Asking
    <2>3. CASE /\ command' = [command EXCEPT ![c] = IF reply[c].state = "idle" THEN "start" ELSE "stop"]
               /\ Goto(c, "send")
      BY <2>1, <2>3 DEF IInv, TypeOK, Unborn, Known, Goto, Asking, Words
    <2> QED
      BY <1>11, <2>2, <2>3 DEF Toggle
  <1>12. CASE Unanswered(c)
    BY <1>12 DEF IInv, TypeOK, Unanswered, Ends, Gone, Goto, Asking, Unborn, Known
  <1>13. CASE Answered(c)
    BY <1>13 DEF IInv, TypeOK, Answered, Ends, Gone, Goto, Asking, Unborn, Known
  <1> QED
    BY <1>1, <1>2, <1>3, <1>4, <1>5, <1>6, <1>7, <1>8, <1>9, <1>10, <1>11, <1>12, <1>13

\* No step of a client disturbs the services, but that it starts one that is not yet.
LEMMA ClientOwned ==
    ASSUME IInv, NEW c \in Clients, Invoke(c) \/ ClientStep(c) \/ Deadline(c)
    PROVE  (Locked /\ SocketOwned)'
  <1>1. lock' = lock /\ file' = file /\ state' = state
    BY DEF Invoke, ClientStep, Connect, Timeout, EmptyAnswer, NotRunning, Running, Ensured, Spawn, Poll,
           Toggle, Unanswered, Answered, Deadline, Ends, Gone, Stays, Aside, serviceVars
  <1>2. CASE Spawn(c)
    <2>1. at[c] = "unborn" /\ at' = [at EXCEPT ![c] = "lock"]
      BY <1>2 DEF IInv, Unborn, Spawn
    <2> QED
      BY <1>1, <2>1 DEF IInv, TypeOK, Locked, SocketOwned, Holding, Listening
  <1>3. CASE ~Spawn(c)
    <2>1. at' = at
      BY <1>3 DEF Invoke, ClientStep, Connect, Timeout, EmptyAnswer, NotRunning, Running, Ensured, Poll,
                  Toggle, Unanswered, Answered, Deadline, Ends, Gone, serviceVars
    <2> QED
      BY <1>1, <2>1 DEF IInv, Locked, SocketOwned
  <1> QED
    BY <1>2, <1>3

-----------------------------------------------------------------------------
(* The theorems. *)

\* The invariant is inductive.
LEMMA NextIInv == IInv /\ [Next]_vars => IInv'
  <1> SUFFICES ASSUME IInv, [Next]_vars
               PROVE  IInv'
    OBVIOUS
  <1>1. ASSUME NEW c \in Clients, Invoke(c) \/ ClientStep(c) \/ Deadline(c)
        PROVE  IInv'
    <2>1. TypeOK'
      BY <1>1, ClientTypes DEF ClientStep
    <2>2. (Unborn /\ Known)'
      BY <1>1, ClientKnown DEF ClientStep
    <2>3. (Locked /\ SocketOwned)'
      BY <1>1, ClientOwned
    <2> QED
      BY <2>1, <2>2, <2>3 DEF IInv
  <1>2. ASSUME NEW s \in Services,
               ServiceStep(s) \/ Prepare(s) \/ NotPrepared(s) \/ Misconfigured(s) \/ Signal(s) \/ Crash(s)
        PROVE  IInv'
    <2>1. TypeOK'
      BY <1>2, ServiceTypes DEF ServiceStep
    <2>2. (Unborn /\ Locked /\ SocketOwned)'
      BY <1>2, ServiceOwned DEF ServiceStep
    <2>3. pc' = pc /\ command' = command
      BY <1>2 DEF ServiceStep, TakeLock, Bind, Accept, NoRequest, Handle, Reply, LeaveLoop, Close, Prepare,
                  NotPrepared, Misconfigured, Signal, Crash, Quiet, clientVars
    <2> QED
      BY <2>1, <2>2, <2>3 DEF IInv, Known
  <1>3. CASE Stall
    <2>1. Nothing \in Requests /\ TypeOK
      BY DEF IInv, Nothing, Requests
    <2>2. line' \in [Services -> Seq(Requests)]
      BY <1>3, <2>1, JoinsTypes DEF Stall
    <2>3. TypeOK'
      BY <1>3, <2>1, <2>2, ClientsAssumption DEF TypeOK, Stall, serviceVars, clientVars
    <2> QED
      BY <1>3, <2>3 DEF IInv, Unborn, Known, Locked, SocketOwned, Stall, serviceVars, clientVars
  <1>4. CASE UNCHANGED vars
    BY <1>4 DEF IInv, TypeOK, Unborn, Known, Locked, SocketOwned, vars, serviceVars, clientVars
  <1> QED
    BY <1>1, <1>2, <1>3, <1>4 DEF Next

\* The invariant holds in every reachable state, whatever clients, services,
\* signals and crashes come in whatever order.
THEOREM ClientsInvariance == Spec => []IInv
  BY InitIInv, NextIInv, PTL DEF Spec

\* Every variable keeps its type, and the queue of connections its bound.
THEOREM ClientsTypeCorrect == Spec => []TypeOK
  <1>1. IInv => TypeOK
    BY DEF IInv
  <1> QED
    BY <1>1, ClientsInvariance, PTL

\* main and _serve of service_app.py: a service that listens owns the socket's
\* name, and a name that leads nowhere was left by a service that was killed.
THEOREM ListenerIsFound == Spec => []SocketOwned
  <1>1. IInv => SocketOwned
    BY DEF IInv
  <1> QED
    BY <1>1, ClientsInvariance, PTL

\* main of service_app.py: no two services record at once.
THEOREM OneRecorder == Spec => []OneMicrophone
  <1>1. IInv => OneMicrophone
    BY DEF IInv, Locked, OneMicrophone
  <1> QED
    BY <1>1, ClientsInvariance, PTL
=============================================================================
