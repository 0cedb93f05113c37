------------------------ MODULE ClientsAnswerProofs ------------------------
(***************************************************************************)
(* Proof that a client of Clients.tla tells the truth of its command.  A   *)
(* request lives in one place, the queue of a service or its hands; a      *)
(* client knows no more of it than what place it has left for which.       *)
(***************************************************************************)
EXTENDS ClientsProofs

USE DEF Services, Clients

\* The request at a place of a service: place 0 is the connection being served.
Req(s, i) == IF i = 0 THEN served[s] ELSE line[s][i]

\* A request that is to be carried out.
Order(r) == r.what \notin {"status", "nothing"}

\* A request that client c waits for, or that is to be carried out for it.
Of(r, c) == r.from = c /\ (r.live \/ Order(r))

\* Nothing is served but between accept() and the reply.
Spare == \A s \in Services : at[s] \notin {"handle", "reply"} => served[s] = Nothing

\* A client has no more than one such request, in one place.
Single ==
    \A c \in Clients, s \in Services, t \in Services :
        \A i \in 0 .. Len(line[s]), j \in 0 .. Len(line[t]) :
            Of(Req(s, i), c) /\ Of(Req(t, j), c) => s = t /\ i = j

\* Who is waited for is a client that waits, and for this request.
Heeded ==
    \A s \in Services : \A i \in 0 .. Len(line[s]) :
        LET r == Req(s, i) IN
        r.live => /\ r.from \in Clients
                  /\ net[r.from] = "pending"
                  /\ pc[r.from] \in Asking
                  /\ r.what = IF pc[r.from] = "send" THEN command[r.from] ELSE "status"

\* An order was carried out if its reply is due and not before, and its client
\* does not take it for undelivered.
Ordered ==
    \A s \in Services : \A i \in 0 .. Len(line[s]) :
        LET r == Req(s, i) IN
        Order(r) => /\ r.from \in Clients
                    /\ carried[r.from] = IF i = 0 /\ at[s] = "reply" THEN 1 ELSE 0
                    /\ \/ /\ pc[r.from] = "send"
                          /\ net[r.from] \notin {"none", "reset"}
                          /\ command[r.from] # "status"
                       \/ pc[r.from] = "ended" /\ result[r.from] # "gave_up"

\* What a client knows of its connection, and says in the end, fits to how often
\* its command was carried out.
CountedFor(c) ==
    /\ carried[c] \in 0 .. 1
    /\ pc[c] \notin {"send", "ended"} => carried[c] = 0
    /\ pc[c] = "send" =>
         /\ net[c] \in {"none", "reset"} \/ command[c] = "status" => carried[c] = 0
         /\ net[c] = "answered" /\ command[c] # "status" => carried[c] = 1
    /\ pc[c] # "ended" => result[c] = "none"
    /\ pc[c] \notin Asking => net[c] = "none"
    /\ result[c] = "answered" => carried[c] = 1
    /\ result[c] = "gave_up" => carried[c] = 0

Counted == \A c \in Clients : CountedFor(c)

Truth == Spare /\ Single /\ Heeded /\ Ordered /\ Counted

\* The step moves no request, and adds none.
Kept ==
    \A s \in Services : \A i \in 0 .. Len(line'[s]) :
        (Req(s, i)'.live \/ Order(Req(s, i)')) =>
            /\ i \in 0 .. Len(line[s])
            /\ Req(s, i)'.from = Req(s, i).from
            /\ Req(s, i)'.what = Req(s, i).what
            /\ Req(s, i)'.live => Req(s, i).live

\* Such a step makes no second request.
LEMMA KeptSingle == ASSUME Single, Kept PROVE Single'
  <1>1. ASSUME NEW c \in Clients, NEW s \in Services, NEW i \in 0 .. Len(line'[s]), Of(Req(s, i), c)'
        PROVE  i \in 0 .. Len(line[s]) /\ Of(Req(s, i), c)
    <2>1. Req(s, i)'.from = c /\ (Req(s, i)'.live \/ Order(Req(s, i)'))
      BY <1>1 DEF Of, Order
    <2>2. /\ i \in 0 .. Len(line[s])
          /\ Req(s, i)'.from = Req(s, i).from
          /\ Req(s, i)'.what = Req(s, i).what
          /\ Req(s, i)'.live => Req(s, i).live
      BY <2>1 DEF Kept
    <2> QED
      BY <2>1, <2>2 DEF Of, Order
  <1>2. ASSUME NEW c \in Clients, NEW s \in Services, NEW t \in Services,
               NEW i \in 0 .. Len(line'[s]), NEW j \in 0 .. Len(line'[t]),
               Of(Req(s, i), c)', Of(Req(t, j), c)'
        PROVE  s = t /\ i = j
    <2>1. /\ i \in 0 .. Len(line[s]) /\ Of(Req(s, i), c)
          /\ j \in 0 .. Len(line[t]) /\ Of(Req(t, j), c)
      BY <1>1, <1>2
    <2> QED
      BY <2>1 DEF Single
  <1> QED
    BY <1>2 DEF Single

\* Nor does it disturb one whose client waits on.
LEMMA KeptHeeded ==
    ASSUME Heeded, Kept,
           \A s \in Services : \A i \in 0 .. Len(line'[s]) :
               LET c == Req(s, i).from IN
               Req(s, i)'.live => net'[c] = net[c] /\ pc'[c] = pc[c] /\ command'[c] = command[c]
    PROVE  Heeded'
  BY DEF Heeded, Kept

\* Nor an order, if client and service stay where they are.
LEMMA KeptOrdered ==
    ASSUME Ordered, Kept,
           \A s \in Services : \A i \in 0 .. Len(line'[s]) :
               LET c == Req(s, i).from IN
               Order(Req(s, i)') =>
                   /\ carried'[c] = carried[c]
                   /\ i = 0 => (at[s] = "reply" <=> at'[s] = "reply")
                   /\ pc'[c] = pc[c] /\ result'[c] = result[c] /\ command'[c] = command[c]
                   /\ net'[c] \in {"none", "reset"} => net[c] \in {"none", "reset"}
    PROVE  Ordered'
  BY DEF Ordered, Kept, Order

\* No request moves when line and connections served stay.
LEMMA SamePlaces ==
    ASSUME UNCHANGED <<line, served>>
    PROVE  Kept /\ \A s, i : Req(s, i)' = Req(s, i)
  BY DEF Kept, Req

\* The service runs on and nobody's request is touched.
LEMMA QuietTruth ==
    ASSUME Truth, UNCHANGED <<line, served, net, pc, command, result, carried>>,
           Spare', \A s \in Services : Order(served[s]) => (at[s] = "reply" <=> at'[s] = "reply")
    PROVE  Truth'
  <1>1. Kept /\ \A s, i : Req(s, i)' = Req(s, i)
    BY SamePlaces
  <1>2. Single'
    BY <1>1, KeptSingle DEF Truth
  <1>3. Heeded'
    BY <1>1, KeptHeeded DEF Truth
  <1>4. Ordered'
    <2>1. \A s : Req(s, 0) = served[s]
      BY DEF Req
    <2> QED
      BY <1>1, <2>1, KeptOrdered DEF Truth
  <1>5. Counted'
    BY DEF Truth, Counted, CountedFor
  <1> QED
    BY <1>2, <1>3, <1>4, <1>5 DEF Truth

\* Service steps between replies, and signals.
LEMMA ServiceQuiet ==
    ASSUME IInv, Truth, NEW s \in Services,
           \/ TakeLock(s) \/ Misconfigured(s) \/ Prepare(s) \/ NotPrepared(s) \/ Bind(s)
           \/ NoRequest(s) \/ Close(s) \/ Signal(s)
    PROVE  Truth'
  <1>1. UNCHANGED <<line, served, net, pc, command, result, carried>>
    BY DEF TakeLock, Misconfigured, Prepare, NotPrepared, Bind, NoRequest, Close, Signal, Quiet, clientVars
  <1>2. \A t \in Services : t # s => at'[t] = at[t]
    BY DEF IInv, TypeOK, TakeLock, Misconfigured, Prepare, NotPrepared, Bind, NoRequest, Close, Signal, Goes
  <1>3. ~Order(Nothing)
    BY DEF Order, Nothing
  <1>4. CASE NoRequest(s)
    <2>1. at[s] = "handle" /\ at'[s] = "reply" /\ ~Order(served[s])
      BY <1>4 DEF NoRequest, Goes, IInv, TypeOK, Order
    <2>2. Spare'
      BY <1>1, <1>2, <2>1 DEF Truth, Spare
    <2> QED
      BY <1>1, <1>2, <2>1, <2>2, QuietTruth
  <1>5. CASE Signal(s)
    <2>1. at' = at
      BY <1>5 DEF Signal
    <2>2. Spare'
      BY <1>1, <2>1 DEF Truth, Spare
    <2> QED
      BY <1>1, <2>1, <2>2, QuietTruth
  <1>6. CASE \/ TakeLock(s) \/ Misconfigured(s) \/ Prepare(s) \/ NotPrepared(s) \/ Bind(s) \/ Close(s)
    <2>1. at[s] \in {"lock", "load", "bind", "close"}
      BY <1>6 DEF TakeLock, Misconfigured, Prepare, NotPrepared, Bind, Close, Goes
    <2>2. served[s] = Nothing
      BY <2>1 DEF Truth, Spare
    <2>3. Spare'
      BY <1>1, <1>2, <2>2 DEF Truth, Spare
    <2> QED
      BY <1>1, <1>2, <1>3, <2>2, <2>3, QuietTruth
  <1> QED
    BY <1>4, <1>5, <1>6

\* Who is served waits in place 0, who waits to be served behind it.
LEMMA WhoWaits ==
    ASSUME TypeOK, NEW s \in Services
    PROVE  /\ Len(line[s]) \in Nat /\ 0 \in 0 .. Len(line[s])
           /\ \A c \in Serving(s) : Req(s, 0).live /\ Req(s, 0).from = c
           /\ \A c \in Waiting(s) : \E i \in 1 .. Len(line[s]) :
                  i \in 0 .. Len(line[s]) /\ i # 0 /\ Req(s, i).live /\ Req(s, i).from = c
  <1>1. Len(line[s]) \in Nat /\ 0 \in 0 .. Len(line[s])
    BY DEF TypeOK
  <1>2. \A c \in Serving(s) : Req(s, 0).live /\ Req(s, 0).from = c
    BY DEF Serving, Req
  <1>3. ASSUME NEW c \in Waiting(s)
        PROVE  \E i \in 1 .. Len(line[s]) :
                  i \in 0 .. Len(line[s]) /\ i # 0 /\ Req(s, i).live /\ Req(s, i).from = c
    <2>1. PICK i \in 1 .. Len(line[s]) : line[s][i].live /\ line[s][i].from = c
      BY <1>3 DEF Waiting
    <2>2. i \in 0 .. Len(line[s]) /\ i # 0
      BY <1>1
    <2> QED
      BY <2>1, <2>2 DEF Req
  <1> QED
    BY <1>1, <1>2, <1>3

\* Nothing is neither waited for nor carried out.
LEMMA NothingFacts == ~Nothing.live /\ ~Order(Nothing) /\ Nothing.what = "nothing"
  BY DEF Nothing, Order

\* A command that is carried out is carried out for the first time.
LEMMA HandleTruth == ASSUME IInv, Truth, NEW s \in Services, Handle(s) PROVE Truth'
  <1> DEFINE c == served[s].from
  <1>1. /\ UNCHANGED <<line, served, net, pc, command, result>>
        /\ at[s] = "handle" /\ at'[s] = "reply" /\ served[s].what # "nothing"
        /\ \A t \in Services : t # s => at'[t] = at[t]
    BY DEF Handle, Goes, clientVars, IInv, TypeOK
  <1>2. Spare'
    BY <1>1 DEF Truth, Spare
  <1>3. CASE served[s].what = "status"
    <2>1. carried' = carried /\ ~Order(served[s])
      BY <1>3 DEF Handle, Order
    <2> QED
      BY <1>1, <1>2, <2>1, QuietTruth
  <1>4. CASE served[s].what # "status"
    <2>1. TypeOK /\ Order(served[s]) /\ Req(s, 0) = served[s] /\ 0 \in 0 .. Len(line[s])
      BY <1>1, <1>4, WhoWaits DEF Order, Req, IInv
    <2>2. /\ c \in Clients /\ carried[c] = 0
          /\ \/ pc[c] = "send" /\ net[c] \notin {"none", "reset"} /\ command[c] # "status"
             \/ pc[c] = "ended" /\ result[c] # "gave_up"
      BY <1>1, <2>1 DEF Truth, Ordered
    <2>3. carried' = [carried EXCEPT ![c] = carried[c] + 1] /\ carried \in [Clients -> Nat]
      BY <1>4, <2>1 DEF Handle, TypeOK
    <2>4. carried'[c] = 1 /\ \A d \in Clients : d # c => carried'[d] = carried[d]
      BY <2>2, <2>3
    <2>5. Kept /\ \A t, i : Req(t, i)' = Req(t, i)
      BY <1>1, SamePlaces
    <2>6. Single' /\ Heeded'
      BY <1>1, <2>5, KeptSingle, KeptHeeded DEF Truth
    <2>7. ASSUME NEW t \in Services, NEW i \in 0 .. Len(line[t]), Order(Req(t, i)), ~(t = s /\ i = 0)
          PROVE  Req(t, i).from \in Clients /\ Req(t, i).from # c
      <3>1. Req(t, i).from \in Clients
        BY <2>7 DEF Truth, Ordered
      <3>2. Of(Req(s, 0), c)
        BY <2>1 DEF Of
      <3>3. CASE Req(t, i).from = c
        <4>1. Of(Req(t, i), c)
          BY <2>7, <3>3 DEF Of
        <4> QED
          BY <2>1, <2>2, <2>7, <3>2, <4>1 DEF Truth, Single
      <3> QED
        BY <3>1, <3>3
    <2>8. Ordered'
      <3> SUFFICES ASSUME NEW t \in Services, NEW i \in 0 .. Len(line[t]), Order(Req(t, i))
                   PROVE  LET d == Req(t, i).from IN
                          /\ d \in Clients
                          /\ carried'[d] = IF i = 0 /\ at'[t] = "reply" THEN 1 ELSE 0
                          /\ \/ pc[d] = "send" /\ net[d] \notin {"none", "reset"} /\ command[d] # "status"
                             \/ pc[d] = "ended" /\ result[d] # "gave_up"
        BY <1>1, <2>5 DEF Ordered, Order
      <3>1. CASE t = s /\ i = 0
        BY <1>1, <2>1, <2>2, <2>4, <3>1
      <3>2. CASE ~(t = s /\ i = 0)
        <4>1. Req(t, i).from \in Clients /\ Req(t, i).from # c
          BY <2>7, <3>2
        <4>2. i = 0 => at'[t] = at[t]
          BY <1>1, <3>2
        <4> QED
          BY <2>4, <4>1, <4>2 DEF Truth, Ordered
      <3> QED
        BY <3>1, <3>2
    <2>9. Counted'
      <3>1. ASSUME NEW d \in Clients PROVE CountedFor(d)'
        <4>1. CountedFor(d)
          BY DEF Truth, Counted
        <4>2. CASE d = c
          BY <1>1, <2>2, <2>4, <4>1, <4>2 DEF CountedFor
        <4>3. CASE d # c
          BY <1>1, <2>4, <4>1, <4>3 DEF CountedFor
        <4> QED
          BY <4>2, <4>3
      <3> QED
        BY <3>1 DEF Counted
    <2> QED
      BY <1>2, <2>6, <2>8, <2>9 DEF Truth
  <1> QED
    BY <1>3, <1>4

\* Who is answered was served.
LEMMA ReplyTruth == ASSUME IInv, Truth, NEW s \in Services, Reply(s) PROVE Truth'
  <1>1. /\ UNCHANGED <<line, pc, command, result, carried>>
        /\ at[s] = "reply" /\ at'[s] \in {"leave", "accept"}
        /\ \A t \in Services : t # s => at'[t] = at[t]
        /\ served'[s] = Nothing
        /\ \A t \in Services : t # s => served'[t] = served[t]
    BY DEF Reply, Goes, clientVars, IInv, TypeOK, LoopsTo
  <1>2. /\ \A c \in Serving(s) \cap Clients : net'[c] = "answered"
        /\ \A c \in Clients \ Serving(s) : net'[c] = net[c]
    BY DEF Reply, Lost
  <1>3. Spare'
    BY <1>1 DEF Truth, Spare
  <1>4. /\ Req(s, 0)' = Nothing
        /\ \A t \in Services : \A i \in 0 .. Len(line[t]) : ~(t = s /\ i = 0) => Req(t, i)' = Req(t, i)
    BY <1>1 DEF Req
  <1>5. ASSUME NEW t \in Services, NEW i \in 0 .. Len(line[t]), Req(t, i)'.live \/ Order(Req(t, i)')
        PROVE  ~(t = s /\ i = 0) /\ Req(t, i)' = Req(t, i)
    BY <1>4, <1>5, NothingFacts
  <1>6. Kept
    BY <1>1, <1>5 DEF Kept
  <1>7. TypeOK /\ 0 \in 0 .. Len(line[s]) /\ \A c \in Serving(s) : Req(s, 0).live /\ Req(s, 0).from = c
    BY WhoWaits DEF IInv
  <1>8. ASSUME NEW t \in Services, NEW i \in 0 .. Len(line[t]), Req(t, i)'.live
        PROVE  Req(t, i).from \in Clients \ Serving(s)
    <2>1. ~(t = s /\ i = 0) /\ Req(t, i)' = Req(t, i)
      BY <1>5, <1>8
    <2>2. Req(t, i).from \in Clients
      BY <1>8, <2>1 DEF Truth, Heeded
    <2>3. CASE Req(t, i).from \in Serving(s)
      <3>1. Of(Req(t, i), Req(t, i).from) /\ Of(Req(s, 0), Req(t, i).from)
        BY <1>7, <1>8, <2>1, <2>3 DEF Of
      <3> QED
        BY <1>7, <2>1, <2>2, <3>1 DEF Truth, Single
    <2> QED
      BY <2>2, <2>3
  <1>9. Heeded'
    <2>1. \A t \in Services : \A i \in 0 .. Len(line'[t]) :
              LET c == Req(t, i).from IN
              Req(t, i)'.live => net'[c] = net[c] /\ pc'[c] = pc[c] /\ command'[c] = command[c]
      BY <1>1, <1>2, <1>8
    <2> QED
      BY <1>6, <2>1, KeptHeeded DEF Truth
  <1>10. Ordered'
    <2>1. ASSUME NEW t \in Services, NEW i \in 0 .. Len(line'[t]), Order(Req(t, i)')
          PROVE  LET c == Req(t, i).from IN
                   /\ carried'[c] = carried[c]
                   /\ i = 0 => (at[t] = "reply" <=> at'[t] = "reply")
                   /\ pc'[c] = pc[c] /\ result'[c] = result[c] /\ command'[c] = command[c]
                   /\ net'[c] \in {"none", "reset"} => net[c] \in {"none", "reset"}
      <3>1. i \in 0 .. Len(line[t]) /\ ~(t = s /\ i = 0) /\ Req(t, i)' = Req(t, i)
        BY <1>1, <1>5, <2>1
      <3>2. Req(t, i).from \in Clients
        BY <2>1, <3>1 DEF Truth, Ordered
      <3> QED
        BY <1>1, <1>2, <3>1, <3>2
    <2> QED
      BY <1>6, <2>1, KeptOrdered DEF Truth
  <1>11. Counted'
    <2>1. ASSUME NEW c \in Clients PROVE CountedFor(c)'
      <3>1. CountedFor(c)
        BY DEF Truth, Counted
      <3>2. CASE c \in Serving(s)
        <4>1. pc[c] = "send" => Req(s, 0).what = command[c]
          BY <1>7, <3>2 DEF Truth, Heeded
        <4>2. pc[c] = "send" => command[c] # "nothing"
          BY DEF IInv, Known, Words
        <4>3. pc[c] = "send" /\ command[c] # "status" => Order(Req(s, 0))
          BY <4>1, <4>2 DEF Order
        <4>4. pc[c] = "send" /\ command[c] # "status" => carried[c] = 1
          BY <1>1, <1>7, <3>2, <4>3 DEF Truth, Ordered
        <4>5. net'[c] = "answered"
          BY <1>2, <3>2
        <4>6. pc[c] \in Asking
          BY <1>7, <3>2 DEF Truth, Heeded
        <4> QED
          BY <1>1, <3>1, <4>4, <4>5, <4>6 DEF CountedFor
      <3>3. CASE c \notin Serving(s)
        <4>1. net'[c] = net[c]
          BY <1>2, <3>3
        <4> QED
          BY <1>1, <3>1, <4>1 DEF CountedFor
      <3> QED
        BY <3>2, <3>3
    <2> QED
      BY <2>1 DEF Counted
  <1> QED
    BY <1>3, <1>6, <1>9, <1>10, <1>11, KeptSingle DEF Truth

\* A connection moves from the head of the line to where it is served.
LEMMA AcceptTruth == ASSUME IInv, Truth, NEW s \in Services, Accept(s) PROVE Truth'
  <1>1. /\ UNCHANGED <<net, pc, command, result, carried>>
        /\ at[s] = "accept" /\ at'[s] = "handle" /\ line[s] # << >>
        /\ \A t \in Services : t # s => at'[t] = at[t]
        /\ served'[s] = Head(line[s])
        /\ line'[s] = Tail(line[s])
        /\ \A t \in Services : t # s => served'[t] = served[t] /\ line'[t] = line[t]
    BY DEF Accept, Goes, clientVars, IInv, TypeOK
  <1>2. Spare'
    BY <1>1 DEF Truth, Spare
  <1>3. \A t \in Services : line[t] \in Seq(Requests) /\ Len(line[t]) \in Nat
    BY DEF IInv, TypeOK
  <1>4. /\ Len(line[s]) \in Nat \ {0} /\ Len(Tail(line[s])) = Len(line[s]) - 1
        /\ Head(line[s]) = line[s][1]
        /\ \A i \in 1 .. Len(line[s]) - 1 : Tail(line[s])[i] = line[s][i + 1]
    BY <1>1, <1>3
  <1>5. ASSUME NEW i \in 0 .. Len(line'[s])
        PROVE  /\ i + 1 \in 0 .. Len(line[s]) /\ i + 1 # 0 /\ i \in Int
               /\ Req(s, i)' = Req(s, i + 1)
    <2>1. i \in 0 .. Len(line[s]) - 1
      BY <1>1, <1>4
    <2>2. i + 1 \in 0 .. Len(line[s]) /\ i + 1 # 0 /\ i \in Int
      BY <1>4, <2>1
    <2>3. CASE i = 0
      BY <1>1, <1>4, <2>3 DEF Req
    <2>4. CASE i # 0
      <3>1. i \in 1 .. Len(line[s]) - 1
        BY <1>4, <2>1, <2>4
      <3> QED
        BY <1>1, <1>4, <2>2, <2>4, <3>1 DEF Req
    <2> QED
      BY <2>2, <2>3, <2>4
  <1>6. ASSUME NEW t \in Services, t # s
        PROVE  Len(line'[t]) = Len(line[t]) /\ \A i \in 0 .. Len(line[t]) : Req(t, i)' = Req(t, i)
    BY <1>1, <1>6 DEF Req
  <1> DEFINE old(t, i) == IF t = s THEN i + 1 ELSE i
  <1>7. ASSUME NEW t \in Services, NEW i \in 0 .. Len(line'[t])
        PROVE  old(t, i) \in 0 .. Len(line[t]) /\ Req(t, i)' = Req(t, old(t, i))
    BY <1>5, <1>6
  <1>8. ASSUME NEW t \in Services, NEW i \in 0 .. Len(line'[t]), NEW j \in 0 .. Len(line'[t]),
               old(t, i) = old(t, j)
        PROVE  i = j
    <2>1. CASE t = s
      BY <1>5, <1>8, <2>1
    <2> QED
      BY <1>8, <2>1
  <1>9. ASSUME NEW t \in Services, NEW i \in 0 .. Len(line'[t])
        PROVE  (old(t, i) = 0 /\ at[t] = "reply") <=> (i = 0 /\ at'[t] = "reply")
    <2>1. CASE t = s
      BY <1>1, <1>5, <2>1
    <2> QED
      BY <1>1, <2>1
  <1> HIDE DEF old
  <1>10. Single'
    <2>1. ASSUME NEW c \in Clients, NEW t \in Services, NEW u \in Services,
                 NEW i \in 0 .. Len(line'[t]), NEW j \in 0 .. Len(line'[u]),
                 Of(Req(t, i), c)', Of(Req(u, j), c)'
          PROVE  t = u /\ i = j
      <3>1. Of(Req(t, old(t, i)), c) /\ Of(Req(u, old(u, j)), c)
        BY <1>7, <2>1 DEF Of, Order
      <3>2. old(t, i) \in 0 .. Len(line[t]) /\ old(u, j) \in 0 .. Len(line[u])
        BY <1>7
      <3>3. t = u /\ old(t, i) = old(u, j)
        BY <3>1, <3>2 DEF Truth, Single
      <3> QED
        BY <1>8, <3>3
    <2> QED
      BY <2>1 DEF Single
  <1>11. Heeded'
    <2>1. ASSUME NEW t \in Services, NEW i \in 0 .. Len(line'[t]), Req(t, i)'.live
          PROVE  LET r == Req(t, i)' IN
                   /\ r.from \in Clients /\ net[r.from] = "pending" /\ pc[r.from] \in Asking
                   /\ r.what = IF pc[r.from] = "send" THEN command[r.from] ELSE "status"
      BY <1>7, <2>1 DEF Truth, Heeded
    <2> QED
      BY <1>1, <2>1 DEF Heeded
  <1>12. Ordered'
    <2>1. ASSUME NEW t \in Services, NEW i \in 0 .. Len(line'[t]), Order(Req(t, i)')
          PROVE  LET r == Req(t, i)' IN
                   /\ r.from \in Clients
                   /\ carried[r.from] = IF i = 0 /\ at'[t] = "reply" THEN 1 ELSE 0
                   /\ \/ pc[r.from] = "send" /\ net[r.from] \notin {"none", "reset"} /\ command[r.from] # "status"
                      \/ pc[r.from] = "ended" /\ result[r.from] # "gave_up"
      BY <1>7, <1>9, <2>1 DEF Truth, Ordered
    <2> QED
      BY <1>1, <2>1 DEF Ordered, Order
  <1>13. Counted'
    BY <1>1 DEF Truth, Counted, CountedFor
  <1> QED
    BY <1>2, <1>10, <1>11, <1>12, <1>13 DEF Truth

\* Who waits on a service that goes away is told so, and his command was not
\* carried out, nor is it later, if it was not read.
LEMMA GoneTruth ==
    ASSUME IInv, Truth, NEW s \in Services, Spare',
           UNCHANGED <<pc, command, result, carried>>,
           at'[s] # "reply", \A t \in Services : t # s => at'[t] = at[t],
           line'[s] = << >>, \A t \in Services : t # s => line'[t] = line[t],
           served'[s] = Nothing, \A t \in Services : t # s => served'[t] = served[t],
           \A c \in Clients :
               \/ net'[c] = net[c] /\ c \notin Waiting(s) /\ c \notin Serving(s)
               \/ net'[c] = "reset" /\ (c \in Waiting(s) \/ (c \in Serving(s) /\ at[s] # "reply"))
               \/ net'[c] = "eof" /\ c \in Serving(s)
    PROVE  Truth'
  <1>1. /\ TypeOK /\ Len(line[s]) \in Nat /\ 0 \in 0 .. Len(line[s])
        /\ \A c \in Serving(s) : Req(s, 0).live /\ Req(s, 0).from = c
        /\ \A c \in Waiting(s) : \E i \in 1 .. Len(line[s]) :
               i \in 0 .. Len(line[s]) /\ i # 0 /\ Req(s, i).live /\ Req(s, i).from = c
    BY WhoWaits DEF IInv
  <1>2. Len(line'[s]) = 0 /\ Req(s, 0)' = Nothing
    BY DEF Req
  <1>3. ASSUME NEW t \in Services, NEW i \in 0 .. Len(line'[t]), Req(t, i)'.live \/ Order(Req(t, i)')
        PROVE  t # s /\ i \in 0 .. Len(line[t]) /\ Req(t, i)' = Req(t, i)
    <2>1. CASE t = s
      <3>1. i = 0
        BY <1>2, <2>1
      <3> QED
        BY <1>2, <1>3, <2>1, <3>1, NothingFacts
    <2>2. CASE t # s
      BY <2>2 DEF Req
    <2> QED
      BY <2>1, <2>2
  <1>4. Kept
    BY <1>3 DEF Kept
  <1>5. ASSUME NEW c \in Clients, c \in Waiting(s) \cup Serving(s)
        PROVE  \E i \in 0 .. Len(line[s]) : Req(s, i).live /\ Req(s, i).from = c
    BY <1>1, <1>5
  <1>6. ASSUME NEW t \in Services, NEW i \in 0 .. Len(line'[t]), Req(t, i)'.live \/ Order(Req(t, i)'),
               Req(t, i).from \in Clients
        PROVE  net'[Req(t, i).from] = net[Req(t, i).from]
    <2> DEFINE c == Req(t, i).from
    <2>1. t # s /\ i \in 0 .. Len(line[t]) /\ Of(Req(t, i), c)
      BY <1>3, <1>6 DEF Of
    <2>2. CASE c \in Waiting(s) \cup Serving(s)
      <3>1. PICK j \in 0 .. Len(line[s]) : Of(Req(s, j), c)
        BY <1>5, <1>6, <2>2 DEF Of
      <3> QED
        BY <1>6, <2>1, <3>1 DEF Truth, Single
    <2> QED
      BY <1>6, <2>2
  <1>7. Heeded'
    <2>1. ASSUME NEW t \in Services, NEW i \in 0 .. Len(line'[t]), Req(t, i)'.live
          PROVE  LET c == Req(t, i).from IN net'[c] = net[c] /\ pc'[c] = pc[c] /\ command'[c] = command[c]
      <3>1. Req(t, i).from \in Clients
        BY <1>3, <2>1 DEF Truth, Heeded
      <3> QED
        BY <1>6, <2>1, <3>1
    <2> QED
      BY <1>4, <2>1, KeptHeeded DEF Truth
  <1>8. Ordered'
    <2>1. ASSUME NEW t \in Services, NEW i \in 0 .. Len(line'[t]), Order(Req(t, i)')
          PROVE  LET c == Req(t, i).from IN
                   /\ carried'[c] = carried[c]
                   /\ i = 0 => (at[t] = "reply" <=> at'[t] = "reply")
                   /\ pc'[c] = pc[c] /\ result'[c] = result[c] /\ command'[c] = command[c]
                   /\ net'[c] \in {"none", "reset"} => net[c] \in {"none", "reset"}
      <3>1. t # s /\ i \in 0 .. Len(line[t]) /\ Req(t, i)' = Req(t, i)
        BY <1>3, <2>1
      <3>2. Req(t, i).from \in Clients
        BY <2>1, <3>1 DEF Truth, Ordered
      <3>3. net'[Req(t, i).from] = net[Req(t, i).from]
        BY <1>6, <2>1, <3>2
      <3> QED
        BY <3>1, <3>2, <3>3
    <2> QED
      BY <1>4, <2>1, KeptOrdered DEF Truth
  <1>9. Counted'
    <2>1. ASSUME NEW c \in Clients PROVE CountedFor(c)'
      <3>1. CountedFor(c)
        BY DEF Truth, Counted
      <3>2. CASE net'[c] = net[c]
        BY <3>1, <3>2 DEF CountedFor
      <3>3. CASE net'[c] = "eof" /\ c \in Serving(s)
        <4>1. pc[c] \in Asking
          BY <1>1, <3>3 DEF Truth, Heeded
        <4> QED
          BY <3>1, <3>3, <4>1 DEF CountedFor
      <3>4. CASE net'[c] = "reset" /\ (c \in Waiting(s) \/ (c \in Serving(s) /\ at[s] # "reply"))
        <4>1. PICK i \in 0 .. Len(line[s]) :
                  Req(s, i).live /\ Req(s, i).from = c /\ ~(i = 0 /\ at[s] = "reply")
          BY <1>1, <3>4
        <4>2. pc[c] = "send" => Req(s, i).what = command[c]
          BY <4>1 DEF Truth, Heeded
        <4>3. pc[c] = "send" => command[c] # "nothing"
          BY DEF IInv, Known, Words
        <4>4. pc[c] = "send" /\ command[c] # "status" => Order(Req(s, i))
          BY <4>2, <4>3 DEF Order
        <4>5. pc[c] = "send" /\ command[c] # "status" => carried[c] = 0
          BY <4>1, <4>4 DEF Truth, Ordered
        <4>6. pc[c] \in Asking
          BY <4>1 DEF Truth, Heeded
        <4> QED
          BY <3>1, <3>4, <4>5, <4>6 DEF CountedFor
      <3> QED
        BY <3>2, <3>3, <3>4
    <2> QED
      BY <2>1 DEF Counted
  <1> QED
    BY <1>4, <1>7, <1>8, <1>9, KeptSingle DEF Truth

\* A service leaves its loop.
LEMMA LeaveLoopTruth == ASSUME IInv, Truth, NEW s \in Services, LeaveLoop(s) PROVE Truth'
  <1>1. /\ UNCHANGED <<served, pc, command, result, carried>>
        /\ at[s] \in {"leave", "accept"} /\ at'[s] = "close"
        /\ \A t \in Services : t # s => at'[t] = at[t] /\ line'[t] = line[t]
        /\ line'[s] = << >>
    BY DEF LeaveLoop, Goes, clientVars, IInv, TypeOK
  <1>2. served[s] = Nothing
    BY <1>1 DEF Truth, Spare
  <1>3. Spare'
    BY <1>1, <1>2 DEF Truth, Spare
  <1>4. Serving(s) = {}
    BY <1>2, NothingFacts DEF Serving
  <1>5. \A c \in Clients : IF c \in Waiting(s) THEN net'[c] = "reset" ELSE net'[c] = net[c]
    BY DEF LeaveLoop, Lost
  <1> QED
    BY <1>1, <1>2, <1>3, <1>4, <1>5, GoneTruth

\* A service is killed.
LEMMA CrashTruth == ASSUME IInv, Truth, NEW s \in Services, Crash(s) PROVE Truth'
  <1>1. /\ UNCHANGED <<pc, command, result, carried>>
        /\ at'[s] = "killed" /\ line'[s] = << >> /\ served'[s] = Nothing
        /\ \A t \in Services : t # s => at'[t] = at[t] /\ line'[t] = line[t] /\ served'[t] = served[t]
    BY DEF Crash, clientVars, IInv, TypeOK
  <1>2. Spare'
    BY <1>1 DEF Truth, Spare
  <1>3. PICK unread \in BOOLEAN :
          /\ unread => at[s] = "handle"
          /\ net' = [c \in Clients |-> IF c \in Waiting(s) \/ (unread /\ c \in Serving(s)) THEN "reset"
                                      ELSE IF c \in Serving(s) THEN "eof" ELSE net[c]]
    BY DEF Crash
  <1>4. \A c \in Clients :
            \/ net'[c] = net[c] /\ c \notin Waiting(s) /\ c \notin Serving(s)
            \/ net'[c] = "reset" /\ (c \in Waiting(s) \/ (c \in Serving(s) /\ at[s] # "reply"))
            \/ net'[c] = "eof" /\ c \in Serving(s)
    BY <1>3
  <1> QED
    BY <1>1, <1>2, <1>4, GoneTruth

\* A connection more is behind the others.
LEMMA JoinsPlaces ==
    ASSUME TypeOK, Connectable, NEW r \in Requests, Joins(r), served' = served
    PROVE  /\ file \in Services /\ Len(line[file]) + 1 # 0
           /\ \A t \in Services : \A i \in 0 .. Len(line'[t]) :
                  \/ t = file /\ i = Len(line[file]) + 1 /\ Req(t, i)' = r
                  \/ i \in 0 .. Len(line[t]) /\ Req(t, i)' = Req(t, i)
  <1>1. file \in Services /\ line \in [Services -> Seq(Requests)]
    BY DEF TypeOK, Connectable
  <1>2. line[file] \in Seq(Requests) /\ Len(line[file]) \in Nat
    BY <1>1
  <1>3. /\ Append(line[file], r) \in Seq(Requests)
        /\ Len(Append(line[file], r)) = Len(line[file]) + 1
        /\ \A i \in 1 .. Len(line[file]) : Append(line[file], r)[i] = line[file][i]
        /\ Append(line[file], r)[Len(line[file]) + 1] = r
    BY <1>2
  <1>4. line'[file] = Append(line[file], r) /\ \A t \in Services : t # file => line'[t] = line[t]
    BY <1>1 DEF Joins
  <1>5. ASSUME NEW t \in Services, NEW i \in 0 .. Len(line'[t])
        PROVE  \/ t = file /\ i = Len(line[file]) + 1 /\ Req(t, i)' = r
               \/ i \in 0 .. Len(line[t]) /\ Req(t, i)' = Req(t, i)
    <2>1. CASE t # file
      BY <1>4, <2>1 DEF Req
    <2>2. CASE t = file
      <3>1. i = 0 \/ i \in 1 .. Len(line[file]) \/ i = Len(line[file]) + 1
        BY <1>2, <1>3, <1>4, <2>2
      <3>2. CASE i = 0
        BY <1>2, <2>2, <3>2 DEF Req
      <3>3. CASE i \in 1 .. Len(line[file])
        <4>1. i # 0 /\ i \in 0 .. Len(line[file])
          BY <1>2, <3>3
        <4> QED
          BY <1>3, <1>4, <2>2, <3>3, <4>1 DEF Req
      <3>4. CASE i = Len(line[file]) + 1
        <4>1. i # 0
          BY <1>2, <3>4
        <4> QED
          BY <1>3, <1>4, <2>2, <3>4, <4>1 DEF Req
      <3> QED
        BY <3>1, <3>2, <3>3, <3>4
    <2> QED
      BY <2>1, <2>2
  <1> QED
    BY <1>1, <1>2, <1>5

\* A peer that says nothing is no request.
LEMMA StallTruth == ASSUME IInv, Truth, Stall PROVE Truth'
  <1>1. UNCHANGED <<at, served, net, pc, command, result, carried>>
    BY DEF Stall, serviceVars, clientVars
  <1>2. TypeOK /\ Connectable /\ Joins(Nothing) /\ Nothing \in Requests
    BY DEF IInv, Stall, Nothing, Requests
  <1>3. ASSUME NEW t \in Services, NEW i \in 0 .. Len(line'[t]), Req(t, i)'.live \/ Order(Req(t, i)')
        PROVE  i \in 0 .. Len(line[t]) /\ Req(t, i)' = Req(t, i)
    BY <1>1, <1>2, <1>3, JoinsPlaces, NothingFacts
  <1>4. Kept
    BY <1>3 DEF Kept
  <1>5. Heeded' /\ Ordered'
    BY <1>1, <1>4, KeptHeeded, KeptOrdered DEF Truth
  <1>6. Spare' /\ Counted'
    BY <1>1 DEF Truth, Spare, Counted, CountedFor
  <1> QED
    BY <1>4, <1>5, <1>6, KeptSingle DEF Truth

\* Who has no connection has no request anywhere.
LEMMA NoneOpen ==
    ASSUME Truth, NEW c \in Clients, pc[c] # "ended", net[c] = "none",
           NEW t \in Services, NEW i \in 0 .. Len(line[t])
    PROVE  ~Of(Req(t, i), c)
  BY DEF Truth, Heeded, Ordered, Of

\* A client asks once at a time.
LEMMA ConnectTruth == ASSUME IInv, Truth, NEW c \in Clients, Connect(c) PROVE Truth'
  <1> DEFINE r == Request(c)
  <1>1. /\ UNCHANGED <<at, served, pc, command, result, carried>>
        /\ pc[c] \in Asking /\ pc[c] # "ended" /\ net[c] = "none" /\ net'[c] = "pending"
        /\ \A d \in Clients : d # c => net'[d] = net[d]
    BY DEF Connect, serviceVars, clientVars, IInv, TypeOK, Asking
  <1>2. /\ r.from = c /\ r.live
        /\ r.what = IF pc[c] = "send" THEN command[c] ELSE "status"
    BY DEF Request
  <1>3. r \in Requests
    BY <1>1, <1>2 DEF Request, Requests, IInv, Known, Words
  <1>4. TypeOK /\ Connectable /\ Joins(r)
    BY DEF IInv, Connect
  <1> HIDE DEF r
  <1>5. ASSUME NEW t \in Services, NEW i \in 0 .. Len(line'[t])
        PROVE  \/ t = file /\ i = Len(line[file]) + 1 /\ i # 0 /\ Req(t, i)' = r
               \/ i \in 0 .. Len(line[t]) /\ Req(t, i)' = Req(t, i)
    BY <1>1, <1>3, <1>4, JoinsPlaces
  <1>6. ASSUME NEW t \in Services, NEW i \in 0 .. Len(line[t]) PROVE ~Of(Req(t, i), c)
    BY <1>1, NoneOpen
  <1>7. Single'
    <2>1. ASSUME NEW d \in Clients, NEW t \in Services, NEW u \in Services,
                 NEW i \in 0 .. Len(line'[t]), NEW j \in 0 .. Len(line'[u]),
                 Of(Req(t, i), d)', Of(Req(u, j), d)'
          PROVE  t = u /\ i = j
      <3>1. CASE d = c
        <4>1. Req(t, i)' # Req(t, i) \/ i \notin 0 .. Len(line[t])
          BY <1>6, <2>1, <3>1 DEF Of, Order
        <4>2. Req(u, j)' # Req(u, j) \/ j \notin 0 .. Len(line[u])
          BY <1>6, <2>1, <3>1 DEF Of, Order
        <4> QED
          BY <1>5, <4>1, <4>2
      <3>2. CASE d # c
        <4>1. Req(t, i)' # r /\ Req(u, j)' # r
          BY <1>2, <2>1, <3>2 DEF Of
        <4>2. /\ i \in 0 .. Len(line[t]) /\ Of(Req(t, i), d)
              /\ j \in 0 .. Len(line[u]) /\ Of(Req(u, j), d)
          BY <1>5, <2>1, <4>1 DEF Of, Order
        <4> QED
          BY <4>2 DEF Truth, Single
      <3> QED
        BY <3>1, <3>2
    <2> QED
      BY <2>1 DEF Single
  <1>8. Heeded'
    <2>1. ASSUME NEW t \in Services, NEW i \in 0 .. Len(line'[t]), Req(t, i)'.live
          PROVE  LET q == Req(t, i)' IN
                   /\ q.from \in Clients /\ net'[q.from] = "pending" /\ pc[q.from] \in Asking
                   /\ q.what = IF pc[q.from] = "send" THEN command[q.from] ELSE "status"
      <3>1. CASE Req(t, i)' = r
        BY <1>1, <1>2, <3>1
      <3>2. CASE i \in 0 .. Len(line[t]) /\ Req(t, i)' = Req(t, i)
        BY <1>1, <2>1, <3>2 DEF Truth, Heeded
      <3> QED
        BY <1>5, <3>1, <3>2
    <2> QED
      BY <1>1, <2>1 DEF Heeded
  <1>9. Ordered'
    <2>1. ASSUME NEW t \in Services, NEW i \in 0 .. Len(line'[t]), Order(Req(t, i)')
          PROVE  LET q == Req(t, i)' IN
                   /\ q.from \in Clients
                   /\ carried[q.from] = IF i = 0 /\ at[t] = "reply" THEN 1 ELSE 0
                   /\ \/ pc[q.from] = "send" /\ net'[q.from] \notin {"none", "reset"} /\ command[q.from] # "status"
                      \/ pc[q.from] = "ended" /\ result[q.from] # "gave_up"
      <3>1. CASE Req(t, i)' = r /\ i # 0
        <4>1. pc[c] = "send" /\ command[c] # "status"
          BY <1>2, <2>1, <3>1 DEF Order
        <4>2. carried[c] = 0
          BY <1>1, <4>1 DEF Truth, Counted, CountedFor
        <4> QED
          BY <1>1, <1>2, <3>1, <4>1, <4>2
      <3>2. CASE i \in 0 .. Len(line[t]) /\ Req(t, i)' = Req(t, i)
        <4>1. Req(t, i).from # c
          BY <1>6, <2>1, <3>2 DEF Of
        <4>2. Req(t, i).from \in Clients
          BY <2>1, <3>2 DEF Truth, Ordered
        <4>3. net'[Req(t, i).from] = net[Req(t, i).from]
          BY <1>1, <4>1, <4>2
        <4> QED
          BY <2>1, <3>2, <4>3 DEF Truth, Ordered
      <3> QED
        BY <1>5, <3>1, <3>2
    <2> QED
      BY <1>1, <2>1 DEF Ordered, Order
  <1>10. Counted'
    <2>1. ASSUME NEW d \in Clients PROVE CountedFor(d)'
      <3>1. CountedFor(d)
        BY DEF Truth, Counted
      <3>2. CASE d = c
        BY <1>1, <3>1, <3>2 DEF CountedFor
      <3>3. CASE d # c
        BY <1>1, <3>1, <3>3 DEF CountedFor
      <3> QED
        BY <3>2, <3>3
    <2> QED
      BY <2>1 DEF Counted
  <1>11. Spare'
    BY <1>1 DEF Truth, Spare
  <1> QED
    BY <1>7, <1>8, <1>9, <1>10, <1>11 DEF Truth

\* An abandoned request stays in its place, and nobody waits for it.
LEMMA AbandonPlaces ==
    ASSUME TypeOK, NEW c \in Clients, Abandon(c)
    PROVE  /\ \A t \in Services : Len(line'[t]) = Len(line[t])
           /\ \A t \in Services : \A i \in 0 .. Len(line[t]) :
                  /\ Req(t, i)'.from = Req(t, i).from
                  /\ Req(t, i)'.what = Req(t, i).what
                  /\ Req(t, i)'.live <=> Req(t, i).live /\ Req(t, i).from # c
           /\ Kept
           /\ Spare /\ at' = at => Spare'
  <1> DEFINE A(q) == [q EXCEPT !.live = @ /\ q.from # c]
  <1>1. \A q \in Requests : /\ A(q) \in Requests /\ A(q).from = q.from /\ A(q).what = q.what
                            /\ A(q).live <=> q.live /\ q.from # c
    BY DEF Requests
  <1>2. A(Nothing) = Nothing
    <2>1. (Nothing.live /\ Nothing.from # c) = FALSE
      BY DEF Nothing
    <2>2. A(Nothing) = [Nothing EXCEPT !.live = FALSE]
      BY <2>1
    <2>3. [Nothing EXCEPT !.live = FALSE] = Nothing
      <3>1. \A q \in Requests : q.live = FALSE => [q EXCEPT !.live = FALSE] = q
        BY DEF Requests
      <3>2. Nothing \in Requests /\ Nothing.live = FALSE
        BY DEF Nothing, Requests
      <3> QED
        BY <3>1, <3>2
    <2> QED
      BY <2>2, <2>3
  <1>3. /\ served \in [Services -> Requests] /\ line \in [Services -> Seq(Requests)]
        /\ served' = [t \in Services |-> A(served[t])]
        /\ line' = [t \in Services |-> [i \in 1 .. Len(line[t]) |-> A(line[t][i])]]
    BY DEF TypeOK, Abandon
  <1> HIDE DEF A
  <1>4. ASSUME NEW t \in Services
        PROVE  /\ line[t] \in Seq(Requests) /\ Len(line[t]) \in Nat
               /\ line'[t] = [i \in 1 .. Len(line[t]) |-> A(line[t][i])]
               /\ Len(line'[t]) = Len(line[t])
    <2>1. line[t] \in Seq(Requests) /\ Len(line[t]) \in Nat
      BY <1>3
    <2>2. line'[t] = [i \in 1 .. Len(line[t]) |-> A(line[t][i])]
      BY <1>3
    <2> QED
      BY <2>1, <2>2
  <1>5. ASSUME NEW t \in Services, NEW i \in 0 .. Len(line[t])
        PROVE  /\ Req(t, i)'.from = Req(t, i).from
               /\ Req(t, i)'.what = Req(t, i).what
               /\ Req(t, i)'.live <=> Req(t, i).live /\ Req(t, i).from # c
    <2>1. CASE i = 0
      BY <1>1, <1>3, <2>1 DEF Req
    <2>2. CASE i # 0
      <3>1. i \in 1 .. Len(line[t])
        BY <1>4, <2>2
      <3>2. line[t][i] \in Requests /\ line'[t][i] = A(line[t][i])
        <4>1. line[t][i] \in Requests
          <5>1. line[t] \in Seq(Requests)
            BY <1>4
          <5> QED
            BY <3>1, <5>1
        <4>2. line'[t] = [j \in 1 .. Len(line[t]) |-> A(line[t][j])]
          BY <1>4
        <4> QED
          BY <3>1, <4>1, <4>2
      <3>3. Req(t, i) = line[t][i] /\ Req(t, i)' = line'[t][i]
        BY <2>2 DEF Req
      <3>4. Req(t, i) \in Requests /\ Req(t, i)' = A(Req(t, i))
        BY <3>2, <3>3
      <3> QED
        BY <1>1, <3>4
    <2> QED
      BY <2>1, <2>2
  <1>6. Kept
    BY <1>4, <1>5 DEF Kept
  <1>7. Spare /\ at' = at => Spare'
    <2>1. ASSUME NEW t \in Services, served[t] = Nothing PROVE served'[t] = Nothing
      BY <1>2, <1>3, <2>1
    <2> QED
      BY <2>1 DEF Spare
  <1> QED
    BY <1>4, <1>5, <1>6, <1>7

\* Who gives up waiting does not know what becomes of his command.
LEMMA TimeoutTruth == ASSUME IInv, Truth, NEW c \in Clients, Timeout(c) PROVE Truth'
  <1>1. /\ UNCHANGED <<at, pc, command, result, carried>>
        /\ net[c] = "pending" /\ net'[c] = "timeout" /\ Abandon(c)
        /\ \A d \in Clients : d # c => net'[d] = net[d]
    BY DEF Timeout, clientVars, IInv, TypeOK
  <1>2. /\ \A t \in Services : Len(line'[t]) = Len(line[t])
        /\ \A t \in Services : \A i \in 0 .. Len(line[t]) :
              /\ Req(t, i)'.from = Req(t, i).from
              /\ Req(t, i)'.what = Req(t, i).what
              /\ Req(t, i)'.live <=> Req(t, i).live /\ Req(t, i).from # c
        /\ Kept /\ Spare'
    BY <1>1, AbandonPlaces DEF IInv, Truth
  <1>3. Heeded'
    <2>1. ASSUME NEW t \in Services, NEW i \in 0 .. Len(line'[t]), Req(t, i)'.live
          PROVE  LET d == Req(t, i).from IN net'[d] = net[d] /\ pc'[d] = pc[d] /\ command'[d] = command[d]
      BY <1>1, <1>2, <2>1 DEF Truth, Heeded
    <2> QED
      BY <1>2, <2>1, KeptHeeded DEF Truth
  <1>4. Ordered'
    <2>1. ASSUME NEW t \in Services, NEW i \in 0 .. Len(line'[t]), Order(Req(t, i)')
          PROVE  LET d == Req(t, i).from IN
                   /\ carried'[d] = carried[d]
                   /\ i = 0 => (at[t] = "reply" <=> at'[t] = "reply")
                   /\ pc'[d] = pc[d] /\ result'[d] = result[d] /\ command'[d] = command[d]
                   /\ net'[d] \in {"none", "reset"} => net[d] \in {"none", "reset"}
      <3>1. Req(t, i).from \in Clients
        <4>1. i \in 0 .. Len(line[t]) /\ Order(Req(t, i))
          BY <1>2, <2>1 DEF Order
        <4> QED
          BY <4>1 DEF Truth, Ordered
      <3> QED
        BY <1>1, <3>1
    <2> QED
      BY <1>2, <2>1, KeptOrdered DEF Truth
  <1>5. Counted'
    <2>1. ASSUME NEW d \in Clients PROVE CountedFor(d)'
      <3>1. CountedFor(d)
        BY DEF Truth, Counted
      <3>2. CASE d = c
        BY <1>1, <3>1, <3>2 DEF CountedFor
      <3>3. CASE d # c
        BY <1>1, <3>1, <3>3 DEF CountedFor
      <3> QED
        BY <3>2, <3>3
    <2> QED
      BY <2>1 DEF Counted
  <1> QED
    BY <1>2, <1>3, <1>4, <1>5, KeptSingle DEF Truth

\* A client that has not sent its command goes on: it has no request anywhere.
LEMMA MoveTruth ==
    ASSUME Truth, NEW c \in Clients, pc[c] \notin {"send", "ended"}, net[c] # "pending",
           UNCHANGED <<line, served, result, carried>>, pc'[c] \in Asking, net'[c] = "none",
           Spare', \A s \in Services : Order(served[s]) => (at[s] = "reply" <=> at'[s] = "reply"),
           \A d \in Clients : d # c => pc'[d] = pc[d] /\ net'[d] = net[d] /\ command'[d] = command[d]
    PROVE  Truth'
  <1>1. Kept /\ \A s, i : Req(s, i)' = Req(s, i)
    BY SamePlaces
  <1>2. Heeded'
    <2>1. ASSUME NEW s \in Services, NEW i \in 0 .. Len(line'[s]), Req(s, i)'.live
          PROVE  LET d == Req(s, i).from IN net'[d] = net[d] /\ pc'[d] = pc[d] /\ command'[d] = command[d]
      <3>1. Req(s, i).from \in Clients /\ net[Req(s, i).from] = "pending"
        BY <1>1, <2>1 DEF Truth, Heeded
      <3> QED
        BY <3>1
    <2> QED
      BY <1>1, <2>1, KeptHeeded DEF Truth
  <1>3. Ordered'
    <2>1. ASSUME NEW s \in Services, NEW i \in 0 .. Len(line'[s]), Order(Req(s, i)')
          PROVE  LET d == Req(s, i).from IN
                   /\ carried'[d] = carried[d]
                   /\ i = 0 => (at[s] = "reply" <=> at'[s] = "reply")
                   /\ pc'[d] = pc[d] /\ result'[d] = result[d] /\ command'[d] = command[d]
                   /\ net'[d] \in {"none", "reset"} => net[d] \in {"none", "reset"}
      <3>1. Req(s, i).from \in Clients /\ pc[Req(s, i).from] \in {"send", "ended"}
        BY <1>1, <2>1 DEF Truth, Ordered
      <3>2. i = 0 => Req(s, i) = served[s]
        BY DEF Req
      <3> QED
        BY <1>1, <2>1, <3>1, <3>2
    <2> QED
      BY <1>1, <2>1, KeptOrdered DEF Truth
  <1>4. Counted'
    <2>1. ASSUME NEW d \in Clients PROVE CountedFor(d)'
      <3>1. CountedFor(d)
        BY DEF Truth, Counted
      <3>2. CASE d = c
        <4>1. carried[c] = 0 /\ result[c] = "none"
          BY <3>1, <3>2 DEF CountedFor
        <4>2. pc'[c] # "ended"
          BY DEF Asking
        <4> QED
          BY <3>2, <4>1, <4>2 DEF CountedFor
      <3>3. CASE d # c
        BY <3>1, <3>3 DEF CountedFor
      <3> QED
        BY <3>2, <3>3
    <2> QED
      BY <2>1 DEF Counted
  <1> QED
    BY <1>1, <1>2, <1>3, <1>4, KeptSingle DEF Truth

\* A client ends and says what it knows.
LEMMA EndTruth ==
    ASSUME Truth, NEW c \in Clients, pc[c] \in Asking,
           Kept, \A s \in Services : \A i \in 0 .. Len(line'[s]) : Req(s, i)'.live => Req(s, i).from # c,
           UNCHANGED <<at, carried>>, Spare', pc'[c] = "ended", net'[c] = "none",
           result'[c] = "gave_up" /\ pc[c] = "send" => net[c] \in {"none", "reset"},
           result'[c] = "answered" => pc[c] = "send" /\ net[c] = "answered" /\ command[c] # "status",
           \A d \in Clients : d # c => /\ pc'[d] = pc[d] /\ net'[d] = net[d]
                                       /\ command'[d] = command[d] /\ result'[d] = result[d]
    PROVE  Truth'
  <1>1. Heeded'
    <2>1. ASSUME NEW s \in Services, NEW i \in 0 .. Len(line'[s]), Req(s, i)'.live
          PROVE  LET d == Req(s, i).from IN net'[d] = net[d] /\ pc'[d] = pc[d] /\ command'[d] = command[d]
      <3>1. i \in 0 .. Len(line[s]) /\ Req(s, i).live
        BY <2>1 DEF Kept
      <3>2. Req(s, i).from \in Clients /\ Req(s, i).from # c
        BY <2>1, <3>1 DEF Truth, Heeded
      <3> QED
        BY <3>2
    <2> QED
      BY <2>1, KeptHeeded DEF Truth
  <1>2. Ordered'
    <2>1. ASSUME NEW s \in Services, NEW i \in 0 .. Len(line'[s]), Order(Req(s, i)')
          PROVE  LET d == Req(s, i)'.from IN
                   /\ d \in Clients
                   /\ carried'[d] = IF i = 0 /\ at'[s] = "reply" THEN 1 ELSE 0
                   /\ \/ pc'[d] = "send" /\ net'[d] \notin {"none", "reset"} /\ command'[d] # "status"
                      \/ pc'[d] = "ended" /\ result'[d] # "gave_up"
      <3>1. /\ i \in 0 .. Len(line[s]) /\ Order(Req(s, i))
            /\ Req(s, i)'.from = Req(s, i).from
        BY <2>1 DEF Kept, Order
      <3> DEFINE d == Req(s, i).from
      <3>2. /\ d \in Clients
            /\ carried[d] = IF i = 0 /\ at[s] = "reply" THEN 1 ELSE 0
            /\ \/ pc[d] = "send" /\ net[d] \notin {"none", "reset"} /\ command[d] # "status"
               \/ pc[d] = "ended" /\ result[d] # "gave_up"
        BY <3>1 DEF Truth, Ordered
      <3> HIDE DEF d
      <3>3. CASE d = c
        <4>1. pc[c] = "send" /\ net[c] \notin {"none", "reset"}
          BY <3>2, <3>3 DEF Asking
        <4> QED
          BY <3>1, <3>2, <3>3, <4>1 DEF d
      <3>4. CASE d # c
        BY <3>1, <3>2, <3>4 DEF d
      <3> QED
        BY <3>3, <3>4
    <2> QED
      BY <2>1 DEF Ordered, Order
  <1>3. Counted'
    <2>1. ASSUME NEW d \in Clients PROVE CountedFor(d)'
      <3>1. CountedFor(d)
        BY DEF Truth, Counted
      <3>2. CASE d = c
        <4>1. pc[c] # "ended"
          BY DEF Asking
        <4> QED
          BY <3>1, <3>2, <4>1 DEF CountedFor
      <3>3. CASE d # c
        BY <3>1, <3>3 DEF CountedFor
      <3> QED
        BY <3>2, <3>3
    <2> QED
      BY <2>1 DEF Counted
  <1> QED
    BY <1>1, <1>2, <1>3, KeptSingle DEF Truth

\* The same for a client whose connection was settled.
LEMMA EndsTruth ==
    ASSUME IInv, Truth, NEW c \in Clients, NEW how, Ends(c, how), pc[c] \in Asking, net[c] # "pending",
           how = "gave_up" /\ pc[c] = "send" => net[c] \in {"none", "reset"},
           how = "answered" => pc[c] = "send" /\ net[c] = "answered" /\ command[c] # "status"
    PROVE  Truth'
  <1>1. /\ UNCHANGED <<at, line, served, carried>>
        /\ pc'[c] = "ended" /\ net'[c] = "none" /\ result'[c] = how
        /\ \A d \in Clients : d # c => /\ pc'[d] = pc[d] /\ net'[d] = net[d]
                                       /\ command'[d] = command[d] /\ result'[d] = result[d]
    BY DEF Ends, Gone, Goto, Closed, Aside, IInv, TypeOK
  <1>2. Kept /\ \A s, i : Req(s, i)' = Req(s, i)
    BY <1>1, SamePlaces
  <1>3. Spare'
    BY <1>1 DEF Truth, Spare
  <1>4. ASSUME NEW s \in Services, NEW i \in 0 .. Len(line'[s]), Req(s, i)'.live PROVE Req(s, i).from # c
    BY <1>1, <1>2, <1>4 DEF Truth, Heeded
  <1> QED
    BY <1>1, <1>2, <1>3, <1>4, EndTruth

\* A client whose time is over stops waiting.
LEMMA DeadlineTruth == ASSUME IInv, Truth, NEW c \in Clients, Deadline(c) PROVE Truth'
  <1>1. /\ UNCHANGED <<at, carried>> /\ Abandon(c) /\ pc[c] = "poll" /\ pc[c] \in Asking
        /\ pc'[c] = "ended" /\ net'[c] = "none" /\ result'[c] = "gave_up"
        /\ \A d \in Clients : d # c => /\ pc'[d] = pc[d] /\ net'[d] = net[d]
                                       /\ command'[d] = command[d] /\ result'[d] = result[d]
    BY DEF Deadline, Gone, Goto, Closed, Aside, IInv, TypeOK, Asking
  <1>2. /\ Kept /\ Spare'
        /\ \A s \in Services : \A i \in 0 .. Len(line'[s]) : Req(s, i)'.live => Req(s, i).from # c
    BY <1>1, AbandonPlaces DEF IInv, Truth
  <1> QED
    BY <1>1, <1>2, EndTruth

\* A client that goes on to another question.
LEMMA GotoTruth ==
    ASSUME IInv, Truth, NEW c \in Clients, NEW next \in Asking, Goto(c, next),
           pc[c] \notin {"send", "ended"}, net[c] # "pending",
           UNCHANGED <<at, line, served, result, carried>>,
           \A d \in Clients : d # c => command'[d] = command[d]
    PROVE  Truth'
  <1>1. /\ pc'[c] \in Asking /\ net'[c] = "none"
        /\ \A d \in Clients : d # c => pc'[d] = pc[d] /\ net'[d] = net[d]
    BY DEF Goto, Closed, IInv, TypeOK
  <1>2. Spare'
    BY DEF Truth, Spare
  <1> QED
    BY <1>1, <1>2, MoveTruth

\* A client starts a service, which serves nobody yet.
LEMMA SpawnTruth == ASSUME IInv, Truth, NEW c \in Clients, Spawn(c) PROVE Truth'
  <1>1. /\ UNCHANGED <<line, served, result, carried, command>>
        /\ pc[c] = "probe" /\ net[c] # "pending" /\ pc'[c] \in Asking /\ net'[c] = "none"
        /\ \A d \in Clients : d # c => pc'[d] = pc[d] /\ net'[d] = net[d]
    BY DEF Spawn, Silent, Stays, Aside, Goto, Closed, IInv, TypeOK, Asking
  <1>2. /\ at[c] = "unborn" /\ at'[c] = "lock"
        /\ \A s \in Services : s # c => at'[s] = at[s]
    BY <1>1 DEF Spawn, IInv, TypeOK, Unborn
  <1>3. served[c] = Nothing
    BY <1>2 DEF Truth, Spare
  <1>4. Spare'
    BY <1>1, <1>2, <1>3 DEF Truth, Spare
  <1>5. \A s \in Services : Order(served[s]) => (at[s] = "reply" <=> at'[s] = "reply")
    BY <1>2
  <1> QED
    BY <1>1, <1>4, <1>5, MoveTruth

\* Every step of a client.
LEMMA ClientTruth ==
    ASSUME IInv, Truth, NEW c \in Clients, Invoke(c) \/ ClientStep(c) \/ Deadline(c)
    PROVE  Truth'
  <1>1. CASE Invoke(c)
    <2>1. PICK what \in Commands :
             /\ command' = [command EXCEPT ![c] = IF what = "service-stop" THEN "shutdown" ELSE what]
             /\ Goto(c, IF what = "service-stop" THEN "stop_probe" ELSE "probe")
      BY <1>1 DEF Invoke
    <2>2. /\ UNCHANGED <<at, line, served, result, carried>> /\ pc[c] = "new"
          /\ \A d \in Clients : d # c => command'[d] = command[d]
      BY <1>1, <2>1 DEF Invoke, Stays, Aside, IInv, TypeOK
    <2>3. net[c] # "pending"
      BY <2>2 DEF Truth, Counted, CountedFor, Asking
    <2> QED
      BY <2>1, <2>2, <2>3, GotoTruth DEF Asking
  <1>2. CASE Running(c) \/ Ensured(c)
    <2>1. /\ UNCHANGED <<at, line, served, result, carried, command>>
          /\ pc[c] \in {"stop_probe", "probe", "poll"} /\ net[c] # "pending"
          /\ \E next \in {"probe", "ask", "send"} : Goto(c, next)
      BY <1>2 DEF Running, Ensured, Responds, Stays, Aside
    <2> QED
      BY <2>1, GotoTruth DEF Asking
  <1>3. CASE Poll(c)
    <2>1. pc[c] = "poll" /\ net[c] # "pending"
      BY <1>3 DEF Poll, Silent
    <2>2. CASE Ends(c, "gave_up")
      BY <2>1, <2>2, EndsTruth DEF Asking
    <2>3. CASE Goto(c, "poll") /\ UNCHANGED <<at, command, result>> /\ Stays
      BY <2>1, <2>3, GotoTruth DEF Asking, Stays, Aside
    <2> QED
      BY <1>3, <2>2, <2>3 DEF Poll
  <1>4. CASE Toggle(c)
    <2>1. pc[c] = "ask" /\ net[c] # "pending"
      BY <1>4 DEF Toggle
    <2>2. CASE Ends(c, "gave_up")
      BY <2>1, <2>2, EndsTruth DEF Asking
    <2>3. CASE /\ command' = [command EXCEPT ![c] = IF reply[c].state = "idle" THEN "start" ELSE "stop"]
               /\ Goto(c, "send") /\ UNCHANGED <<at, result>> /\ Stays
      <3>1. \A d \in Clients : d # c => command'[d] = command[d]
        BY <2>3 DEF IInv, TypeOK
      <3> QED
        BY <2>1, <2>3, <3>1, GotoTruth DEF Asking, Stays, Aside
    <2> QED
      BY <1>4, <2>2, <2>3 DEF Toggle
  <1>5. CASE EmptyAnswer(c)
    <2>1. net[c] = "eof" /\ Ends(c, "uncertain")
      BY <1>5 DEF EmptyAnswer
    <2>2. pc[c] \in Asking
      BY <2>1 DEF Truth, Counted, CountedFor
    <2> QED
      BY <2>1, <2>2, EndsTruth
  <1>6. CASE NotRunning(c)
    BY <1>6, EndsTruth DEF NotRunning, Silent, Asking
  <1>7. CASE Unanswered(c)
    <2>1. Ends(c, IF net[c] = "timeout" THEN "uncertain" ELSE "gave_up")
      BY <1>7 DEF Unanswered
    <2>2. pc[c] \in Asking /\ net[c] \in {"reset", "timeout", "none"}
      BY <1>7 DEF Unanswered, Silent, Asking
    <2>3. CASE net[c] = "timeout"
      BY <2>1, <2>2, <2>3, EndsTruth
    <2>4. CASE net[c] # "timeout"
      BY <2>1, <2>2, <2>4, EndsTruth
    <2> QED
      BY <2>3, <2>4
  <1>8. CASE Answered(c)
    <2>1. /\ Ends(c, IF command[c] = "status" THEN "informed" ELSE "answered")
          /\ pc[c] = "send" /\ pc[c] \in Asking /\ net[c] = "answered"
      BY <1>8 DEF Answered, Asking
    <2>2. CASE command[c] = "status"
      BY <2>1, <2>2, EndsTruth
    <2>3. CASE command[c] # "status"
      BY <2>1, <2>3, EndsTruth
    <2> QED
      BY <2>2, <2>3
  <1> QED
    BY <1>1, <1>2, <1>3, <1>4, <1>5, <1>6, <1>7, <1>8, ConnectTruth, TimeoutTruth, SpawnTruth, DeadlineTruth
    DEF ClientStep

\* Nothing is asked for, answered or carried out at first.
LEMMA InitTruth == Init => Truth
  <1> SUFFICES ASSUME Init PROVE Truth
    OBVIOUS
  <1>1. \A s \in Services : \A i \in 0 .. Len(line[s]) : i = 0 /\ Req(s, i) = Nothing
    <2>1. ASSUME NEW s \in Services PROVE Len(line[s]) = 0 /\ served[s] = Nothing
      BY DEF Init
    <2> QED
      BY <2>1 DEF Req
  <1>2. \A c \in Clients : ~Of(Nothing, c)
    BY DEF Of, Order, Nothing
  <1>3. Spare
    BY DEF Init, Spare
  <1>4. Single
    BY <1>1, <1>2 DEF Single
  <1>5. Heeded
    BY <1>1 DEF Heeded, Nothing
  <1>6. Ordered
    BY <1>1 DEF Ordered, Order, Nothing
  <1>7. Counted
    BY DEF Init, Counted, CountedFor, Asking
  <1> QED
    BY <1>3, <1>4, <1>5, <1>6, <1>7 DEF Truth

\* Every step keeps the answers true.
LEMMA NextTruth == IInv /\ Truth /\ [Next]_vars => Truth'
  <1> SUFFICES ASSUME IInv, Truth, [Next]_vars PROVE Truth'
    OBVIOUS
  <1>1. ASSUME NEW c \in Clients, Invoke(c) \/ ClientStep(c) \/ Deadline(c) PROVE Truth'
    BY <1>1, ClientTruth
  <1>2. ASSUME NEW s \in Services,
               \/ ServiceStep(s) \/ Prepare(s) \/ NotPrepared(s) \/ Misconfigured(s)
               \/ Signal(s) \/ Crash(s)
        PROVE  Truth'
    BY <1>2, ServiceQuiet, AcceptTruth, HandleTruth, ReplyTruth, LeaveLoopTruth, CrashTruth DEF ServiceStep
  <1>3. CASE Stall
    BY <1>3, StallTruth
  <1>4. CASE UNCHANGED vars
    <2>1. UNCHANGED <<at, line, served, net, pc, command, result, carried>>
      BY <1>4 DEF vars, serviceVars, clientVars
    <2>2. Spare'
      BY <2>1 DEF Truth, Spare
    <2> QED
      BY <2>1, <2>2, QuietTruth
  <1> QED
    BY <1>1, <1>2, <1>3, <1>4 DEF Next

\* What a client says of its command is true, whoever was killed, signalled or
\* silent in the meantime, and the command is carried out at most once.
THEOREM AnswersAreTrue == Spec => []AnswerTellsTruth
  <1>1. Truth => AnswerTellsTruth
    BY DEF Truth, Counted, CountedFor, AnswerTellsTruth
  <1> QED
    BY InitTruth, NextTruth, ClientsInvariance, <1>1, PTL DEF Spec
=============================================================================
