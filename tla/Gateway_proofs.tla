---------------------------- MODULE Gateway_proofs ----------------------------
(***************************************************************************)
(* Moves reach the game of their round, commands are carried out in order, *)
(* and none disappears unless it was given up: for any lengths of the      *)
(* queues, any plies and any number of messages, and however many of them  *)
(* are lost.                                                               *)
(***************************************************************************)
EXTENDS Gateway, TLAPS

Commands == smak_http_req_queue

\* a is ahead of b: a new game ahead of a message began its round or an earlier
\* one, a new game behind a message begins a later one, and commands are numbered.
Ahead(a, b) ==
    /\ a.what = NEW_GAME => a.n <= b.round
    /\ b.what = NEW_GAME => a.round < b.n
    /\ IsCommand(a) /\ IsCommand(b) => a.n < b.n

Ordered(q) == \A i, j \in 1..Len(q) : i < j => Ahead(q[i], q[j])
AllAhead(q, r) == \A i \in 1..Len(q), j \in 1..Len(r) : Ahead(q[i], r[j])
AheadOfAll(m, q) == \A i \in 1..Len(q) : Ahead(m, q[i])
BehindAll(q, m) == \A i \in 1..Len(q) : Ahead(q[i], m)

Order ==
    /\ Ordered(Commands) /\ Ordered(send_queue) /\ AllAhead(Commands, send_queue)
    /\ posting # None => /\ AheadOfAll(posting.msg, Commands)
                         /\ AheadOfAll(posting.msg, send_queue)

In(q, m) == \E i \in 1..Len(q) : q[i] = m
OnTheWay(m) ==
    \/ (posting # None /\ m = posting.msg)
    \/ In(Commands, m)
    \/ In(send_queue, m)

RoundOf(id) == IF id = NoId THEN 0 ELSE games[id]

\* A round the gateway knows, has lost, or has yet to hear of.
Announced(r) ==
    \/ r = RoundOf(nvs_id)
    \/ r \in lost
    \/ \E m \in Message : m.what = NEW_GAME /\ m.n = r /\ OnTheWay(m)

Numbered ==
    /\ \A m \in Message : OnTheWay(m) =>
          /\ m.n <= Len(sent) /\ m.round <= round
          /\ m.what # AUTH_TOKEN_GET => m.n > 0
          /\ m.what = NEW_GAME => m.n = m.round
    /\ \A i \in 1..Len(send_queue) : send_queue[i].what # AUTH_TOKEN_GET

\* The games the gateway may post under are not ahead of what is on its way.
Behind(id) ==
    /\ RoundOf(id) <= round
    /\ \A m \in Message : OnTheWay(m) =>
          /\ m.what = NEW_GAME => RoundOf(id) < m.n
          /\ m.what \in Plies => RoundOf(id) <= m.round

Rounds ==
    /\ Behind(nvs_id) /\ Behind(parsed)
    /\ parsed = NoId \/ parsed >= nvs_id
    /\ Announced(round)
    /\ \A m \in Message : OnTheWay(m) /\ m.what \in Plies => Announced(m.round)

Fits(id, r) == games[id] = r \/ (games[id] < r /\ r \in lost)

Requests ==
    /\ posting # None => posting.id = nvs_id
    /\ \A p \in late :
          /\ p.id <= Len(games)
          /\ p.msg.what \in Plies /\ p.id # NoId => Fits(p.id, p.msg.round)
    /\ \A mv \in moves : Fits(mv.id, mv.round)

Inv == GatewayTypeOK /\ Order /\ Numbered /\ Rounds /\ Requests

-----------------------------------------------------------------------------
(* The queues *)

LEMMA EnqueueFacts ==
    ASSUME NEW q \in Seq(Message), Len(q) <= QueueLength, NEW m \in Message,
           NEW e, e = Enqueue(q, m)
    PROVE  /\ e \in Seq(Message) /\ Len(e) <= QueueLength
           /\ \A i \in 1..Len(q) : i \in 1..Len(e) /\ e[i] = q[i]
           /\ \A i \in 1..Len(e) : i \in 1..Len(q) \/ (i = Len(q) + 1 /\ e[i] = m)
           /\ ~IsFull(q) => Len(e) = Len(q) + 1 /\ e[Len(q) + 1] = m
<1>1. QueueLength \in Nat /\ Len(q) \in Nat
  BY GatewayAssumption
<1>2. CASE Len(q) < QueueLength
  <2>1. e = Append(q, m)
    BY <1>2 DEF Enqueue
  <2>2. e \in Seq(Message) /\ Len(e) = Len(q) + 1
    BY <2>1
  <2>3. \A i \in 1..Len(q) : e[i] = q[i]
    BY <2>1
  <2>4. e[Len(q) + 1] = m
    BY <2>1
  <2>. QED  BY <1>1, <1>2, <2>2, <2>3, <2>4
<1>3. CASE ~(Len(q) < QueueLength)
  <2>1. e = q /\ IsFull(q)
    BY <1>1, <1>3 DEF Enqueue, IsFull
  <2>. QED  BY <1>1, <2>1
<1>. QED  BY <1>2, <1>3

LEMMA TailFacts ==
    ASSUME NEW q \in Seq(Message), q # <<>>
    PROVE  /\ Head(q) = q[1] /\ Head(q) \in Message /\ 1 \in 1..Len(q)
           /\ Tail(q) \in Seq(Message) /\ Len(Tail(q)) = Len(q) - 1
           /\ \A i \in 1..Len(Tail(q)) : i + 1 \in 1..Len(q) /\ Tail(q)[i] = q[i + 1]
OBVIOUS

LEMMA OrderedEnqueue ==
    ASSUME NEW q \in Seq(Message), Len(q) <= QueueLength, NEW m \in Message,
           Ordered(q), BehindAll(q, m)
    PROVE  Ordered(Enqueue(q, m))
<1>. DEFINE e == Enqueue(q, m)
<1>1. /\ e \in Seq(Message)
      /\ \A i \in 1..Len(q) : i \in 1..Len(e) /\ e[i] = q[i]
      /\ \A i \in 1..Len(e) : i \in 1..Len(q) \/ (i = Len(q) + 1 /\ e[i] = m)
  BY EnqueueFacts
<1>. HIDE DEF e
<1>2. ASSUME NEW i \in 1..Len(e), NEW j \in 1..Len(e), i < j  PROVE Ahead(e[i], e[j])
  <2>1. i \in 1..Len(q)
    BY <1>1, <1>2
  <2>2. CASE j \in 1..Len(q)
    BY <1>1, <1>2, <2>1, <2>2 DEF Ordered
  <2>3. CASE e[j] = m
    BY <1>1, <2>1, <2>3 DEF BehindAll
  <2>. QED  BY <1>1, <2>2, <2>3
<1>. QED  BY <1>2 DEF Ordered, e

LEMMA OrderedTail ==
    ASSUME NEW q \in Seq(Message), q # <<>>, Ordered(q)
    PROVE  Ordered(Tail(q)) /\ AheadOfAll(Head(q), Tail(q))
<1>1. ASSUME NEW i \in 1..Len(Tail(q)), NEW j \in 1..Len(Tail(q)), i < j
      PROVE  Ahead(Tail(q)[i], Tail(q)[j])
  BY <1>1, TailFacts DEF Ordered
<1>2. ASSUME NEW i \in 1..Len(Tail(q))  PROVE Ahead(Head(q), Tail(q)[i])
  BY TailFacts DEF Ordered
<1>. QED  BY <1>1, <1>2 DEF Ordered, AheadOfAll

\* What a queue holds after a message was added, or taken.
LEMMA InEnqueue ==
    ASSUME NEW q \in Seq(Message), Len(q) <= QueueLength, NEW m \in Message, NEW x
    PROVE  /\ In(Enqueue(q, m), x) => In(q, x) \/ x = m
           /\ In(q, x) => In(Enqueue(q, m), x)
           /\ ~IsFull(q) => In(Enqueue(q, m), m)
<1>. DEFINE e == Enqueue(q, m)
<1>1. /\ e \in Seq(Message)
      /\ \A i \in 1..Len(q) : i \in 1..Len(e) /\ e[i] = q[i]
      /\ \A i \in 1..Len(e) : i \in 1..Len(q) \/ (i = Len(q) + 1 /\ e[i] = m)
      /\ ~IsFull(q) => Len(e) = Len(q) + 1 /\ e[Len(q) + 1] = m
  BY EnqueueFacts
<1>. HIDE DEF e
<1>2. In(e, x) => In(q, x) \/ x = m
  BY <1>1 DEF In
<1>3. In(q, x) => In(e, x)
  BY <1>1 DEF In
<1>4. ~IsFull(q) => In(e, m)
  BY <1>1 DEF In
<1>. QED  BY <1>2, <1>3, <1>4 DEF e

LEMMA InTail ==
    ASSUME NEW q \in Seq(Message), q # <<>>, NEW x
    PROVE  /\ In(Tail(q), x) => In(q, x)
           /\ In(q, Head(q))
           /\ In(q, x) => In(Tail(q), x) \/ x = Head(q)
<1>1. In(Tail(q), x) => In(q, x)
  BY TailFacts DEF In
<1>2. In(q, Head(q))
  BY TailFacts DEF In
<1>3. ASSUME In(q, x)  PROVE In(Tail(q), x) \/ x = Head(q)
  <2>1. PICK i \in 1..Len(q) : q[i] = x
    BY <1>3 DEF In
  <2>2. CASE i = 1
    BY <2>1, <2>2, TailFacts
  <2>3. CASE i # 1
    <3>1. i - 1 \in 1..Len(Tail(q)) /\ Tail(q)[i - 1] = x
      BY <2>1, <2>3, TailFacts
    <3>. QED  BY <3>1 DEF In
  <2>. QED  BY <2>2, <2>3
<1>. QED  BY <1>1, <1>2, <1>3
\* Adding a message to a queue keeps it behind and ahead of what it was.
LEMMA AheadEnqueue ==
    ASSUME NEW q \in Seq(Message), Len(q) <= QueueLength, NEW m \in Message, NEW x
    PROVE  /\ AheadOfAll(x, q) /\ Ahead(x, m) => AheadOfAll(x, Enqueue(q, m))
           /\ BehindAll(q, x) /\ Ahead(m, x) => BehindAll(Enqueue(q, m), x)
<1>. DEFINE e == Enqueue(q, m)
<1>2. /\ \A i \in 1..Len(q) : i \in 1..Len(e) /\ e[i] = q[i]
      /\ \A i \in 1..Len(e) : i \in 1..Len(q) \/ (i = Len(q) + 1 /\ e[i] = m)
  BY EnqueueFacts
<1>. HIDE DEF e
<1>3. ASSUME AheadOfAll(x, q), Ahead(x, m), NEW i \in 1..Len(e)  PROVE Ahead(x, e[i])
  BY <1>2, <1>3 DEF AheadOfAll
<1>4. ASSUME BehindAll(q, x), Ahead(m, x), NEW i \in 1..Len(e)  PROVE Ahead(e[i], x)
  BY <1>2, <1>4 DEF BehindAll
<1>. QED  BY <1>3, <1>4 DEF AheadOfAll, BehindAll, e

LEMMA AllAheadEnqueue ==
    ASSUME NEW c, NEW q \in Seq(Message), Len(q) <= QueueLength, NEW m \in Message
    PROVE  /\ AllAhead(c, q) /\ BehindAll(c, m) => AllAhead(c, Enqueue(q, m))
           /\ AllAhead(q, c) /\ AheadOfAll(m, c) => AllAhead(Enqueue(q, m), c)
<1>. DEFINE e == Enqueue(q, m)
<1>2. /\ \A i \in 1..Len(q) : i \in 1..Len(e) /\ e[i] = q[i]
      /\ \A i \in 1..Len(e) : i \in 1..Len(q) \/ (i = Len(q) + 1 /\ e[i] = m)
  BY EnqueueFacts
<1>. HIDE DEF e
<1>3. ASSUME AllAhead(c, q), BehindAll(c, m), NEW i \in 1..Len(c), NEW j \in 1..Len(e)
      PROVE  Ahead(c[i], e[j])
  BY <1>2, <1>3 DEF AllAhead, BehindAll
<1>4. ASSUME AllAhead(q, c), AheadOfAll(m, c), NEW i \in 1..Len(e), NEW j \in 1..Len(c)
      PROVE  Ahead(e[i], c[j])
  BY <1>2, <1>4 DEF AllAhead, AheadOfAll
<1>. QED  BY <1>3, <1>4 DEF AllAhead, e

LEMMA AheadTail ==
    ASSUME NEW q \in Seq(Message), q # <<>>, NEW x
    PROVE  /\ AheadOfAll(x, q) => AheadOfAll(x, Tail(q)) /\ Ahead(x, Head(q))
           /\ AllAhead(x, q) => AllAhead(x, Tail(q)) /\ BehindAll(x, Head(q))
           /\ AllAhead(q, x) => AllAhead(Tail(q), x) /\ AheadOfAll(Head(q), x)
BY TailFacts DEF AheadOfAll, BehindAll, AllAhead

-----------------------------------------------------------------------------
(* Order *)

\* Whatever is on its way is behind a message the board sends now.
LEMMA NewestIsLast ==
    ASSUME GatewayTypeOK, Numbered, NEW m \in Message, m.n = Len(sent) + 1,
           m.round >= round
    PROVE  /\ BehindAll(Commands, m) /\ BehindAll(send_queue, m)
           /\ posting # None => Ahead(posting.msg, m)
<1>1. ASSUME NEW x \in Message, OnTheWay(x)  PROVE Ahead(x, m)
  <2>1. /\ x.n \in Nat /\ x.round \in Nat /\ m.round \in Nat
        /\ round \in Nat /\ Len(sent) \in Nat /\ round <= Len(sent)
    BY DEF GatewayTypeOK, Message
  <2>2. x.round <= round /\ x.n <= Len(sent) /\ (x.what = NEW_GAME => x.n = x.round)
    BY <1>1 DEF Numbered
  <2>. QED  BY <2>1, <2>2 DEF Ahead
<1>2. BehindAll(Commands, m) /\ BehindAll(send_queue, m)
  BY <1>1 DEF BehindAll, OnTheWay, In, GatewayTypeOK, Commands
<1>3. posting # None => Ahead(posting.msg, m)
  BY <1>1 DEF OnTheWay, GatewayTypeOK, Request
<1>. QED  BY <1>2, <1>3

\* An order of queues that do not grow.
LEMMA OrderKept ==
    ASSUME Order, UNCHANGED <<send_queue, smak_http_req_queue, posting>>
    PROVE  Order'
BY DEF Order, Commands

LEMMA OrderStep ==
    ASSUME Inv, Next  PROVE Order'
<1>. USE DEF Inv
<1>t. /\ Commands \in Seq(Message) /\ Len(Commands) <= QueueLength
      /\ send_queue \in Seq(Message) /\ Len(send_queue) <= QueueLength
      /\ round \in Nat /\ Len(sent) \in Nat /\ round <= Len(sent)
      /\ posting # None => posting.msg \in Message
  BY DEF GatewayTypeOK, Request, Commands
<1>e. /\ \A q : Ordered(<<>>) /\ AllAhead(<<>>, q) /\ AllAhead(q, <<>>) /\ AheadOfAll(q, <<>>)
      /\ Ordered(<<Token>>)
  BY DEF Ordered, AllAhead, AheadOfAll
<1>1. ASSUME NEW what \in Plies \cup {NEW_GAME}, BoardSends(what)  PROVE Order'
  <2>. DEFINE m == [n |-> Len(sent) + 1, round |-> round', what |-> what]
              g == [m EXCEPT !.what = GARBLED]
  <2>1. m \in Message /\ m.n = Len(sent) + 1 /\ m.round >= round
    BY <1>1, <1>t DEF BoardSends, Message
  <2>2. g \in Message /\ g.n = Len(sent) + 1 /\ g.round >= round /\ Ahead(g, g)
    <3>1. g = [n |-> Len(sent) + 1, round |-> round', what |-> GARBLED]
      OBVIOUS
    <3>2. round' \in Nat /\ round' >= round
      BY <1>1, <1>t DEF BoardSends
    <3>3. GARBLED # NEW_GAME /\ ~IsCommand(g)
      BY <3>1, GatewayAssumption DEF IsCommand
    <3>. QED  BY <3>1, <3>2, <3>3, <1>t DEF Message, Ahead
  <2>. HIDE DEF m, g
  <2>3. PICK pieces \in 0..2 : HandleRx(m, pieces)
    BY <1>1 DEF BoardSends, m
  <2>4. UNCHANGED <<smak_http_req_queue, posting>>
    BY <1>1 DEF BoardSends
  <2>5. /\ BehindAll(Commands, m) /\ BehindAll(send_queue, m)
        /\ posting # None => Ahead(posting.msg, m)
    BY <2>1, NewestIsLast
  <2>6. /\ BehindAll(Commands, g) /\ BehindAll(send_queue, g)
        /\ posting # None => Ahead(posting.msg, g)
    BY <2>2, NewestIsLast
  <2>7. CASE pieces = 0
    BY <2>3, <2>4, <2>7, OrderKept DEF HandleRx
  <2>8. CASE pieces = 1
    <3>1. send_queue' = Enqueue(send_queue, m)
      BY <2>3, <2>8 DEF HandleRx
    <3>2. Ordered(send_queue')
      BY <3>1, <2>1, <2>5, <1>t, OrderedEnqueue DEF Order
    <3>3. AllAhead(Commands, send_queue')
      BY <3>1, <2>1, <2>5, <1>t, AllAheadEnqueue DEF Order
    <3>4. posting # None => AheadOfAll(posting.msg, send_queue')
      BY <3>1, <2>1, <2>5, <1>t, AheadEnqueue DEF Order
    <3>. QED  BY <2>4, <3>2, <3>3, <3>4 DEF Order, Commands
  <2>9. CASE pieces = 2
    <3>1. PICK e : e = Enqueue(send_queue, g)
      OBVIOUS
    <3>2. send_queue' = Enqueue(e, g)
      BY <2>3, <2>9, <3>1 DEF HandleRx, g
    <3>3. e \in Seq(Message) /\ Len(e) <= QueueLength
      BY <3>1, <2>2, <1>t, EnqueueFacts
    <3>4. Ordered(e) /\ BehindAll(e, g)
      BY <3>1, <2>2, <2>6, <1>t, OrderedEnqueue, AheadEnqueue DEF Order
    <3>5. Ordered(send_queue')
      BY <3>2, <3>3, <3>4, <2>2, OrderedEnqueue
    <3>6. AllAhead(Commands, e)
      BY <3>1, <2>2, <2>6, <1>t, AllAheadEnqueue DEF Order
    <3>7. AllAhead(Commands, send_queue')
      BY <3>2, <3>3, <3>6, <2>2, <2>6, AllAheadEnqueue
    <3>8. posting # None => AheadOfAll(posting.msg, e)
      BY <3>1, <2>2, <2>6, <1>t, AheadEnqueue DEF Order
    <3>9. posting # None => AheadOfAll(posting.msg, send_queue')
      BY <3>2, <3>3, <3>8, <2>2, <2>6, AheadEnqueue
    <3>. QED  BY <2>4, <3>5, <3>7, <3>9 DEF Order, Commands
  <2>. QED  BY <2>7, <2>8, <2>9
<1>2. CASE BoardRestarts
  BY <1>2, OrderKept DEF BoardRestarts, readerVars
<1>3. CASE Quit
  BY <1>3, <1>e DEF Quit, Order, Commands
<1>4. CASE Restart
  BY <1>4, <1>e DEF Restart, Order, Commands
<1>5. CASE LateRequest
  BY <1>5, OrderKept DEF LateRequest, readerVars
<1>6. CASE ReaderWakes
  BY <1>6, OrderKept DEF ReaderWakes
<1>7. CASE ReadMessage
  <2>. DEFINE m == Head(send_queue)
  <2>1. send_queue # <<>> /\ send_queue' = Tail(send_queue) /\ UNCHANGED posting
    BY <1>7 DEF ReadMessage
  <2>2. m \in Message /\ Ordered(Tail(send_queue)) /\ AheadOfAll(m, Tail(send_queue))
    BY <2>1, <1>t, TailFacts, OrderedTail DEF Order
  <2>3. /\ AllAhead(Commands, Tail(send_queue)) /\ BehindAll(Commands, m)
        /\ posting # None => /\ AheadOfAll(posting.msg, Tail(send_queue))
                             /\ Ahead(posting.msg, m)
    BY <2>1, <1>t, AheadTail DEF Order
  <2>4. CASE UNCHANGED smak_http_req_queue
    BY <2>1, <2>2, <2>3, <2>4 DEF Order, Commands
  <2>5. CASE smak_http_req_queue' = Enqueue(smak_http_req_queue, m)
    <3>. HIDE DEF m
    <3>0. Commands' = Enqueue(Commands, m)
      BY <2>5 DEF Commands
    <3>1. Ordered(Commands')
      BY <3>0, <2>2, <2>3, <1>t, OrderedEnqueue DEF Order
    <3>2. AllAhead(Commands', Tail(send_queue))
      BY <3>0, <2>2, <2>3, <1>t, AllAheadEnqueue
    <3>3. posting # None => AheadOfAll(posting.msg, Commands')
      BY <3>0, <2>2, <2>3, <1>t, AheadEnqueue DEF Order
    <3>. QED  BY <2>1, <2>2, <2>3, <3>1, <3>2, <3>3 DEF Order
  <2>. QED  BY <1>7, <2>4, <2>5 DEF ReadMessage
<1>8. CASE NextCommand
  <2>1. /\ Commands # <<>> /\ Commands' = Tail(Commands) /\ UNCHANGED send_queue
        /\ posting' = [msg |-> Head(Commands), id |-> nvs_id]
    BY <1>8 DEF NextCommand, Commands, readerVars
  <2>2. posting'.msg = Head(Commands)
    BY <2>1
  <2>3. Ordered(Tail(Commands)) /\ AheadOfAll(Head(Commands), Tail(Commands))
    BY <2>1, <1>t, OrderedTail DEF Order
  <2>4. AllAhead(Tail(Commands), send_queue) /\ AheadOfAll(Head(Commands), send_queue)
    BY <2>1, <1>t, AheadTail DEF Order
  <2>. QED  BY <2>1, <2>2, <2>3, <2>4 DEF Order
<1>9. CASE TokenEnds \/ SmakHttpPostMove \/ SmakHttpPostGame
  <2>1. UNCHANGED <<send_queue, smak_http_req_queue>> /\ posting' = None
    BY <1>9 DEF TokenEnds, SmakHttpPostMove, SmakHttpPostGame, RequestEnds, readerVars
  <2>. QED  BY <2>1 DEF Order, Commands
<1>. QED  BY <1>1, <1>2, <1>3, <1>4, <1>5, <1>6, <1>7, <1>8, <1>9
          DEF Next, ReadQueueTask, ConnectivityTask
-----------------------------------------------------------------------------
(* Numbers and rounds *)

\* A step after which less is on its way, and the new games that are no longer are
\* lost.
LEMMA WayShrinks ==
    ASSUME GatewayTypeOK, Numbered, Rounds,
           \A m \in Message : OnTheWay(m)' => OnTheWay(m) \/ m = Token,
           \A m \in Message : OnTheWay(m) /\ m.what = NEW_GAME => OnTheWay(m)' \/ m.n \in lost',
           \A i \in 1..Len(send_queue') : send_queue'[i].what # AUTH_TOKEN_GET,
           lost \subseteq lost', UNCHANGED <<sent, round, nvs_id>>,
           RoundOf(nvs_id)' = RoundOf(nvs_id),
           parsed' = NoId \/ (parsed' = parsed /\ RoundOf(parsed)' = RoundOf(parsed))
    PROVE  Numbered' /\ Rounds'
<1>. /\ Token.n = 0 /\ Token.round = 0 /\ Token.what = AUTH_TOKEN_GET
     /\ AUTH_TOKEN_GET # NEW_GAME /\ AUTH_TOKEN_GET \notin Plies
     /\ round \in Nat /\ Len(sent) \in Nat
  BY GatewayAssumption DEF Token, GatewayTypeOK
<1>1. Numbered'
  BY DEF Numbered
<1>2. round \in Nat /\ \A m \in Message : m.n \in Nat /\ m.round \in Nat
  BY DEF GatewayTypeOK, Message
<1>3. Behind(nvs_id)'
  BY DEF Rounds, Behind
<1>4. Behind(parsed)'
  <2>1. CASE parsed' = NoId
    <3>1. RoundOf(parsed)' = 0
      BY <2>1 DEF RoundOf
    <3>2. \A m \in Message : OnTheWay(m) /\ m.what = NEW_GAME => m.n > 0
      BY GatewayAssumption DEF Numbered
    <3>. QED  BY <1>2, <3>1, <3>2 DEF Behind
  <2>2. CASE parsed' = parsed /\ RoundOf(parsed)' = RoundOf(parsed)
    BY <2>2 DEF Rounds, Behind
  <2>. QED  BY <2>1, <2>2
<1>5. ASSUME NEW r, Announced(r)  PROVE Announced(r)'
  BY <1>5 DEF Announced
<1>6. Announced(round)'
  BY <1>5 DEF Rounds, Announced
<1>7. \A m \in Message : OnTheWay(m)' /\ m.what \in Plies => Announced(m.round)'
  BY <1>5 DEF Rounds
<1>. QED  BY <1>1, <1>3, <1>4, <1>6, <1>7 DEF Rounds

\* The rounds of the games do not change when games are added.
LEMMA GamesGrow ==
    ASSUME GatewayTypeOK, NEW n, games' = games \/ games' = Append(games, n),
           NEW id \in 0..Len(games)
    PROVE  /\ Len(games') >= Len(games)
           /\ n \in Nat => games' \in Seq(Nat) /\ Len(games') \in Nat
           /\ (IF id = NoId THEN 0 ELSE games'[id]) = RoundOf(id)
           /\ id # NoId => games'[id] = games[id]
<1>1. games \in Seq(Nat)
  BY DEF GatewayTypeOK
<1>2. CASE games' = games
  BY <1>1, <1>2 DEF RoundOf, NoId
<1>3. CASE games' = Append(games, n)
  <2>1. Len(games') >= Len(games)
    BY <1>1, <1>3
  <2>2. n \in Nat => games' \in Seq(Nat) /\ Len(games') \in Nat
    BY <1>1, <1>3
  <2>3. id # NoId => games'[id] = games[id]
    BY <1>1, <1>3 DEF NoId
  <2>. QED  BY <2>1, <2>2, <2>3 DEF RoundOf
<1>. QED  BY <1>2, <1>3

\* What the board sends now, n, is behind what waits to be read, or is lost.
LEMMA SendsWay ==
    ASSUME GatewayTypeOK, NEW what \in Plies \cup {NEW_GAME}, BoardSends(what),
           NEW m, m = [n |-> Len(sent) + 1, round |-> round', what |-> what],
           NEW g, g = [m EXCEPT !.what = GARBLED]
    PROVE  /\ m \in Message /\ g \in Message
           /\ g = [n |-> Len(sent) + 1, round |-> round', what |-> GARBLED]
           /\ Len(sent') = Len(sent) + 1
           /\ \A x : In(send_queue', x) => In(send_queue, x) \/ x = m \/ x = g
           /\ \A x : In(send_queue, x) => In(send_queue', x)
           /\ In(send_queue', m) \/ m.n \in lost'
           /\ lost \subseteq lost'
           /\ UNCHANGED <<smak_http_req_queue, posting, nvs_id, parsed, games>>
<1>. DEFINE n == Len(sent) + 1
<1>0. PICK pieces \in 0..2 : HandleRx(m, pieces)
  BY DEF BoardSends
<1>t. /\ round \in Nat /\ Len(sent) \in Nat /\ round <= Len(sent)
      /\ send_queue \in Seq(Message) /\ Len(send_queue) <= QueueLength
      /\ \A x \in Message : x.n \in Nat /\ x.round \in Nat
  BY DEF GatewayTypeOK, Message
<1>1. /\ Len(sent') = n /\ round' = (IF what = NEW_GAME THEN n ELSE round)
      /\ UNCHANGED <<smak_http_req_queue, posting, nvs_id, parsed, games>>
  BY <1>t DEF BoardSends, idVars, tables, GatewayTypeOK
<1>2. round' \in Nat /\ round <= round' /\ round' <= n
  BY <1>1, <1>t
<1>3. g = [n |-> n, round |-> round', what |-> GARBLED]
  OBVIOUS
<1>4. m \in Message /\ g \in Message
  BY <1>2, <1>3, <1>t DEF Message
<1>5. /\ m.n = n /\ m.round = round' /\ m.what = what
      /\ g.n = n /\ g.round = round' /\ g.what = GARBLED
  BY <1>3
<1>6. \A x : In(send_queue', x) => In(send_queue, x) \/ x = m \/ x = g
  <2>1. CASE pieces = 0
    BY <1>0, <2>1 DEF HandleRx
  <2>2. CASE pieces = 1
    <3>1. send_queue' = Enqueue(send_queue, m)
      BY <1>0, <2>2 DEF HandleRx
    <3>. QED  BY <3>1, <1>4, <1>t, InEnqueue
  <2>3. CASE pieces = 2
    <3>. DEFINE e == Enqueue(send_queue, g)
    <3>1. send_queue' = Enqueue(e, g)
      BY <1>0, <2>3 DEF HandleRx
    <3>2. /\ e \in Seq(Message) /\ Len(e) <= QueueLength
          /\ \A x : In(e, x) => In(send_queue, x) \/ x = g
      BY <1>4, <1>t, EnqueueFacts, InEnqueue
    <3>. HIDE DEF e
    <3>3. \A x : In(Enqueue(e, g), x) => In(e, x) \/ x = g
      BY <1>4, <3>2, InEnqueue
    <3>. QED  BY <3>1, <3>2, <3>3
  <2>. QED  BY <2>1, <2>2, <2>3
<1>7. \A x : In(send_queue, x) => In(send_queue', x)
  <2>1. CASE pieces = 0
    BY <1>0, <2>1 DEF HandleRx
  <2>2. CASE pieces = 1
    <3>1. send_queue' = Enqueue(send_queue, m)
      BY <1>0, <2>2 DEF HandleRx
    <3>. QED  BY <3>1, <1>4, <1>t, InEnqueue
  <2>3. CASE pieces = 2
    <3>. DEFINE e == Enqueue(send_queue, g)
    <3>1. send_queue' = Enqueue(e, g)
      BY <1>0, <2>3 DEF HandleRx
    <3>2. /\ e \in Seq(Message) /\ Len(e) <= QueueLength
          /\ \A x : In(send_queue, x) => In(e, x)
      BY <1>4, <1>t, EnqueueFacts, InEnqueue
    <3>. HIDE DEF e
    <3>3. \A x : In(e, x) => In(Enqueue(e, g), x)
      BY <1>4, <3>2, InEnqueue
    <3>. QED  BY <3>1, <3>2, <3>3
  <2>. QED  BY <2>1, <2>2, <2>3
<1>8. In(send_queue', m) \/ m.n \in lost'
  <2>1. CASE pieces = 1 /\ ~IsFull(send_queue)
    <3>1. send_queue' = Enqueue(send_queue, m)
      BY <1>0, <2>1 DEF HandleRx
    <3>. QED  BY <3>1, <2>1, <1>4, <1>t, InEnqueue
  <2>2. CASE ~(pieces = 1 /\ ~IsFull(send_queue))
    BY <1>0, <1>5, <2>2 DEF HandleRx
  <2>. QED  BY <2>1, <2>2
<1>9. lost \subseteq lost'
  BY <1>0 DEF HandleRx
<1>. QED  BY <1>1, <1>3, <1>4, <1>6, <1>7, <1>8, <1>9

LEMMA SendsRounds ==
    ASSUME Inv, NEW what \in Plies \cup {NEW_GAME}, BoardSends(what)
    PROVE  Numbered' /\ Rounds'
<1>. USE DEF Inv
<1>. DEFINE n == Len(sent) + 1
            m == [n |-> n, round |-> round', what |-> what]
            g == [m EXCEPT !.what = GARBLED]
<1>t. /\ round \in Nat /\ Len(sent) \in Nat /\ round <= Len(sent)
      /\ \A x \in Message : x.n \in Nat /\ x.round \in Nat
  BY DEF GatewayTypeOK, Message
<1>3. /\ m \in Message /\ g \in Message
      /\ g = [n |-> n, round |-> round', what |-> GARBLED]
      /\ Len(sent') = n
      /\ \A x : In(send_queue', x) => In(send_queue, x) \/ x = m \/ x = g
      /\ \A x : In(send_queue, x) => In(send_queue', x)
      /\ In(send_queue', m) \/ m.n \in lost'
      /\ lost \subseteq lost'
      /\ UNCHANGED <<smak_http_req_queue, posting, nvs_id, parsed, games>>
  BY SendsWay
<1>1. /\ Len(sent') = n /\ round' = (IF what = NEW_GAME THEN n ELSE round)
      /\ UNCHANGED <<smak_http_req_queue, posting, nvs_id, parsed, games>>
  BY <1>3 DEF BoardSends
<1>2. round' \in Nat /\ round <= round' /\ round' <= n
  BY <1>1, <1>t
<1>5. /\ m.n = n /\ m.round = round' /\ m.what = what
      /\ g.n = n /\ g.round = round' /\ g.what = GARBLED
  BY <1>3
<1>a. /\ what # AUTH_TOKEN_GET /\ GARBLED # AUTH_TOKEN_GET /\ GARBLED # NEW_GAME
      /\ GARBLED \notin Plies /\ NEW_GAME \notin Plies
  BY GatewayAssumption
<1>. HIDE DEF m, g
<1>6. \A x : In(send_queue', x) => In(send_queue, x) \/ x = m \/ x = g
  BY <1>3
<1>7. \A x : In(send_queue, x) => In(send_queue', x)
  BY <1>3
<1>10. \A x \in Message : /\ OnTheWay(x)' => OnTheWay(x) \/ x = m \/ x = g
                          /\ OnTheWay(x) => OnTheWay(x)'
  BY <1>1, <1>6, <1>7 DEF OnTheWay, Commands
<1>11. ASSUME NEW i \in 1..Len(send_queue')  PROVE send_queue'[i].what # AUTH_TOKEN_GET
  <2>1. In(send_queue', send_queue'[i])
    BY DEF In
  <2>2. In(send_queue, send_queue'[i]) => send_queue'[i].what # AUTH_TOKEN_GET
    BY DEF In, Numbered
  <2>. QED  BY <2>1, <2>2, <1>5, <1>6, <1>a
<1>12. Numbered'
  <2>1. ASSUME NEW x \in Message, OnTheWay(x)'
        PROVE  /\ x.n <= Len(sent') /\ x.round <= round'
               /\ x.what # AUTH_TOKEN_GET => x.n > 0
               /\ x.what = NEW_GAME => x.n = x.round
    <3>1. CASE OnTheWay(x)
      BY <3>1, <1>1, <1>2, <1>t DEF Numbered
    <3>2. CASE x = m \/ x = g
      BY <3>2, <1>1, <1>2, <1>5, <1>t, <1>a
    <3>. QED  BY <2>1, <1>10, <3>1, <3>2
  <2>. QED  BY <2>1, <1>11 DEF Numbered
<1>14. /\ RoundOf(nvs_id)' = RoundOf(nvs_id) /\ RoundOf(parsed)' = RoundOf(parsed)
       /\ RoundOf(nvs_id) \in Nat /\ RoundOf(parsed) \in Nat
  BY <1>1 DEF RoundOf, GatewayTypeOK, NoId
<1>15. Behind(nvs_id)' /\ Behind(parsed)'
  <2>1. Behind(nvs_id) /\ Behind(parsed)
    BY DEF Rounds
  <2>2. Behind(nvs_id)'
    BY <2>1, <1>1, <1>2, <1>5, <1>10, <1>14, <1>t, <1>a DEF Behind
  <2>3. Behind(parsed)'
    BY <2>1, <1>1, <1>2, <1>5, <1>10, <1>14, <1>t, <1>a DEF Behind
  <2>. QED  BY <2>2, <2>3
<1>16. ASSUME NEW r, Announced(r)  PROVE Announced(r)'
  BY <1>16, <1>3, <1>10, <1>14 DEF Announced
<1>17. Announced(round)'
  <2>1. CASE what = NEW_GAME
    BY <2>1, <1>1, <1>3, <1>5 DEF Announced, OnTheWay
  <2>2. CASE what # NEW_GAME
    BY <2>2, <1>1, <1>16 DEF Rounds, Announced
  <2>. QED  BY <2>1, <2>2
<1>18. ASSUME NEW x \in Message, OnTheWay(x)', x.what \in Plies  PROVE Announced(x.round)'
  <2>1. CASE OnTheWay(x)
    BY <2>1, <1>16, <1>18 DEF Rounds
  <2>2. CASE x = m \/ x = g
    BY <2>2, <1>5, <1>17 DEF Announced
  <2>. QED  BY <1>10, <1>18, <2>1, <2>2
<1>. QED  BY <1>1, <1>12, <1>15, <1>17, <1>18 DEF Rounds
\* The response to a new game: the id stored is that of a game made before, or of
\* the one this request made.
LEMMA PostGameIds ==
    ASSUME GatewayTypeOK, SmakHttpPostGame
    PROVE  /\ parsed' \in {parsed, NoId, Len(games) + 1}
           /\ nvs_id' \in {nvs_id, parsed'}
           /\ nvs_id' # nvs_id => nvs_id' # NoId
           /\ parsed' = Len(games) + 1 => games' = Append(games, posting.msg.n)
           /\ games' = games \/ games' = Append(games, posting.msg.n)
           /\ lost \subseteq lost'
           /\ nvs_id' # Len(games) + 1 => posting.msg.n \in lost'
           /\ posting # None /\ posting.msg.what = NEW_GAME /\ posting' = None
           /\ UNCHANGED <<sent, round, send_queue, smak_http_req_queue>>
<1>1. PICK how \in {"answered", "cut", "refused", "silent"}, writes \in BOOLEAN :
        /\ RequestEnds(how)
        /\ posting.msg.what = NEW_GAME
        /\ parsed' \in Reads(how, Len(games) + 1)
        /\ SmakGameidStore(parsed', writes)
        /\ lost' = IF nvs_id' = Len(games) + 1 THEN lost ELSE lost \cup {posting.msg.n}
  BY DEF SmakHttpPostGame
<1>2. /\ nvs_id' \in {nvs_id, parsed'} /\ (nvs_id' # nvs_id => nvs_id' # NoId)
  BY <1>1 DEF SmakGameidStore
<1>3. NEW_GAME \notin Plies
  BY GatewayAssumption
<1>4. \/ (how \in {"answered", "cut"} /\ games' = Append(games, posting.msg.n))
      \/ (how \in {"refused", "silent"} /\ games' = games)
  BY <1>1, <1>3 DEF RequestEnds, ServiceHandles, tables
<1>5. Reads(how, Len(games) + 1) \subseteq {parsed, NoId, Len(games) + 1}
  BY <1>1 DEF Reads
<1>6. parsed \in 0..Len(games) /\ Len(games) \in Nat
  BY DEF GatewayTypeOK
<1>7. how \in {"refused", "silent"} => Reads(how, Len(games) + 1) \subseteq {parsed, NoId}
  BY <1>1 DEF Reads
<1>8. parsed' = Len(games) + 1 => games' = Append(games, posting.msg.n)
  BY <1>1, <1>4, <1>6, <1>7 DEF NoId
<1>. QED  BY <1>1, <1>2, <1>4, <1>5, <1>8 DEF RequestEnds, boardVars, readerVars

LEMMA PostGameRounds ==
    ASSUME Inv, SmakHttpPostGame
    PROVE  Numbered' /\ Rounds'
<1>. USE DEF Inv
<1>. DEFINE a == posting.msg
            n == a.n
<1>1. /\ parsed' \in {parsed, NoId, Len(games) + 1}
      /\ nvs_id' \in {nvs_id, parsed'}
      /\ nvs_id' # nvs_id => nvs_id' # NoId
      /\ parsed' = Len(games) + 1 => games' = Append(games, n)
      /\ games' = games \/ games' = Append(games, n)
      /\ lost \subseteq lost'
      /\ nvs_id' # Len(games) + 1 => n \in lost'
      /\ posting # None /\ a.what = NEW_GAME /\ posting' = None
      /\ UNCHANGED <<sent, round, send_queue, smak_http_req_queue>>
  BY PostGameIds
<1>t. /\ round \in Nat /\ Len(sent) \in Nat /\ games \in Seq(Nat) /\ Len(games) \in Nat
      /\ nvs_id \in 0..Len(games) /\ parsed \in 0..Len(games)
      /\ a \in Message /\ OnTheWay(a)
      /\ \A x \in Message : x.n \in Nat /\ x.round \in Nat
  BY <1>1 DEF GatewayTypeOK, Message, Request, OnTheWay
<1>2. a.n = a.round /\ n \in Nat /\ n <= round
  BY <1>1, <1>t DEF Numbered
<1>. HIDE DEF a
<1>3. \A x \in Message : OnTheWay(x)' =>
         /\ OnTheWay(x) /\ n <= x.round
         /\ x.what = NEW_GAME => n < x.n
  <2>1. ASSUME NEW x \in Message, OnTheWay(x)'
        PROVE  OnTheWay(x) /\ Ahead(a, x)
    BY <1>1, <2>1 DEF OnTheWay, Order, AheadOfAll, In, Commands, a
  <2>. QED  BY <2>1, <1>1, <1>2 DEF Ahead
<1>4. \A x \in Message : OnTheWay(x) => x = a \/ OnTheWay(x)'
  BY <1>1 DEF OnTheWay, Commands, a
<1>5. /\ RoundOf(nvs_id) \in Nat /\ RoundOf(parsed) \in Nat
      /\ RoundOf(nvs_id) < n
  BY <1>1, <1>t DEF RoundOf, NoId, Rounds, Behind
<1>6. /\ nvs_id' = nvs_id => RoundOf(nvs_id)' = RoundOf(nvs_id)
      /\ parsed' = parsed => RoundOf(parsed)' = RoundOf(parsed)
  <2>1. \A id \in 0..Len(games) :
           (IF id = NoId THEN 0 ELSE games'[id]) = (IF id = NoId THEN 0 ELSE games[id])
    BY <1>1, GamesGrow DEF RoundOf
  <2>2. nvs_id' = nvs_id => RoundOf(nvs_id)' = RoundOf(nvs_id)
    BY <1>t, <2>1 DEF RoundOf
  <2>3. parsed' = parsed => RoundOf(parsed)' = RoundOf(parsed)
    BY <1>t, <2>1 DEF RoundOf
  <2>. QED  BY <2>2, <2>3
<1>7. /\ parsed' = Len(games) + 1 => RoundOf(parsed)' = n
      /\ parsed' = NoId => RoundOf(parsed)' = 0
      /\ nvs_id' = parsed' => RoundOf(nvs_id)' = RoundOf(parsed)'
  BY <1>1, <1>t DEF RoundOf, NoId
<1>8. Numbered'
  BY <1>1, <1>3 DEF Numbered
<1>9. Behind(parsed)'
  <2>1. CASE parsed' = parsed
    BY <2>1, <1>1, <1>3, <1>6 DEF Rounds, Behind
  <2>2. CASE parsed' = NoId
    BY <2>2, <1>1, <1>2, <1>3, <1>7, <1>t DEF Behind
  <2>3. CASE parsed' = Len(games) + 1
    BY <2>3, <1>1, <1>2, <1>3, <1>7, <1>t DEF Behind
  <2>. QED  BY <1>1, <2>1, <2>2, <2>3
<1>10. Behind(nvs_id)'
  <2>1. CASE nvs_id' = nvs_id
    BY <2>1, <1>1, <1>3, <1>6 DEF Rounds, Behind
  <2>2. CASE nvs_id' = parsed'
    BY <2>2, <1>7, <1>9 DEF Behind
  <2>. QED  BY <1>1, <2>1, <2>2
<1>11. parsed' = NoId \/ parsed' >= nvs_id'
  BY <1>1, <1>t DEF Rounds
<1>12. ASSUME NEW r \in Nat, Announced(r), n <= r  PROVE Announced(r)'
  <2>1. CASE r \in lost
    BY <2>1, <1>1 DEF Announced
  <2>2. CASE \E x \in Message : x.what = NEW_GAME /\ x.n = r /\ OnTheWay(x)
    <3>1. PICK x \in Message : x.what = NEW_GAME /\ x.n = r /\ OnTheWay(x)
      BY <2>2
    <3>2. CASE OnTheWay(x)'
      BY <3>1, <3>2 DEF Announced
    <3>3. CASE x = a
      <4>1. r = n
        BY <3>1, <3>3
      <4>2. CASE n \in lost'
        BY <4>1, <4>2 DEF Announced
      <4>3. CASE nvs_id' = Len(games) + 1
        <5>1. RoundOf(nvs_id)' = n
          BY <4>3, <1>1, <1>7, <1>t
        <5>. QED  BY <4>1, <5>1 DEF Announced
      <4>. QED  BY <1>1, <4>2, <4>3
    <3>. QED  BY <3>1, <3>2, <3>3, <1>4
  <2>. QED  BY <1>2, <1>5, <1>12, <2>1, <2>2 DEF Announced
<1>13. Announced(round)'
  BY <1>1, <1>2, <1>12, <1>t DEF Rounds, Announced
<1>14. \A x \in Message : OnTheWay(x)' /\ x.what \in Plies => Announced(x.round)'
  BY <1>3, <1>12, <1>t DEF Rounds
<1>. QED  BY <1>8, <1>9, <1>10, <1>11, <1>13, <1>14 DEF Rounds

LEMMA RoundsStep ==
    ASSUME Inv, Next  PROVE Numbered' /\ Rounds'
<1>. USE DEF Inv
<1>t. /\ Commands \in Seq(Message) /\ send_queue \in Seq(Message)
      /\ posting # None => posting.msg \in Message
      /\ games \in Seq(Nat) /\ nvs_id \in 0..Len(games) /\ parsed \in 0..Len(games)
  BY DEF GatewayTypeOK, Request, Commands
<1>q. \A i \in 1..Len(send_queue) : send_queue[i].what # AUTH_TOKEN_GET
  BY DEF Numbered
<1>n. \A m \in Message : OnTheWay(m) /\ m.what = NEW_GAME => m.n \in Nat /\ m.n > 0
  BY GatewayAssumption DEF Numbered, Message
<1>1. ASSUME NEW what \in Plies \cup {NEW_GAME}, BoardSends(what)
      PROVE  Numbered' /\ Rounds'
  BY <1>1, SendsRounds
<1>2. CASE BoardRestarts
  <2>1. /\ Len(sent') = Len(sent) + 1 /\ round' = Len(sent') /\ lost' = lost \cup {round'}
        /\ UNCHANGED <<send_queue, smak_http_req_queue, posting, nvs_id, parsed, games>>
    BY <1>2 DEF BoardRestarts, readerVars, idVars, tables, GatewayTypeOK
  <2>2. \A m \in Message : OnTheWay(m)' <=> OnTheWay(m)
    BY <2>1 DEF OnTheWay, Commands
  <2>3. round \in Nat /\ Len(sent) \in Nat /\ round <= Len(sent)
        /\ \A m \in Message : m.n \in Nat /\ m.round \in Nat
    BY DEF GatewayTypeOK, Message
  <2>4. Numbered'
    BY <2>1, <2>2, <2>3 DEF Numbered
  <2>5. /\ RoundOf(nvs_id)' = RoundOf(nvs_id) /\ RoundOf(parsed)' = RoundOf(parsed)
        /\ RoundOf(nvs_id) \in Nat /\ RoundOf(parsed) \in Nat
    BY <1>t, <2>1 DEF RoundOf, NoId
  <2>6. Behind(nvs_id)'
    BY <2>1, <2>2, <2>3, <2>5 DEF Rounds, Behind
  <2>7. Behind(parsed)'
    BY <2>1, <2>2, <2>3, <2>5 DEF Rounds, Behind
  <2>8. Announced(round)'
    BY <2>1 DEF Announced
  <2>9. \A m \in Message : OnTheWay(m)' /\ m.what \in Plies => Announced(m.round)'
    BY <2>1, <2>2, <2>5 DEF Rounds, Announced
  <2>. QED  BY <2>1, <2>4, <2>6, <2>7, <2>8, <2>9 DEF Rounds
<1>3. CASE Quit
  <2>1. /\ send_queue' = <<>> /\ lost' = lost \cup Numbers(send_queue)
        /\ UNCHANGED <<sent, round, smak_http_req_queue, posting, nvs_id, parsed, games>>
    BY <1>3 DEF Quit, boardVars, idVars, tables
  <2>2. \A m \in Message : OnTheWay(m)' => OnTheWay(m)
    BY <2>1 DEF OnTheWay, Commands, In
  <2>3. \A m \in Message : OnTheWay(m) /\ m.what = NEW_GAME => OnTheWay(m)' \/ m.n \in lost'
    BY <2>1, <1>n, <1>t DEF OnTheWay, Commands, In, Numbers, Token
  <2>4. RoundOf(nvs_id)' = RoundOf(nvs_id) /\ RoundOf(parsed)' = RoundOf(parsed)
    BY <2>1 DEF RoundOf
  <2>. QED  BY <2>1, <2>2, <2>3, <2>4, WayShrinks
<1>4. CASE Restart
  <2>1. /\ send_queue' = <<>> /\ Commands' = <<Token>> /\ posting' = None
        /\ parsed' = NoId
        /\ lost' = lost \cup Numbers(send_queue) \cup Numbers(Commands)
                    \cup (IF posting = None THEN {} ELSE {posting.msg.n} \ {Token.n})
        /\ UNCHANGED <<sent, round, nvs_id, games>>
    BY <1>4 DEF Restart, boardVars, tables, Commands
  <2>2. \A m \in Message : OnTheWay(m)' => m = Token
    BY <2>1 DEF OnTheWay, In
  <2>3. \A m \in Message : OnTheWay(m) /\ m.what = NEW_GAME => m.n \in lost'
    BY <2>1, <1>n, <1>t DEF OnTheWay, In, Numbers, Token
  <2>4. RoundOf(nvs_id)' = RoundOf(nvs_id)
    BY <2>1 DEF RoundOf
  <2>5. \A i \in 1..Len(send_queue') : send_queue'[i].what # AUTH_TOKEN_GET
    BY <2>1
  <2>. QED  BY <2>1, <2>2, <2>3, <2>4, <2>5, WayShrinks
<1>5. CASE LateRequest
  <2>1. /\ UNCHANGED <<sent, round, send_queue, smak_http_req_queue, posting, nvs_id,
                       parsed, lost>>
        /\ \E n : games' = games \/ games' = Append(games, n)
    BY <1>5 DEF LateRequest, ServiceHandles, boardVars, readerVars, idVars
  <2>2. \A m \in Message : OnTheWay(m)' <=> OnTheWay(m)
    BY <2>1 DEF OnTheWay, Commands
  <2>3. RoundOf(nvs_id)' = RoundOf(nvs_id) /\ RoundOf(parsed)' = RoundOf(parsed)
    BY <2>1, <1>t, GamesGrow DEF RoundOf
  <2>. QED  BY <2>1, <2>2, <2>3, <1>q, WayShrinks
<1>6. CASE ReaderWakes
  <2>1. UNCHANGED <<sent, round, send_queue, smak_http_req_queue, posting, nvs_id, parsed,
                    lost, games>>
    BY <1>6 DEF ReaderWakes, boardVars, idVars, tables
  <2>2. \A m \in Message : OnTheWay(m)' <=> OnTheWay(m)
    BY <2>1 DEF OnTheWay, Commands
  <2>3. RoundOf(nvs_id)' = RoundOf(nvs_id) /\ RoundOf(parsed)' = RoundOf(parsed)
    BY <2>1 DEF RoundOf
  <2>. QED  BY <2>1, <2>2, <2>3, <1>q, WayShrinks
<1>7. CASE ReadMessage
  <2>. DEFINE m == Head(send_queue)
  <2>1. /\ send_queue # <<>> /\ send_queue' = Tail(send_queue)
        /\ IF m.what = GARBLED
           THEN lost' = lost \cup {m.n} /\ UNCHANGED smak_http_req_queue
           ELSE /\ smak_http_req_queue' = Enqueue(smak_http_req_queue, m)
                /\ lost' = IF IsFull(smak_http_req_queue) THEN lost \cup {m.n} ELSE lost
        /\ UNCHANGED <<sent, round, posting, nvs_id, parsed, games>>
    BY <1>7 DEF ReadMessage, boardVars, idVars, tables
  <2>2. /\ m \in Message
        /\ \A x : /\ In(send_queue', x) => In(send_queue, x)
                  /\ In(send_queue, x) => In(send_queue', x) \/ x = m
    BY <2>1, <1>t, TailFacts, InTail
  <2>3. /\ \A x : In(Commands', x) => In(Commands, x) \/ x = m
        /\ \A x : In(Commands, x) => In(Commands', x)
        /\ In(Commands', m) \/ m.n \in lost'
    <3>1. Len(Commands) <= QueueLength
      BY DEF GatewayTypeOK, Commands
    <3>. HIDE DEF m
    <3>2. \A x : /\ In(Enqueue(Commands, m), x) => In(Commands, x) \/ x = m
                 /\ In(Commands, x) => In(Enqueue(Commands, m), x)
                 /\ ~IsFull(Commands) => In(Enqueue(Commands, m), m)
      BY <2>2, <3>1, <1>t, InEnqueue
    <3>. QED  BY <2>1, <3>2 DEF Commands
  <2>4. In(send_queue, m)
    BY <2>1, <1>t, InTail
  <2>5. \A x \in Message : OnTheWay(x)' => OnTheWay(x)
    BY <2>1, <2>2, <2>3, <2>4 DEF OnTheWay
  <2>6. \A x \in Message : OnTheWay(x) => OnTheWay(x)' \/ x.n \in lost'
    BY <2>1, <2>2, <2>3 DEF OnTheWay
  <2>7. RoundOf(nvs_id)' = RoundOf(nvs_id) /\ RoundOf(parsed)' = RoundOf(parsed)
    BY <2>1 DEF RoundOf
  <2>8. \A i \in 1..Len(send_queue') : send_queue'[i].what # AUTH_TOKEN_GET
    BY <2>1, <1>q, <1>t, TailFacts
  <2>9. lost \subseteq lost'
    BY <2>1
  <2>. QED  BY <2>1, <2>5, <2>6, <2>7, <2>8, <2>9, WayShrinks
<1>8. CASE NextCommand
  <2>1. /\ Commands # <<>> /\ Commands' = Tail(Commands) /\ posting = None /\ posting' # None
        /\ posting'.msg = Head(Commands)
        /\ UNCHANGED <<sent, round, send_queue, nvs_id, parsed, lost, games>>
    <3>1. [msg |-> Head(smak_http_req_queue), id |-> nvs_id] \in Request
      BY <1>8, <1>t, TailFacts DEF NextCommand, Commands, Request
    <3>. QED  BY <1>8, <3>1, NoneAssumption
              DEF NextCommand, Commands, boardVars, readerVars, idVars, tables
  <2>2. \A x : /\ In(Commands', x) => In(Commands, x)
               /\ In(Commands, x) => In(Commands', x) \/ x = Head(Commands)
               /\ In(Commands, Head(Commands))
    BY <2>1, <1>t, InTail
  <2>3. \A m \in Message : OnTheWay(m)' <=> OnTheWay(m)
    BY <2>1, <2>2 DEF OnTheWay
  <2>4. RoundOf(nvs_id)' = RoundOf(nvs_id) /\ RoundOf(parsed)' = RoundOf(parsed)
    BY <2>1 DEF RoundOf
  <2>. QED  BY <2>1, <2>3, <2>4, <1>q, WayShrinks
<1>9. CASE TokenEnds \/ SmakHttpPostMove
  <2>1. /\ posting # None /\ posting.msg.what # NEW_GAME /\ posting' = None
        /\ lost \subseteq lost'
        /\ UNCHANGED <<sent, round, send_queue, smak_http_req_queue, nvs_id, parsed, games>>
    <3>1. CASE TokenEnds
      BY <3>1, GatewayAssumption DEF TokenEnds, boardVars, readerVars, idVars, tables
    <3>2. CASE SmakHttpPostMove
      BY <3>2, GatewayAssumption
         DEF SmakHttpPostMove, RequestEnds, ServiceHandles, boardVars, readerVars, tables
    <3>. QED  BY <1>9, <3>1, <3>2
  <2>2. \A m \in Message : /\ OnTheWay(m)' => OnTheWay(m)
                           /\ OnTheWay(m) /\ m.what = NEW_GAME => OnTheWay(m)'
    BY <2>1 DEF OnTheWay, Commands
  <2>3. RoundOf(nvs_id)' = RoundOf(nvs_id) /\ RoundOf(parsed)' = RoundOf(parsed)
    BY <2>1 DEF RoundOf
  <2>. QED  BY <2>1, <2>2, <2>3, <1>q, WayShrinks
<1>10. CASE SmakHttpPostGame
  BY <1>10, PostGameRounds
<1>. QED  BY <1>1, <1>2, <1>3, <1>4, <1>5, <1>6, <1>7, <1>8, <1>9, <1>10
          DEF Next, ReadQueueTask, ConnectivityTask
-----------------------------------------------------------------------------
(* Requests, and the moves they store *)

\* The move the gateway carries out fits the game id it read.
LEMMA PostingFits ==
    ASSUME Inv, posting # None, posting.msg.what \in Plies, posting.id # NoId
    PROVE  /\ Fits(posting.id, posting.msg.round)
           /\ posting.id \in 1..Len(games)
<1>. USE DEF Inv
<1>. DEFINE a == posting.msg
<1>1. /\ a \in Message /\ a.n \in Nat /\ a.round \in Nat
      /\ \A x \in Message : x.n \in Nat /\ x.round \in Nat
  BY DEF GatewayTypeOK, Request, Message
<1>2. OnTheWay(a) /\ posting.id = nvs_id /\ nvs_id \in 0..Len(games)
  BY <1>1 DEF OnTheWay, Requests, GatewayTypeOK
<1>. HIDE DEF a
<1>3. RoundOf(nvs_id) = games[posting.id] /\ RoundOf(nvs_id) <= a.round /\ Announced(a.round)
  BY <1>1, <1>2 DEF a, RoundOf, Rounds, Behind
<1>4. posting.id \in 1..Len(games) /\ games[posting.id] \in Nat
  BY <1>2 DEF GatewayTypeOK, NoId
<1>5. CASE a.round \in lost
  BY <1>1, <1>3, <1>4, <1>5 DEF Fits, a
<1>6. ASSUME NEW x \in Message, x.what = NEW_GAME, x.n = a.round, OnTheWay(x)  PROVE FALSE
  <2>1. x # a
    BY <1>6, GatewayAssumption DEF a
  <2>2. Ahead(a, x)
    BY <1>6, <2>1 DEF OnTheWay, Order, AheadOfAll, In, a
  <2>. QED  BY <1>1, <1>6, <2>2 DEF Ahead
<1>. QED  BY <1>3, <1>4, <1>5, <1>6 DEF Fits, Announced, a

\* What a request changes in the tables.
LEMMA HandledFacts ==
    ASSUME NEW p, ServiceHandles(p)
    PROVE  /\ games' = games \/ (games' = Append(games, p.msg.n) /\ p.msg.what = NEW_GAME)
           /\ \A mv \in moves' : \/ mv \in moves
                                 \/ (/\ p.msg.what \in Plies /\ p.id \in DOMAIN games
                                     /\ mv = Row(p))
BY DEF ServiceHandles, Upsert, Replaced

\* What a step may change: games are added, and rows come from requests.
LEMMA TablesStep ==
    ASSUME GatewayTypeOK, Numbered, Next
    PROVE  /\ lost \subseteq lost' /\ sent' \in Seq(Plies \cup {NEW_GAME})
           /\ Len(sent) <= Len(sent') /\ Len(sent') <= MaxMessages
           /\ \E n \in Nat : games' = games \/ games' = Append(games, n)
           /\ \A p \in late' : p \in late \/ (posting # None /\ p = posting)
           /\ \A mv \in moves' :
                 \/ mv \in moves
                 \/ \E p \in Request :
                       /\ p \in late \/ (posting # None /\ p = posting)
                       /\ p.msg.what \in Plies /\ p.id \in DOMAIN games
                       /\ mv = Row(p)
<1>t. /\ sent \in Seq(Plies \cup {NEW_GAME}) /\ Len(sent) \in Nat /\ MaxMessages \in Nat
      /\ Len(sent) <= MaxMessages
      /\ \A p \in Request : p.msg.n \in Nat
      /\ late \subseteq Request /\ (posting # None => posting \in Request)
  BY GatewayAssumption DEF GatewayTypeOK, Request, Message
<1>1. ASSUME NEW what \in Plies \cup {NEW_GAME}, BoardSends(what)
      PROVE  /\ lost \subseteq lost' /\ UNCHANGED <<games, moves, late>>
             /\ sent' = Append(sent, what) /\ Len(sent) + 1 <= MaxMessages
  BY <1>1 DEF BoardSends, HandleRx, tables
<1>2. CASE BoardRestarts
  BY <1>2, <1>t DEF BoardRestarts, tables
<1>3. CASE Quit
  BY <1>3, <1>t DEF Quit, tables, boardVars
<1>4. CASE Restart
  BY <1>4, <1>t DEF Restart, tables, boardVars
<1>5. CASE LateRequest
  <2>1. PICK p \in late : late' = late \ {p} /\ ServiceHandles(p)
    BY <1>5 DEF LateRequest
  <2>2. UNCHANGED <<sent, lost>>
    BY <1>5 DEF LateRequest, boardVars
  <2>. QED  BY <2>1, <2>2, <1>t, HandledFacts
<1>6. CASE ReadQueueTask
  BY <1>6, <1>t DEF ReadQueueTask, ReaderWakes, ReadMessage, tables, boardVars
<1>7. CASE NextCommand \/ TokenEnds
  BY <1>7, <1>t DEF NextCommand, TokenEnds, tables, boardVars
<1>8. CASE SmakHttpPostMove \/ SmakHttpPostGame
  <2>1. PICK how : RequestEnds(how)
    BY <1>8 DEF SmakHttpPostMove, SmakHttpPostGame
  <2>2. lost \subseteq lost' /\ UNCHANGED sent
    BY <1>8, <2>1 DEF SmakHttpPostMove, SmakHttpPostGame, RequestEnds, boardVars
  <2>3. posting # None /\ \A p \in late' : p \in late \/ p = posting
    BY <2>1 DEF RequestEnds
  <2>4. CASE how \in {"answered", "cut"}
    <3>1. ServiceHandles(posting)
      BY <2>1, <2>4 DEF RequestEnds
    <3>. QED  BY <2>2, <2>3, <3>1, <1>t, HandledFacts
  <2>5. CASE how \notin {"answered", "cut"}
    <3>1. UNCHANGED <<games, moves>>
      BY <2>1, <2>5 DEF RequestEnds, tables
    <3>. QED  BY <2>2, <2>3, <3>1, <1>t
  <2>. QED  BY <2>4, <2>5
<1>9. ASSUME NEW what \in Plies \cup {NEW_GAME}, BoardSends(what)
      PROVE  /\ sent' \in Seq(Plies \cup {NEW_GAME})
             /\ Len(sent) <= Len(sent') /\ Len(sent') <= MaxMessages
  BY <1>1, <1>9, <1>t
<1>. QED  BY <1>1, <1>2, <1>3, <1>4, <1>5, <1>6, <1>7, <1>8, <1>9, <1>t
          DEF Next, ConnectivityTask

\* A step leaves the command that is carried out, ends it, or begins the next one.
LEMMA PostingStep ==
    ASSUME GatewayTypeOK, Next
    PROVE  \/ posting' = None
           \/ UNCHANGED <<posting, nvs_id>>
           \/ (/\ Commands # <<>> /\ posting' = [msg |-> Head(Commands), id |-> nvs_id]
               /\ UNCHANGED nvs_id)
<1>1. ASSUME NEW what \in Plies \cup {NEW_GAME}, BoardSends(what)
      PROVE  UNCHANGED <<posting, nvs_id>>
  BY <1>1 DEF BoardSends, idVars
<1>2. CASE BoardRestarts \/ Quit \/ ReadQueueTask
  BY <1>2 DEF BoardRestarts, Quit, ReadQueueTask, ReaderWakes, ReadMessage, idVars
<1>3. CASE LateRequest
  BY <1>3 DEF LateRequest, idVars
<1>4. CASE Restart \/ TokenEnds \/ SmakHttpPostMove \/ SmakHttpPostGame
  BY <1>4 DEF Restart, TokenEnds, SmakHttpPostMove, SmakHttpPostGame, RequestEnds
<1>5. CASE NextCommand
  BY <1>5 DEF NextCommand, idVars, Commands
<1>. QED  BY <1>1, <1>2, <1>3, <1>4, <1>5 DEF Next, ConnectivityTask

LEMMA RequestsStep ==
    ASSUME Inv, Next  PROVE Requests'
<1>. USE DEF Inv
<1>t. /\ games \in Seq(Nat) /\ late \subseteq Request /\ nvs_id \in 0..Len(games)
      /\ (posting # None => posting \in Request)
      /\ \A p \in Request : p.id \in Nat
      /\ \A mv \in moves : mv.id \in DOMAIN games
  BY DEF GatewayTypeOK, Request
<1>1. posting' # None => posting'.id = nvs_id'
  BY PostingStep DEF Requests
<1>2. PICK n \in Nat : games' = games \/ games' = Append(games, n)
  BY TablesStep
<1>3. /\ Len(games) <= Len(games')
      /\ \A id \in 1..Len(games) : games'[id] = games[id]
  BY <1>t, <1>2, GamesGrow DEF NoId
<1>4. ASSUME NEW id \in 1..Len(games), NEW r, games[id] = r \/ (games[id] < r /\ r \in lost)
      PROVE  games'[id] = r \/ (games'[id] < r /\ r \in lost')
  BY <1>3, <1>4, TablesStep
<1>5. ASSUME NEW p \in Request, p \in late \/ (posting # None /\ p = posting)
      PROVE  /\ p.id <= Len(games)
             /\ p.msg.what \in Plies /\ p.id # NoId => Fits(p.id, p.msg.round)
  <2>1. CASE p \in late
    BY <2>1 DEF Requests
  <2>2. CASE posting # None /\ p = posting
    BY <2>2, <1>t, PostingFits DEF Requests
  <2>. QED  BY <1>5, <2>1, <2>2
<1>6. ASSUME NEW p \in Request, p \in late \/ (posting # None /\ p = posting)
      PROVE  /\ p.id <= Len(games')
             /\ p.msg.what \in Plies /\ p.id # NoId => Fits(p.id, p.msg.round)'
  <2>1. p.id <= Len(games')
    BY <1>3, <1>5, <1>6, <1>t
  <2>2. ASSUME p.msg.what \in Plies, p.id # NoId  PROVE Fits(p.id, p.msg.round)'
    <3>1. p.id \in 1..Len(games)
      BY <1>5, <1>6, <1>t, <2>2 DEF NoId
    <3>. QED  BY <1>4, <1>5, <1>6, <2>2, <3>1 DEF Fits
  <2>. QED  BY <2>1, <2>2
<1>7. ASSUME NEW p \in late'
      PROVE  /\ p.id <= Len(games')
             /\ p.msg.what \in Plies /\ p.id # NoId => Fits(p.id, p.msg.round)'
  <2>1. p \in late \/ (posting # None /\ p = posting)
    BY <1>7, TablesStep
  <2>2. p \in Request
    BY <2>1, <1>t
  <2>. QED  BY <1>6, <2>1, <2>2
<1>8. ASSUME NEW mv \in moves'  PROVE Fits(mv.id, mv.round)'
  <2>1. CASE mv \in moves
    <3>1. mv.id \in 1..Len(games) /\ Fits(mv.id, mv.round)
      BY <2>1, <1>t DEF Requests
    <3>. QED  BY <1>4, <3>1 DEF Fits
  <2>2. CASE \E p \in Request :
                /\ p \in late \/ (posting # None /\ p = posting)
                /\ p.msg.what \in Plies /\ p.id \in DOMAIN games
                /\ mv = Row(p)
    <3>1. PICK p \in Request :
                /\ p \in late \/ (posting # None /\ p = posting)
                /\ p.msg.what \in Plies /\ p.id \in DOMAIN games
                /\ mv = Row(p)
      BY <2>2
    <3>2. mv.id = p.id /\ mv.round = p.msg.round /\ p.id # NoId
      BY <3>1, <1>t DEF Row, NoId
    <3>. QED  BY <1>6, <3>1, <3>2
  <2>. QED  BY <1>8, <2>1, <2>2, TablesStep
<1>. QED  BY <1>1, <1>7, <1>8 DEF Requests
-----------------------------------------------------------------------------
(* Types *)

\* Messages that are on their way, as the database and the history number them.
LEMMA NumbersFit ==
    ASSUME GatewayTypeOK, Numbered
    PROVE  /\ Numbers(send_queue) \subseteq 1..Len(sent)
           /\ Numbers(Commands) \subseteq 1..Len(sent)
           /\ posting # None => posting.msg.n \in 0..Len(sent)
           /\ posting # None /\ posting.msg.what # AUTH_TOKEN_GET =>
                 posting.msg.n \in 1..Len(sent)
<1>1. \A m \in Message : OnTheWay(m) =>
         /\ m.n \in 0..Len(sent)
         /\ m.what # AUTH_TOKEN_GET => m.n \in 1..Len(sent)
  BY DEF Numbered, GatewayTypeOK, Message
<1>2. /\ \A i \in DOMAIN send_queue : send_queue[i] \in Message /\ OnTheWay(send_queue[i])
      /\ \A i \in DOMAIN Commands : Commands[i] \in Message /\ OnTheWay(Commands[i])
      /\ posting # None => posting.msg \in Message /\ OnTheWay(posting.msg)
  BY DEF GatewayTypeOK, Request, OnTheWay, In, Commands
<1>. QED  BY <1>1, <1>2 DEF Numbers, Token

LEMMA SendsType ==
    ASSUME Inv, NEW what \in Plies \cup {NEW_GAME}, BoardSends(what)
    PROVE  /\ round' \in 0..Len(sent')
           /\ send_queue' \in Seq(Message) /\ Len(send_queue') <= QueueLength
           /\ lost' \subseteq 1..Len(sent')
<1>. DEFINE m == [n |-> Len(sent) + 1, round |-> round', what |-> what]
            g == [m EXCEPT !.what = GARBLED]
<1>0. PICK pieces \in 0..2 : HandleRx(m, pieces)
  BY DEF BoardSends
<1>t. /\ round \in 0..Len(sent) /\ Len(sent) \in Nat /\ sent \in Seq(Plies \cup {NEW_GAME})
      /\ send_queue \in Seq(Message) /\ Len(send_queue) <= QueueLength
      /\ lost \subseteq 1..Len(sent)
  BY DEF Inv, GatewayTypeOK
<1>1. Len(sent') = Len(sent) + 1 /\ round' \in 0..Len(sent')
  BY <1>t DEF BoardSends
<1>2. g = [n |-> Len(sent) + 1, round |-> round', what |-> GARBLED]
  OBVIOUS
<1>3. m \in Message /\ g \in Message /\ m.n = Len(sent')
  BY <1>1, <1>2, <1>t DEF Message
<1>. HIDE DEF m, g
<1>4. lost' \subseteq 1..Len(sent')
  BY <1>0, <1>1, <1>3, <1>t DEF HandleRx
<1>5. send_queue' \in Seq(Message) /\ Len(send_queue') <= QueueLength
  <2>1. CASE pieces = 0
    BY <1>0, <2>1, <1>t DEF HandleRx
  <2>2. CASE pieces = 1
    <3>1. send_queue' = Enqueue(send_queue, m)
      BY <1>0, <2>2 DEF HandleRx
    <3>. QED  BY <3>1, <1>3, <1>t, EnqueueFacts
  <2>3. CASE pieces = 2
    <3>. DEFINE e == Enqueue(send_queue, g)
    <3>1. send_queue' = Enqueue(e, g)
      BY <1>0, <2>3 DEF HandleRx, g
    <3>2. e \in Seq(Message) /\ Len(e) <= QueueLength
      BY <1>3, <1>t, EnqueueFacts
    <3>. HIDE DEF e
    <3>. QED  BY <3>1, <3>2, <1>3, EnqueueFacts
  <2>. QED  BY <2>1, <2>2, <2>3
<1>. QED  BY <1>1, <1>4, <1>5

\* The board's messages and the two queues.
LEMMA QueuesType ==
    ASSUME Inv, Next
    PROVE  /\ round' \in 0..Len(sent')
           /\ send_queue' \in Seq(Message) /\ Len(send_queue') <= QueueLength
           /\ running' \in BOOLEAN /\ reader' \in {"delay", "receive", "done"}
           /\ Commands' \in Seq(Message) /\ Len(Commands') <= QueueLength
<1>t. /\ round \in 0..Len(sent) /\ Len(sent) \in Nat /\ sent \in Seq(Plies \cup {NEW_GAME})
      /\ send_queue \in Seq(Message) /\ Len(send_queue) <= QueueLength
      /\ Commands \in Seq(Message) /\ Len(Commands) <= QueueLength
      /\ running \in BOOLEAN /\ reader \in {"delay", "receive", "done"}
      /\ QueueLength \in Nat \ {0}
  BY GatewayAssumption DEF Inv, GatewayTypeOK, Commands
<1>1. ASSUME NEW what \in Plies \cup {NEW_GAME}, BoardSends(what)
      PROVE  UNCHANGED <<running, reader, smak_http_req_queue>>
  BY <1>1 DEF BoardSends
<1>2. CASE BoardRestarts
  BY <1>2, <1>t DEF BoardRestarts, readerVars, Commands
<1>3. CASE Quit
  <2>1. /\ send_queue' = <<>> /\ running' = FALSE
        /\ UNCHANGED <<sent, round, reader, smak_http_req_queue>>
    BY <1>3 DEF Quit, boardVars
  <2>2. send_queue' \in Seq(Message) /\ Len(send_queue') = 0
    BY <2>1
  <2>3. running' \in BOOLEAN
    BY <2>1
  <2>. QED  BY <2>1, <2>2, <2>3, <1>t DEF Commands
<1>4. CASE Restart
  <2>1. Token \in Message
    BY DEF Token, Message
  <2>2. <<Token>> \in Seq(Message) /\ Len(<<Token>>) = 1
    BY <2>1
  <2>. QED  BY <1>4, <2>2, <1>t DEF Restart, boardVars, Commands
<1>5. CASE LateRequest
  BY <1>5, <1>t DEF LateRequest, boardVars, readerVars, Commands
<1>6. CASE ReaderWakes
  BY <1>6, <1>t DEF ReaderWakes, boardVars, Commands
<1>7. CASE ReadMessage
  <2>1. /\ send_queue # <<>> /\ send_queue' = Tail(send_queue) /\ reader' = "delay"
        /\ UNCHANGED <<sent, round, running>>
        /\ Commands' = Commands \/ Commands' = Enqueue(Commands, Head(send_queue))
    BY <1>7 DEF ReadMessage, boardVars, Commands
  <2>2. /\ Head(send_queue) \in Message
        /\ send_queue' \in Seq(Message) /\ Len(send_queue') <= QueueLength
    BY <2>1, <1>t, TailFacts
  <2>3. Commands' \in Seq(Message) /\ Len(Commands') <= QueueLength
    <3>. DEFINE h == Head(send_queue)
                e == Enqueue(Commands, h)
    <3>1. e \in Seq(Message) /\ Len(e) <= QueueLength
      BY <2>2, <1>t, EnqueueFacts
    <3>. QED  BY <2>1, <3>1, <1>t
  <2>. QED  BY <2>1, <2>2, <2>3, <1>t
<1>8. CASE NextCommand
  <2>1. Commands # <<>> /\ Commands' = Tail(Commands)
    BY <1>8 DEF NextCommand, Commands
  <2>2. Commands' \in Seq(Message) /\ Len(Commands') <= QueueLength
    BY <2>1, <1>t, TailFacts
  <2>. QED  BY <1>8, <2>2, <1>t DEF NextCommand, boardVars, readerVars
<1>9. CASE TokenEnds \/ SmakHttpPostMove \/ SmakHttpPostGame
  BY <1>9, <1>t DEF TokenEnds, SmakHttpPostMove, SmakHttpPostGame, RequestEnds, boardVars,
                    readerVars, Commands
<1>. QED  BY <1>1, <1>2, <1>3, <1>4, <1>5, <1>6, <1>7, <1>8, <1>9, <1>t, SendsType
          DEF Next, ReadQueueTask, ConnectivityTask, Commands

\* The game ids and the copy of the one in flash.
LEMMA IdsType ==
    ASSUME Inv, Next
    PROVE  /\ games' \in Seq(Nat) /\ nvs_id' \in 0..Len(games')
           /\ current_id' \in {NoId, nvs_id'} /\ parsed' \in 0..Len(games')
           /\ idx' \in BOOLEAN
<1>t. /\ games \in Seq(Nat) /\ Len(games) \in Nat /\ nvs_id \in 0..Len(games)
      /\ current_id \in {NoId, nvs_id} /\ parsed \in 0..Len(games) /\ idx \in BOOLEAN
  BY DEF Inv, GatewayTypeOK
<1>1. PICK n \in Nat : games' = games \/ games' = Append(games, n)
  BY TablesStep DEF Inv
<1>2. /\ games' \in Seq(Nat) /\ Len(games') \in Nat
      /\ \A id \in 0..Len(games) : id \in 0..Len(games')
  <2>1. games' \in Seq(Nat) /\ Len(games') >= Len(games) /\ Len(games') \in Nat
    BY <1>1, <1>t, GamesGrow DEF Inv, NoId
  <2>. QED  BY <2>1, <1>t
<1>3. CASE UNCHANGED idVars
  BY <1>2, <1>3, <1>t DEF idVars
<1>4. CASE Restart
  <2>1. /\ UNCHANGED <<games, nvs_id>>
        /\ current_id' = NoId /\ parsed' = NoId /\ idx' = FALSE
    BY <1>4 DEF Restart, tables
  <2>2. idx' \in BOOLEAN
    BY <2>1
  <2>. QED  BY <2>1, <2>2, <1>t DEF NoId
<1>5. CASE SmakHttpPostMove
  <2>1. idx' \in BOOLEAN /\ UNCHANGED <<nvs_id, current_id, parsed>>
    BY <1>5, <1>t DEF SmakHttpPostMove, RequestEnds, IdxAfter
  <2>. QED  BY <2>1, <1>2, <1>t
<1>6. CASE SmakHttpPostGame
  <2>1. /\ parsed' \in {parsed, NoId, Len(games) + 1}
        /\ nvs_id' \in {nvs_id, parsed'}
        /\ parsed' = Len(games) + 1 => games' = Append(games, posting.msg.n)
    BY <1>6, PostGameIds DEF Inv
  <2>2. posting # None /\ posting.msg.n \in Nat
    BY <1>6 DEF SmakHttpPostGame, RequestEnds, Inv, GatewayTypeOK, Request, Message
  <2>3. parsed' \in 0..Len(games') /\ nvs_id' \in 0..Len(games')
    BY <2>1, <2>2, <1>2, <1>t DEF NoId
  <2>4. idx' \in BOOLEAN /\ current_id' \in {NoId, nvs_id'}
    <3>1. PICK how \in {"answered", "cut", "refused", "silent"}, writes \in BOOLEAN :
             RequestEnds(how) /\ SmakGameidStore(parsed', writes)
      BY <1>6 DEF SmakHttpPostGame
    <3>2. idx' \in BOOLEAN
      BY <3>1, <1>t DEF RequestEnds, IdxAfter
    <3>3. current_id' \in {NoId, nvs_id'}
      BY <3>1, <1>t DEF SmakGameidStore
    <3>. QED  BY <3>2, <3>3
  <2>. QED  BY <2>3, <2>4, <1>2
<1>7. ASSUME NEW what \in Plies \cup {NEW_GAME}, BoardSends(what)  PROVE UNCHANGED idVars
  BY <1>7 DEF BoardSends
<1>8. CASE BoardRestarts \/ Quit \/ LateRequest \/ ReadQueueTask \/ NextCommand \/ TokenEnds
  BY <1>3, <1>8 DEF BoardRestarts, Quit, LateRequest, ReadQueueTask, ReaderWakes,
                    ReadMessage, NextCommand, TokenEnds
<1>. QED  BY <1>3, <1>4, <1>5, <1>6, <1>7, <1>8 DEF Next, ConnectivityTask

LEMMA TypeStep ==
    ASSUME Inv, Next  PROVE GatewayTypeOK'
<1>t. /\ games \in Seq(Nat) /\ late \subseteq Request /\ nvs_id \in 0..Len(games)
      /\ (posting # None => posting \in Request)
      /\ moves \subseteq [id : DOMAIN games, ply : Plies, n : Nat, round : Nat]
      /\ lost \subseteq 1..Len(sent) /\ tried \in 0..Len(sent) /\ Len(sent) \in Nat
      /\ Commands \in Seq(Message) /\ posting \in Request \cup {None}
  BY DEF Inv, GatewayTypeOK, Commands
<1>1. Len(sent') \in Nat /\ Len(sent) <= Len(sent')
  BY <1>t, TablesStep DEF Inv
<1>2. posting' \in Request \cup {None}
  BY <1>t, PostingStep, TailFacts DEF Inv, Request
<1>3. late' \subseteq Request
  BY <1>t, TablesStep DEF Inv
<1>4. moves' \subseteq [id : DOMAIN games', ply : Plies, n : Nat, round : Nat]
  <2>1. DOMAIN games \subseteq DOMAIN games'
    <3>1. PICK n \in Nat : games' = games \/ games' = Append(games, n)
      BY TablesStep DEF Inv
    <3>2. games' \in Seq(Nat) /\ Len(games) <= Len(games') /\ Len(games') \in Nat
      BY <3>1, <1>t, GamesGrow DEF Inv, NoId
    <3>. QED  BY <3>2, <1>t
  <2>2. ASSUME NEW p \in Request, p.msg.what \in Plies, p.id \in DOMAIN games
        PROVE  Row(p) \in [id : DOMAIN games', ply : Plies, n : Nat, round : Nat]
    BY <2>1, <2>2 DEF Row, Request, Message
  <2>3. ASSUME NEW mv \in moves'
        PROVE  mv \in [id : DOMAIN games', ply : Plies, n : Nat, round : Nat]
    <3>1. mv \in moves \/ \E p \in Request :
             p.msg.what \in Plies /\ p.id \in DOMAIN games /\ mv = Row(p)
      BY <2>3, TablesStep DEF Inv
    <3>2. CASE mv \in moves
      <4>1. mv \in [id : DOMAIN games, ply : Plies, n : Nat, round : Nat]
        BY <3>2, <1>t
      <4>. QED  BY <4>1, <2>1
    <3>. QED  BY <3>1, <3>2, <2>2
  <2>. QED  BY <2>3
<1>5. lost' \subseteq 1..Len(sent')
  <2>1. /\ Numbers(send_queue) \subseteq 1..Len(sent)
        /\ Numbers(Commands) \subseteq 1..Len(sent)
        /\ posting # None => posting.msg.n \in 0..Len(sent)
        /\ posting # None /\ posting.msg.what # AUTH_TOKEN_GET => posting.msg.n \in 1..Len(sent)
    BY NumbersFit DEF Inv
  <2>2. ASSUME NEW what \in Plies \cup {NEW_GAME}, BoardSends(what)
        PROVE  lost' \subseteq 1..Len(sent')
    BY <2>2, SendsType
  <2>3. CASE BoardRestarts
    <3>1. /\ sent' = Append(sent, NEW_GAME) /\ lost' = lost \cup {Len(sent')}
          /\ sent \in Seq(Plies \cup {NEW_GAME})
      BY <2>3 DEF BoardRestarts, GatewayTypeOK, Inv
    <3>2. Len(sent') = Len(sent) + 1
      BY <3>1
    <3>3. lost' = lost \cup {Len(sent')}
      BY <3>1
    <3>4. Len(sent') \in 1..Len(sent') /\ 1..Len(sent) \subseteq 1..Len(sent')
      BY <3>2, <1>t
    <3>5. lost \subseteq 1..Len(sent)
      BY <1>t
    <3>. QED  BY <3>3, <3>4, <3>5
  <2>4. CASE Quit
    BY <2>1, <2>4, <1>t DEF Quit, boardVars
  <2>5. CASE Restart
    <3>1. /\ UNCHANGED sent
          /\ lost' = lost \cup Numbers(send_queue) \cup Numbers(Commands)
                    \cup (IF posting = None THEN {} ELSE {posting.msg.n} \ {0})
      BY <2>5 DEF Restart, boardVars, Token, Commands
    <3>2. (IF posting = None THEN {} ELSE {posting.msg.n} \ {0}) \subseteq 1..Len(sent)
      BY <2>1, <1>t
    <3>. QED  BY <2>1, <3>1, <3>2, <1>t
  <2>6. CASE LateRequest \/ ReaderWakes \/ NextCommand \/ TokenEnds
    BY <2>6, <1>t DEF LateRequest, ReaderWakes, NextCommand, TokenEnds, boardVars
  <2>7. CASE ReadMessage
    <3>1. send_queue # <<>> /\ lost' \subseteq lost \cup {Head(send_queue).n} /\ UNCHANGED sent
      BY <2>7 DEF ReadMessage, boardVars
    <3>2. send_queue \in Seq(Message) /\ 1 \in 1..Len(send_queue)
          /\ Head(send_queue) = send_queue[1]
      BY <3>1, TailFacts DEF Inv, GatewayTypeOK
    <3>3. Head(send_queue).n \in Numbers(send_queue)
      <4>1. Head(send_queue) \in Message /\ OnTheWay(Head(send_queue))
        BY <3>2 DEF OnTheWay, In
      <4>2. Head(send_queue).what # AUTH_TOKEN_GET
        BY <3>2 DEF Inv, Numbered
      <4>3. Head(send_queue).n > 0
        BY <4>1, <4>2 DEF Inv, Numbered
      <4>. QED  BY <3>2, <4>3 DEF Numbers, Token
    <3>. QED  BY <2>1, <3>1, <3>3, <1>t
  <2>8. CASE SmakHttpPostMove \/ SmakHttpPostGame
    <3>1. /\ lost' \subseteq lost \cup {posting.msg.n} /\ UNCHANGED sent
          /\ posting # None /\ posting.msg.what # AUTH_TOKEN_GET
      BY <2>8 DEF SmakHttpPostMove, SmakHttpPostGame, RequestEnds, boardVars
    <3>. QED  BY <2>1, <3>1, <1>t
  <2>. QED  BY <2>2, <2>3, <2>4, <2>5, <2>6, <2>7, <2>8
            DEF Next, ReadQueueTask, ConnectivityTask
<1>6. tried' \in 0..Len(sent')
  <2>1. CASE NextCommand
    <3>1. /\ Commands # <<>> /\ UNCHANGED sent
          /\ posting' = [msg |-> Head(Commands), id |-> nvs_id]
          /\ tried' = (IF posting'.msg.what = AUTH_TOKEN_GET THEN tried ELSE posting'.msg.n)
      BY <2>1 DEF NextCommand, Commands, boardVars
    <3>2. /\ Head(Commands) = Commands[1] /\ Head(Commands) \in Message
          /\ OnTheWay(Head(Commands))
      BY <3>1, <1>t, TailFacts DEF OnTheWay, In
    <3>3. Head(Commands).n \in 0..Len(sent)
      <4>1. Head(Commands).n <= Len(sent)
        BY <3>2 DEF Inv, Numbered
      <4>2. Head(Commands).n \in Nat
        BY <3>2 DEF Message
      <4>. QED  BY <4>1, <4>2, <1>t
    <3>. QED  BY <3>1, <3>3, <1>t
  <2>2. ASSUME NEW what \in Plies \cup {NEW_GAME}, BoardSends(what)  PROVE UNCHANGED tried
    BY <2>2 DEF BoardSends
  <2>3. BoardRestarts \/ Quit \/ Restart \/ LateRequest => UNCHANGED tried
    BY DEF BoardRestarts, Quit, Restart, LateRequest
  <2>4. ReadQueueTask \/ TokenEnds => UNCHANGED tried
    BY DEF ReadQueueTask, ReaderWakes, ReadMessage, TokenEnds
  <2>5. SmakHttpPostMove \/ SmakHttpPostGame => UNCHANGED tried
    BY DEF SmakHttpPostMove, SmakHttpPostGame, RequestEnds
  <2>6. CASE UNCHANGED tried
    BY <2>6, <1>1, <1>t
  <2>. QED  BY <2>1, <2>2, <2>3, <2>4, <2>5, <2>6 DEF Next, ConnectivityTask
<1>. QED  BY <1>2, <1>3, <1>4, <1>5, <1>6, TablesStep, QueuesType, IdsType
          DEF Inv, GatewayTypeOK, Commands

-----------------------------------------------------------------------------
(* What was carried out, and what reached the database *)

Waits(m) == In(Commands, m) \/ In(send_queue, m)

\* What is on its way says what the board sent, and what waits comes after what was
\* carried out.
Carried ==
    /\ \A m \in Message : OnTheWay(m) =>
          /\ m.what = AUTH_TOKEN_GET => m.n = 0
          /\ IsCommand(m) => m.what = sent[m.n]
          /\ m.what \in Plies => m.round < m.n
    /\ \A m \in Message : Waits(m) /\ IsCommand(m) => tried < m.n
    /\ posting # None => /\ posting.msg.what # GARBLED
                         /\ IsCommand(posting.msg) => posting.msg.n = tried
    /\ \A m \in Message : In(Commands, m) => m.what # GARBLED

\* A step of any other than the board: nothing new is on its way but a request for
\* the token, and what no longer waits is carried out, has ended or is lost.
LEMMA WayStep ==
    ASSUME GatewayTypeOK, Next,
           ~ \E what \in Plies \cup {NEW_GAME} : BoardSends(what)
    PROVE  /\ \A m \in Message : OnTheWay(m)' => OnTheWay(m) \/ m = Token
           /\ \A m \in Message : Waits(m)' => Waits(m) \/ m = Token
           /\ \A m \in Message : In(Commands, m)' =>
                 In(Commands, m) \/ m = Token \/ m.what # GARBLED
           /\ \A m \in Message : OnTheWay(m) =>
                 \/ OnTheWay(m)'
                 \/ m.n \in lost' \/ m.n = Token.n
                 \/ posting # None /\ m = posting.msg /\ ConnectivityTask
           /\ posting' # None =>
                 \/ posting' = posting /\ UNCHANGED tried
                 \/ NextCommand
<1>t. /\ Commands \in Seq(Message) /\ send_queue \in Seq(Message)
      /\ Len(Commands) <= QueueLength
      /\ posting # None => posting.msg \in Message
  BY DEF GatewayTypeOK, Request, Commands
<1>2. CASE BoardRestarts \/ LateRequest \/ ReaderWakes
  <2>1. UNCHANGED <<send_queue, smak_http_req_queue, posting, tried>>
    BY <1>2 DEF BoardRestarts, LateRequest, ReaderWakes, readerVars
  <2>. QED  BY <2>1 DEF OnTheWay, Waits, Commands
<1>3. CASE TokenEnds \/ SmakHttpPostMove \/ SmakHttpPostGame
  <2>1. UNCHANGED <<send_queue, smak_http_req_queue>> /\ posting' = None /\ ConnectivityTask
    BY <1>3 DEF TokenEnds, SmakHttpPostMove, SmakHttpPostGame, RequestEnds, readerVars,
                ConnectivityTask
  <2>. QED  BY <2>1 DEF OnTheWay, Waits, Commands
<1>4. CASE Quit
  <2>1. /\ send_queue' = <<>> /\ lost' = lost \cup Numbers(send_queue)
        /\ UNCHANGED <<Commands, posting, tried>>
    BY <1>4 DEF Quit, Commands
  <2>2. \A m : ~In(send_queue', m)
    BY <2>1 DEF In
  <2>3. \A m \in Message : In(send_queue, m) => m.n \in lost' \/ m.n = Token.n
    BY <2>1, <1>t DEF In, Numbers
  <2>. QED  BY <2>1, <2>2, <2>3 DEF OnTheWay, Waits
<1>5. CASE Restart
  <2>1. /\ send_queue' = <<>> /\ Commands' = <<Token>> /\ posting' = None
        /\ lost' = lost \cup Numbers(send_queue) \cup Numbers(Commands)
                    \cup (IF posting = None THEN {} ELSE {posting.msg.n} \ {Token.n})
    BY <1>5 DEF Restart, Commands
  <2>2. \A m : ~In(send_queue', m) /\ (In(Commands', m) => m = Token)
    BY <2>1 DEF In
  <2>3. \A m \in Message : OnTheWay(m) => m.n \in lost' \/ m.n = Token.n
    BY <2>1, <1>t DEF OnTheWay, In, Numbers
  <2>. QED  BY <2>1, <2>2, <2>3 DEF OnTheWay, Waits
<1>6. CASE ReadMessage
  <2>. DEFINE h == Head(send_queue)
  <2>1. /\ send_queue # <<>> /\ send_queue' = Tail(send_queue)
        /\ UNCHANGED <<posting, tried>>
        /\ \/ UNCHANGED Commands /\ h.n \in lost'
           \/ /\ Commands' = Enqueue(Commands, h) /\ h.what # GARBLED
              /\ ~IsFull(Commands) \/ h.n \in lost'
    BY <1>6 DEF ReadMessage, Commands
  <2>2. h \in Message /\ In(send_queue, h)
    BY <2>1, <1>t, TailFacts, InTail
  <2>3. \A x : In(send_queue', x) => In(send_queue, x)
    BY <2>1, <1>t, InTail
  <2>4. \A x : In(send_queue, x) => In(send_queue', x) \/ x = h
    BY <2>1, <1>t, InTail
  <2>. HIDE DEF h
  <2>5. \A x : In(Enqueue(Commands, h), x) => In(Commands, x) \/ x = h
    BY <2>2, <1>t, InEnqueue
  <2>6. \A x : In(Commands, x) => In(Enqueue(Commands, h), x)
    BY <2>2, <1>t, InEnqueue
  <2>7. ~IsFull(Commands) => In(Enqueue(Commands, h), h)
    BY <2>2, <1>t, InEnqueue
  <2>8. \A x : In(Commands', x) => In(Commands, x) \/ (x = h /\ h.what # GARBLED)
    BY <2>1, <2>5
  <2>9. /\ \A x : In(Commands, x) => In(Commands', x)
        /\ In(Commands', h) \/ h.n \in lost'
    BY <2>1, <2>6, <2>7
  <2>. QED  BY <2>1, <2>2, <2>3, <2>4, <2>8, <2>9 DEF OnTheWay, Waits
<1>7. CASE NextCommand
  <2>1. /\ Commands # <<>> /\ Commands' = Tail(Commands) /\ posting = None
        /\ UNCHANGED send_queue
        /\ posting' = [msg |-> Head(Commands), id |-> nvs_id]
    BY <1>7 DEF NextCommand, Commands, readerVars
  <2>2. posting' # None /\ posting'.msg = Head(Commands)
    <3>1. nvs_id \in Nat /\ Head(Commands) \in Message
      BY <2>1, <1>t, TailFacts DEF GatewayTypeOK
    <3>2. posting' \in Request
      BY <2>1, <3>1 DEF Request
    <3>. QED  BY <2>1, <3>2, NoneAssumption
  <2>3. \A x : In(Commands', x) => In(Commands, x)
    BY <2>1, <1>t, InTail
  <2>4. \A x : In(Commands, x) => In(Commands', x) \/ x = Head(Commands)
    BY <2>1, <1>t, InTail
  <2>5. In(Commands, Head(Commands))
    BY <2>1, <1>t, InTail
  <2>. QED  BY <1>7, <2>1, <2>2, <2>3, <2>4, <2>5 DEF OnTheWay, Waits
<1>. QED  BY <1>2, <1>3, <1>4, <1>5, <1>6, <1>7 DEF Next, ReadQueueTask, ConnectivityTask

LEMMA SentGrows ==
    ASSUME GatewayTypeOK, Next, NEW n \in 1..Len(sent)
    PROVE  n \in 1..Len(sent') /\ sent'[n] = sent[n]
<1>t. sent \in Seq(Plies \cup {NEW_GAME}) /\ Len(sent) \in Nat
  BY DEF GatewayTypeOK
<1>1. ASSUME NEW w, sent' = Append(sent, w)
      PROVE  n \in 1..Len(sent') /\ sent'[n] = sent[n]
  BY <1>1, <1>t
<1>2. ASSUME NEW what \in Plies \cup {NEW_GAME}, BoardSends(what)
      PROVE  sent' = Append(sent, what)
  BY <1>2 DEF BoardSends
<1>3. BoardRestarts => sent' = Append(sent, NEW_GAME)
  BY DEF BoardRestarts
<1>4. Quit \/ Restart \/ LateRequest \/ ReadQueueTask => UNCHANGED sent
  BY DEF Quit, Restart, LateRequest, ReadQueueTask, ReaderWakes, ReadMessage, boardVars
<1>5. ConnectivityTask => UNCHANGED sent
  BY DEF ConnectivityTask, NextCommand, TokenEnds, SmakHttpPostMove, SmakHttpPostGame,
         RequestEnds, boardVars
<1>. QED  BY <1>1, <1>2, <1>3, <1>4, <1>5 DEF Next

LEMMA CarriedStep ==
    ASSUME Inv, Carried, Next  PROVE Carried'
<1>. USE DEF Inv
<1>t. /\ sent \in Seq(Plies \cup {NEW_GAME}) /\ Len(sent) \in Nat
      /\ round \in Nat /\ round <= Len(sent) /\ tried \in Nat /\ tried <= Len(sent)
      /\ posting # None => posting.msg \in Message
      /\ Commands \in Seq(Message)
      /\ \A m \in Message : m.n \in Nat /\ m.round \in Nat
  BY DEF GatewayTypeOK, Message, Request, Commands
<1>c. /\ Token.n = 0 /\ Token.what = AUTH_TOKEN_GET
      /\ AUTH_TOKEN_GET \notin Plies /\ GARBLED \notin Plies /\ NEW_GAME \notin Plies
      /\ AUTH_TOKEN_GET # GARBLED /\ NEW_GAME # GARBLED /\ NEW_GAME # AUTH_TOKEN_GET
      /\ \A m : IsCommand(m) <=> (m.what # GARBLED /\ m.what # AUTH_TOKEN_GET)
  BY GatewayAssumption DEF Token, IsCommand
<1>s. \A m \in Message : OnTheWay(m) /\ IsCommand(m) => sent'[m.n] = sent[m.n]
  <2>1. \A m \in Message : OnTheWay(m) /\ IsCommand(m) => m.n \in 1..Len(sent)
    BY <1>t, <1>c DEF Numbered
  <2>. QED  BY <2>1, SentGrows
<1>1. ASSUME NEW what \in Plies \cup {NEW_GAME}, BoardSends(what)  PROVE Carried'
  <2>0. PICK m, g : /\ m = [n |-> Len(sent) + 1, round |-> round', what |-> what]
                    /\ g = [m EXCEPT !.what = GARBLED]
    OBVIOUS
  <2>1. /\ m \in Message /\ g \in Message
        /\ g = [n |-> Len(sent) + 1, round |-> round', what |-> GARBLED]
        /\ \A x : In(send_queue', x) => In(send_queue, x) \/ x = m \/ x = g
        /\ UNCHANGED <<smak_http_req_queue, posting>>
    BY <1>1, <2>0, SendsWay
  <2>2. /\ m.n = Len(sent) + 1 /\ m.round = round' /\ m.what = what
        /\ g.what = GARBLED
    BY <2>0, <2>1
  <2>3. /\ UNCHANGED tried /\ sent' = Append(sent, what)
        /\ what \in Plies => round' = round
    BY <1>1, <1>c DEF BoardSends
  <2>4. sent'[m.n] = what
    BY <2>2, <2>3, <1>t
  <2>5. \A x \in Message : /\ OnTheWay(x)' => OnTheWay(x) \/ x = m \/ x = g
                           /\ Waits(x)' => Waits(x) \/ x = m \/ x = g
    BY <2>1 DEF OnTheWay, Waits, Commands
  <2>6. ASSUME NEW x \in Message, OnTheWay(x)'
        PROVE  /\ x.what = AUTH_TOKEN_GET => x.n = 0
               /\ IsCommand(x) => x.what = sent'[x.n]
               /\ x.what \in Plies => x.round < x.n
    <3>1. CASE OnTheWay(x)
      BY <3>1, <1>s DEF Carried
    <3>2. CASE x = m
      BY <3>2, <2>2, <2>3, <2>4, <1>t, <1>c
    <3>3. CASE x = g
      BY <3>3, <2>2, <1>c
    <3>. QED  BY <2>5, <2>6, <3>1, <3>2, <3>3
  <2>7. ASSUME NEW x \in Message, Waits(x)', IsCommand(x)  PROVE tried' < x.n
    <3>1. CASE Waits(x)
      BY <3>1, <2>3, <2>7 DEF Carried
    <3>2. CASE x = m
      BY <3>2, <2>2, <2>3, <1>t
    <3>3. CASE x = g
      BY <3>3, <2>2, <2>7, <1>c
    <3>. QED  BY <2>5, <2>7, <3>1, <3>2, <3>3
  <2>. QED  BY <2>1, <2>3, <2>6, <2>7 DEF Carried, IsCommand, Commands
<1>2. CASE ~ \E what \in Plies \cup {NEW_GAME} : BoardSends(what)
  <2>1. \A m \in Message : OnTheWay(m)' => OnTheWay(m) \/ m = Token
    BY <1>2, WayStep
  <2>2. \A m \in Message : Waits(m)' => Waits(m) \/ m = Token
    BY <1>2, WayStep
  <2>3. \A m \in Message : In(Commands, m)' => In(Commands, m) \/ m = Token \/ m.what # GARBLED
    BY <1>2, WayStep
  <2>4. posting' # None => (posting' = posting /\ UNCHANGED tried) \/ NextCommand
    BY <1>2, WayStep
  <2>5. \A x \in Message : OnTheWay(x)' =>
            /\ x.what = AUTH_TOKEN_GET => x.n = 0
            /\ IsCommand(x) => x.what = sent'[x.n]
            /\ x.what \in Plies => x.round < x.n
    BY <2>1, <1>s, <1>c DEF Carried
  <2>6. \A m \in Message : In(Commands, m)' => m.what # GARBLED
    BY <2>3, <1>c DEF Carried
  <2>7. CASE NextCommand
    <3>. DEFINE h == Head(Commands)
    <3>1. /\ Commands # <<>> /\ Commands' = Tail(Commands)
          /\ UNCHANGED send_queue
          /\ posting' = [msg |-> h, id |-> nvs_id]
          /\ tried' = IF h.what = AUTH_TOKEN_GET THEN tried ELSE h.n
      BY <2>7 DEF NextCommand, Commands, readerVars
    <3>2. h \in Message /\ In(Commands, h)
      BY <3>1, <1>t, TailFacts, InTail
    <3>3. AheadOfAll(h, Tail(Commands)) /\ AheadOfAll(h, send_queue)
      BY <3>1, <1>t, OrderedTail, AheadTail DEF Order
    <3>. HIDE DEF h
    <3>4. h.what # GARBLED
      BY <3>2 DEF Carried
    <3>5. \A x \in Message : Waits(x)' => Ahead(h, x)
      BY <3>1, <3>3 DEF Waits, In, AheadOfAll
    <3>6. \A x \in Message : Waits(x)' /\ IsCommand(x) => tried' < x.n
      <4>1. CASE h.what = AUTH_TOKEN_GET
        BY <4>1, <3>1, <2>2, <1>c DEF Carried
      <4>2. CASE h.what # AUTH_TOKEN_GET
        BY <4>2, <3>1, <3>4, <3>5, <1>c DEF Ahead
      <4>. QED  BY <4>1, <4>2
    <3>7. posting'.msg.what # GARBLED /\ (IsCommand(posting'.msg) => posting'.msg.n = tried')
      <4>1. posting'.msg = h
        BY <3>1
      <4>. QED  BY <4>1, <3>1, <3>4, <1>c
    <3>. QED  BY <2>5, <2>6, <3>6, <3>7 DEF Carried, IsCommand
  <2>8. CASE ~NextCommand
    <3>1. UNCHANGED tried
      BY <1>2, <2>8 DEF Next, BoardRestarts, Quit, Restart, LateRequest, ReadQueueTask,
               ReaderWakes, ReadMessage, ConnectivityTask, TokenEnds, SmakHttpPostMove,
               SmakHttpPostGame, RequestEnds
    <3>2. \A x \in Message : Waits(x)' /\ IsCommand(x) => tried' < x.n
      BY <3>1, <2>2, <1>c DEF Carried
    <3>. QED  BY <2>4, <2>5, <2>6, <2>8, <3>1, <3>2 DEF Carried, IsCommand
  <2>. QED  BY <2>7, <2>8
<1>. QED  BY <1>1, <1>2

\* A message the board sent is on its way, given up, or carried out and in the
\* database; a move that may still come late was given up.
Delivered ==
    /\ \A p \in late : p.msg.what \in Plies => p.msg.n \in lost
    /\ \A n \in 1..Len(sent) :
          \/ n \in lost
          \/ \E m \in Message : OnTheWay(m) /\ m.n = n
          \/ n <= tried /\ Reached(n)

\* The table of moves changes by one request at a time.
LEMMA MovesStep ==
    ASSUME GatewayTypeOK, Next
    PROVE  \/ moves' = moves
           \/ \E p \in Request :
                 /\ p \in late \/ (posting # None /\ p = posting)
                 /\ p.msg.what \in Plies /\ p.id \in DOMAIN games /\ UNCHANGED games
                 /\ moves' = Upsert(p)
<1>t. late \subseteq Request /\ (posting # None => posting \in Request)
  BY DEF GatewayTypeOK
<1>1. ASSUME NEW p, ServiceHandles(p)
      PROVE  \/ moves' = moves
             \/ /\ p.msg.what \in Plies /\ p.id \in DOMAIN games /\ UNCHANGED games
                /\ moves' = Upsert(p)
  BY <1>1 DEF ServiceHandles
<1>2. CASE LateRequest
  <2>1. PICK p \in late : ServiceHandles(p)
    BY <1>2 DEF LateRequest
  <2>. QED  BY <2>1, <1>1, <1>t
<1>3. CASE SmakHttpPostMove \/ SmakHttpPostGame
  <2>1. posting # None /\ (ServiceHandles(posting) \/ UNCHANGED tables)
    BY <1>3 DEF SmakHttpPostMove, SmakHttpPostGame, RequestEnds
  <2>. QED  BY <2>1, <1>1, <1>t DEF tables
<1>4. ASSUME NEW what \in Plies \cup {NEW_GAME}, BoardSends(what)  PROVE UNCHANGED moves
  BY <1>4 DEF BoardSends, tables
<1>5. BoardRestarts \/ Quit \/ Restart \/ ReadQueueTask \/ NextCommand \/ TokenEnds
         => UNCHANGED moves
  BY DEF BoardRestarts, Quit, Restart, ReadQueueTask, ReaderWakes, ReadMessage, NextCommand,
         TokenEnds, tables
<1>. QED  BY <1>2, <1>3, <1>4, <1>5 DEF Next, ConnectivityTask

\* What reached the database stays, or is replaced by what was sent later or came late.
LEMMA ReachedStays ==
    ASSUME Inv, Carried, Delivered, Next, NEW n \in 1..Len(sent), n <= tried, Reached(n)
    PROVE  Reached(n)'
<1>. USE DEF Inv
<1>t. /\ games \in Seq(Nat) /\ Len(games) \in Nat /\ tried \in Nat
      /\ \A mv \in moves : mv.id \in DOMAIN games /\ mv.n \in Nat
      /\ \A p \in Request : p.msg.n \in Nat /\ p.msg \in Message
  BY DEF GatewayTypeOK, Request, Message
<1>1. /\ \A id \in DOMAIN games : id \in DOMAIN games' /\ games'[id] = games[id]
      /\ lost \subseteq lost'
  <2>1. PICK k \in Nat : games' = games \/ games' = Append(games, k)
    BY TablesStep
  <2>2. /\ games' \in Seq(Nat) /\ Len(games') \in Nat /\ Len(games) <= Len(games')
        /\ \A id \in 1..Len(games) : games'[id] = games[id]
    <3>. HIDE DEF Inv
    <3>1. CASE games' = games
      BY <1>t, <3>1
    <3>2. CASE games' = Append(games, k)
      BY <1>t, <3>2
    <3>. QED  BY <2>1, <3>1, <3>2
  <2>3. DOMAIN games = 1..Len(games) /\ DOMAIN games' = 1..Len(games')
    BY <1>t, <2>2
  <2>4. \A id \in DOMAIN games : id \in DOMAIN games' /\ games'[id] = games[id]
    BY <2>2, <2>3, <1>t
  <2>. QED  BY <2>4, TablesStep
<1>2. sent'[n] = sent[n]
  BY SentGrows
<1>3. CASE \E id \in DOMAIN games : games[id] = n
  BY <1>3, <1>1 DEF Reached
<1>4. CASE \E mv \in moves : /\ mv.ply = sent[n] /\ games[mv.id] < n
                             /\ mv.n >= n \/ mv.n \in lost
  <2>1. PICK mv \in moves : /\ mv.ply = sent[n] /\ games[mv.id] < n
                            /\ mv.n >= n \/ mv.n \in lost
    BY <1>4
  <2>2. mv.id \in DOMAIN games /\ games'[mv.id] < n
    BY <2>1, <1>1, <1>t
  <2>3. CASE mv \in moves'
    BY <2>1, <2>2, <2>3, <1>1, <1>2 DEF Reached
  <2>4. CASE mv \notin moves'
    <3>1. PICK p \in Request : /\ p \in late \/ (posting # None /\ p = posting)
                               /\ p.msg.what \in Plies /\ moves' = Upsert(p)
      BY <2>1, <2>4, MovesStep
    <3>2. mv.id = p.id /\ mv.ply = p.msg.what /\ Row(p) \in moves'
      BY <2>1, <2>4, <3>1 DEF Upsert, Replaced
    <3>3. p.msg.n >= n \/ p.msg.n \in lost
      <4>1. CASE p \in late
        BY <3>1, <4>1 DEF Delivered
      <4>2. CASE posting # None /\ p = posting
        <5>1. IsCommand(p.msg)
          BY <3>1, GatewayAssumption DEF IsCommand
        <5>. QED  BY <4>2, <5>1, <1>t DEF Carried
      <4>. QED  BY <3>1, <4>1, <4>2
    <3>4. Row(p).id = mv.id /\ Row(p).ply = sent[n] /\ Row(p).n = p.msg.n
      BY <2>1, <3>2 DEF Row
    <3>5. Row(p).ply = sent'[n] /\ games'[Row(p).id] < n
      BY <3>4, <2>2, <1>2
    <3>6. Row(p).n >= n \/ Row(p).n \in lost'
      BY <3>3, <3>4, <1>1
    <3>. QED  BY <3>2, <3>5, <3>6 DEF Reached
  <2>. QED  BY <2>3, <2>4
<1>. QED  BY <1>3, <1>4 DEF Reached

\* A request that has ended reached the database, or is lost.
LEMMA EndsReached ==
    ASSUME Inv, Carried, SmakHttpPostMove \/ SmakHttpPostGame, NEW n, n = posting.msg.n
    PROVE  n \in lost' \/ (n <= tried /\ Reached(n)')
<1>. USE DEF Inv
<1>. DEFINE a == posting.msg
<1>0. posting # None /\ IsCommand(a) /\ posting \in Request
  <2>1. posting # None /\ (a.what \in Plies \/ a.what = NEW_GAME)
    BY DEF SmakHttpPostMove, SmakHttpPostGame, RequestEnds
  <2>. QED  BY <2>1, GatewayAssumption DEF IsCommand, GatewayTypeOK
<1>1. /\ a.n = n /\ n = tried /\ a.what = sent[n] /\ a \in Message /\ n \in Nat /\ tried \in Nat
      /\ a.what \in Plies => a.round < n
  BY <1>0 DEF Carried, OnTheWay, Request, Message, GatewayTypeOK
<1>2. CASE SmakHttpPostMove
  <2>1. a.what \in Plies /\ UNCHANGED sent /\ (n \in lost' \/ ServiceHandles(posting))
    BY <1>2 DEF SmakHttpPostMove, RequestEnds, boardVars
  <2>2. CASE ServiceHandles(posting)
    <3>1. /\ posting.id \in DOMAIN games /\ moves' = Upsert(posting) /\ UNCHANGED games
      BY <2>1, <2>2, GatewayAssumption DEF ServiceHandles
    <3>2. games \in Seq(Nat)
      BY DEF GatewayTypeOK
    <3>3. posting.id # NoId /\ games[posting.id] \in Nat
      BY <3>1, <3>2 DEF NoId
    <3>4. Fits(posting.id, a.round)
      BY <1>0, <2>1, <3>3, PostingFits
    <3>5. games[posting.id] < n
      BY <1>1, <2>1, <3>3, <3>4 DEF Fits, Message
    <3>6. /\ Row(posting) \in moves' /\ Row(posting).ply = a.what
          /\ Row(posting).id = posting.id /\ Row(posting).n = n
      BY <3>1, <1>1 DEF Upsert, Row
    <3>7. Row(posting).ply = sent'[n] /\ games'[Row(posting).id] < n /\ Row(posting).n >= n
      BY <3>1, <3>5, <3>6, <1>1, <2>1
    <3>8. Reached(n)'
      BY <3>6, <3>7 DEF Reached
    <3>. QED  BY <3>8, <1>1
  <2>. QED  BY <2>1, <2>2
<1>3. CASE SmakHttpPostGame
  <2>1. /\ parsed' \in {parsed, NoId, Len(games) + 1}
        /\ nvs_id' \in {nvs_id, parsed'}
        /\ parsed' = Len(games) + 1 => games' = Append(games, n)
        /\ nvs_id' # Len(games) + 1 => n \in lost'
    BY <1>1, <1>3, PostGameIds
  <2>2. /\ games \in Seq(Nat) /\ Len(games) \in Nat /\ nvs_id \in 0..Len(games)
    BY DEF GatewayTypeOK
  <2>3. CASE games' = Append(games, n)
    <3>1. Len(games) + 1 \in DOMAIN games' /\ games'[Len(games) + 1] = n
      BY <2>2, <2>3
    <3>2. Reached(n)'
      BY <3>1 DEF Reached
    <3>. QED  BY <3>2, <1>1
  <2>. QED  BY <2>1, <2>2, <2>3
<1>. QED  BY <1>2, <1>3

LEMMA DeliveredStep ==
    ASSUME Inv, Carried, Delivered, Carried', Next  PROVE Delivered'
<1>. USE DEF Inv
<1>t. /\ sent \in Seq(Plies \cup {NEW_GAME}) /\ Len(sent) \in Nat /\ tried \in Nat
      /\ late \subseteq Request /\ posting \in Request \cup {None}
      /\ Token.n = 0 /\ lost \subseteq lost'
      /\ \A m \in Message : m.n \in Nat
  BY TablesStep DEF GatewayTypeOK, Token, Message
<1>1. ASSUME NEW p \in late', p.msg.what \in Plies  PROVE p.msg.n \in lost'
  <2>1. CASE p \in late
    BY <1>1, <2>1, <1>t DEF Delivered
  <2>2. CASE p \notin late
    <3>1. p = posting /\ posting # None /\ (Restart \/ SmakHttpPostMove \/ SmakHttpPostGame)
      <4>1. ASSUME NEW what \in Plies \cup {NEW_GAME}, BoardSends(what)  PROVE UNCHANGED late
        BY <4>1 DEF BoardSends
      <4>2. BoardRestarts \/ Quit \/ ReadQueueTask \/ NextCommand \/ TokenEnds => UNCHANGED late
        BY DEF BoardRestarts, Quit, ReadQueueTask, ReaderWakes, ReadMessage, NextCommand,
               TokenEnds
      <4>3. LateRequest => late' \subseteq late
        BY DEF LateRequest
      <4>. QED  BY <1>1, <2>2, <4>1, <4>2, <4>3, TablesStep DEF Next, ConnectivityTask
    <3>2. p.msg.n # Token.n
      <4>1. p.msg \in Message /\ OnTheWay(p.msg)
        BY <3>1, <1>t DEF OnTheWay, Request
      <4>. QED  BY <1>1, <4>1, <1>t, GatewayAssumption DEF Numbered
    <3>3. CASE Restart
      BY <3>1, <3>2, <3>3 DEF Restart
    <3>4. CASE SmakHttpPostMove
      <4>1. PICK how \in {"answered", "cut", "refused", "silent"} :
               /\ RequestEnds(how)
               /\ lost' = IF how \in {"answered", "cut"} THEN lost ELSE lost \cup {posting.msg.n}
        BY <3>4 DEF SmakHttpPostMove
      <4>2. how \notin {"answered", "cut"}
        BY <1>1, <2>2, <4>1 DEF RequestEnds
      <4>. QED  BY <3>1, <4>1, <4>2
    <3>5. CASE SmakHttpPostGame
      BY <1>1, <3>1, <3>5, GatewayAssumption DEF SmakHttpPostGame
    <3>. QED  BY <3>1, <3>3, <3>4, <3>5
  <2>. QED  BY <2>1, <2>2
<1>2. tried <= tried'
  <2>1. CASE NextCommand
    <3>. DEFINE h == Head(Commands)
    <3>1. /\ Commands # <<>> /\ tried' = IF h.what = AUTH_TOKEN_GET THEN tried ELSE h.n
      BY <2>1 DEF NextCommand, Commands
    <3>2. h \in Message /\ In(Commands, h)
      BY <3>1, TailFacts, InTail DEF GatewayTypeOK, Commands
    <3>. HIDE DEF h
    <3>3. h.what # AUTH_TOKEN_GET => tried < h.n
      BY <3>2 DEF Carried, Waits, IsCommand
    <3>. QED  BY <3>1, <3>2, <3>3, <1>t
  <2>2. CASE ~NextCommand
    <3>1. ASSUME NEW what \in Plies \cup {NEW_GAME}, BoardSends(what)  PROVE UNCHANGED tried
      BY <3>1 DEF BoardSends
    <3>2. UNCHANGED tried
      BY <2>2, <3>1 DEF Next, BoardRestarts, Quit, Restart, LateRequest, ReadQueueTask,
               ReaderWakes, ReadMessage, ConnectivityTask, TokenEnds, SmakHttpPostMove,
               SmakHttpPostGame, RequestEnds
    <3>. QED  BY <3>2, <1>t
  <2>. QED  BY <2>1, <2>2
<1>3. ASSUME NEW n \in 1..Len(sent)
      PROVE  \/ n \in lost'
             \/ \E m \in Message : OnTheWay(m)' /\ m.n = n
             \/ n <= tried' /\ Reached(n)'
  <2>1. CASE n \in lost
    BY <2>1, <1>t
  <2>2. CASE n <= tried /\ Reached(n)
    <3>1. Reached(n)' /\ tried' \in Nat /\ n <= tried'
      <4>1. tried' \in Nat
        BY TypeStep DEF GatewayTypeOK
      <4>. QED  BY <4>1, <2>2, <1>2, <1>t, ReachedStays
    <3>. QED  BY <3>1
  <2>3. ASSUME NEW m \in Message, OnTheWay(m), m.n = n
        PROVE  \/ n \in lost'
               \/ OnTheWay(m)'
               \/ n <= tried' /\ Reached(n)'
    <3>1. ASSUME NEW what \in Plies \cup {NEW_GAME}, BoardSends(what)  PROVE OnTheWay(m)'
      <4>1. PICK x, g : /\ x = [n |-> Len(sent) + 1, round |-> round', what |-> what]
                        /\ g = [x EXCEPT !.what = GARBLED]
        OBVIOUS
      <4>2. /\ \A y : In(send_queue, y) => In(send_queue', y)
            /\ UNCHANGED <<smak_http_req_queue, posting>>
        BY <3>1, <4>1, SendsWay
      <4>. QED  BY <2>3, <4>2 DEF OnTheWay, Commands
    <3>2. CASE ~ \E what \in Plies \cup {NEW_GAME} : BoardSends(what)
      <4>1. \/ OnTheWay(m)' \/ n \in lost'
            \/ posting # None /\ m = posting.msg /\ ConnectivityTask
        BY <2>3, <3>2, <1>t, WayStep
      <4>2. CASE posting # None /\ m = posting.msg /\ ConnectivityTask
        <5>1. ~NextCommand
          BY <4>2 DEF NextCommand
        <5>2. ~TokenEnds
          BY <2>3, <4>2, <1>t DEF TokenEnds, Carried
        <5>3. SmakHttpPostMove \/ SmakHttpPostGame
          BY <4>2, <5>1, <5>2 DEF ConnectivityTask
        <5>4. UNCHANGED tried
          BY <5>3 DEF SmakHttpPostMove, SmakHttpPostGame, RequestEnds
        <5>. QED  BY <2>3, <4>2, <5>3, <5>4, EndsReached
      <4>. QED  BY <4>1, <4>2
    <3>. QED  BY <3>1, <3>2
  <2>. QED  BY <2>1, <2>2, <2>3 DEF Delivered
<1>4. ASSUME NEW n \in 1..Len(sent'), n \notin 1..Len(sent)
      PROVE  n \in lost' \/ \E m \in Message : OnTheWay(m)' /\ m.n = n
  <2>1. ASSUME NEW what \in Plies \cup {NEW_GAME}, BoardSends(what)
        PROVE  n \in lost' \/ \E m \in Message : OnTheWay(m)' /\ m.n = n
    <3>1. PICK x, g : /\ x = [n |-> Len(sent) + 1, round |-> round', what |-> what]
                      /\ g = [x EXCEPT !.what = GARBLED]
      OBVIOUS
    <3>2. /\ x \in Message /\ Len(sent') = Len(sent) + 1
          /\ In(send_queue', x) \/ x.n \in lost'
      BY <2>1, <3>1, SendsWay
    <3>3. x.n = n
      BY <1>4, <3>1, <3>2, <1>t
    <3>. QED  BY <3>2, <3>3 DEF OnTheWay
  <2>2. CASE BoardRestarts
    <3>1. /\ sent' = Append(sent, NEW_GAME) /\ lost' = lost \cup {Len(sent')}
      BY <2>2 DEF BoardRestarts
    <3>2. Len(sent') = Len(sent) + 1
      BY <3>1, <1>t
    <3>3. n = Len(sent')
      BY <1>4, <3>2, <1>t
    <3>. QED  BY <3>1, <3>3
  <2>3. Quit \/ Restart \/ LateRequest \/ ReadQueueTask => UNCHANGED sent
    BY DEF Quit, Restart, LateRequest, ReadQueueTask, ReaderWakes, ReadMessage, boardVars
  <2>4. ConnectivityTask => UNCHANGED sent
    BY DEF ConnectivityTask, NextCommand, TokenEnds, SmakHttpPostMove, SmakHttpPostGame,
           RequestEnds, boardVars
  <2>. QED  BY <1>4, <2>1, <2>2, <2>3, <2>4 DEF Next
<1>. QED  BY <1>1, <1>3, <1>4 DEF Delivered

-----------------------------------------------------------------------------
(* The theorems *)

LEMMA InvInit == Init => Inv
<1>. SUFFICES ASSUME Init PROVE Inv
  OBVIOUS
<1>. USE GatewayAssumption DEF Init
<1>1. Token \in Message
  BY DEF Token, Message
<1>2. GatewayTypeOK
  <2>1. /\ <<Token>> \in Seq(Message) /\ Len(<<Token>>) = 1 /\ Len(<<>>) = 0
        /\ <<>> \in Seq(Message) /\ <<>> \in Seq(Nat) /\ <<>> \in Seq(Plies \cup {NEW_GAME})
    BY <1>1
  <2>2. running \in BOOLEAN /\ idx \in BOOLEAN
    OBVIOUS
  <2>3. /\ sent \in Seq(Plies \cup {NEW_GAME}) /\ Len(sent) <= MaxMessages
        /\ round \in 0..Len(sent) /\ lost \subseteq 1..Len(sent) /\ tried \in 0..Len(sent)
        /\ posting \in Request \cup {None} /\ late \subseteq Request
    BY <2>1
  <2>4. /\ send_queue \in Seq(Message) /\ Len(send_queue) <= QueueLength
        /\ smak_http_req_queue \in Seq(Message) /\ Len(smak_http_req_queue) <= QueueLength
    BY <2>1
  <2>5. /\ games \in Seq(Nat) /\ nvs_id \in 0..Len(games) /\ parsed \in 0..Len(games)
        /\ current_id \in {NoId, nvs_id}
        /\ moves \subseteq [id : DOMAIN games, ply : Plies, n : Nat, round : Nat]
        /\ reader \in {"delay", "receive", "done"}
    BY <2>1 DEF NoId
  <2>. QED  BY <2>2, <2>3, <2>4, <2>5 DEF GatewayTypeOK
<1>3. Order
  BY DEF Order, Ordered, AllAhead, Commands
<1>4. \A m : OnTheWay(m) => m = Token
  BY DEF OnTheWay, In, Commands
<1>5. Numbered
  BY <1>4 DEF Numbered, Token
<1>6. Rounds
  BY <1>4 DEF Rounds, Behind, RoundOf, Announced, Token
<1>7. Requests
  BY DEF Requests
<1>. QED  BY <1>2, <1>3, <1>5, <1>6, <1>7 DEF Inv

LEMMA InvStep == Inv /\ [Next]_vars => Inv'
<1>. SUFFICES ASSUME Inv, [Next]_vars PROVE Inv'
  OBVIOUS
<1>1. CASE Next
  BY <1>1, OrderStep, RoundsStep, RequestsStep, TypeStep DEF Inv
<1>2. CASE UNCHANGED vars
  <2>1. UNCHANGED <<sent, round, send_queue, running, reader, smak_http_req_queue, posting,
                    late, nvs_id, current_id, parsed, idx, games, moves, lost, tried>>
    BY <1>2 DEF vars, boardVars, readerVars, idVars, tables
  <2>2. GatewayTypeOK'
    BY <2>1 DEF Inv, GatewayTypeOK
  <2>3. Order'
    BY <2>1 DEF Inv, Order, Commands
  <2>4. \A m : OnTheWay(m)' <=> OnTheWay(m)
    BY <2>1 DEF OnTheWay, Commands
  <2>5. Numbered'
    BY <2>1, <2>4 DEF Inv, Numbered
  <2>6. RoundOf(nvs_id)' = RoundOf(nvs_id) /\ RoundOf(parsed)' = RoundOf(parsed)
    BY <2>1 DEF RoundOf
  <2>7. Rounds'
    BY <2>1, <2>4, <2>6 DEF Inv, Rounds, Behind, Announced
  <2>8. Requests'
    BY <2>1 DEF Inv, Requests, Fits
  <2>. QED  BY <2>2, <2>3, <2>5, <2>7, <2>8 DEF Inv
<1>. QED  BY <1>1, <1>2

THEOREM GatewayInvariant == Spec => []Inv
BY InvInit, InvStep, PTL DEF Spec

\* The queues of the gateway stay within their length, ids name games that were
\* made, and messages are counted once (main.c:140, smak_conn.c:592-599).
THEOREM GatewayTypeCorrect == Spec => []GatewayTypeOK
<1>1. Inv => GatewayTypeOK
  BY DEF Inv
<1>. QED  BY <1>1, GatewayInvariant, PTL

\* Every move in the database is stored under the game of its round, or under an
\* earlier game if the new game of its round was lost, whatever the gateway drops,
\* however requests end and whenever it restarts (smak_conn.c:330-478).
THEOREM MovesBelong == Spec => []MovesOfTheirGame
<1>1. Inv => MovesOfTheirGame
  BY DEF Inv, Requests, Fits, MovesOfTheirGame
<1>. QED  BY <1>1, GatewayInvariant, PTL

\* The id in flash is never replaced by that of an earlier game, though the buffer
\* it is parsed from is never cleared (smak_conn.c:333, 360-380).
THEOREM NeverGoesBack == Spec => GameNeverGoesBack
<1>1. Inv /\ [Next]_vars => [nvs_id' >= nvs_id]_vars
  <2>. SUFFICES ASSUME Inv, Next PROVE nvs_id' >= nvs_id
    OBVIOUS
  <2>t. /\ nvs_id \in Nat /\ parsed \in Nat /\ Len(games) \in Nat /\ nvs_id <= Len(games)
        /\ parsed = NoId \/ parsed >= nvs_id
    BY DEF Inv, GatewayTypeOK, Rounds
  <2>1. CASE SmakHttpPostGame
    <3>1. /\ parsed' \in {parsed, NoId, Len(games) + 1}
          /\ nvs_id' \in {nvs_id, parsed'}
          /\ nvs_id' # nvs_id => nvs_id' # NoId
      BY <2>1, PostGameIds DEF Inv
    <3>. QED  BY <3>1, <2>t
  <2>2. ASSUME NEW what \in Plies \cup {NEW_GAME}, BoardSends(what)  PROVE UNCHANGED nvs_id
    BY <2>2 DEF BoardSends, idVars
  <2>3. BoardRestarts \/ Quit \/ Restart \/ LateRequest \/ ReadQueueTask => UNCHANGED nvs_id
    BY DEF BoardRestarts, Quit, Restart, LateRequest, ReadQueueTask, ReaderWakes,
                ReadMessage, idVars
  <2>4. NextCommand \/ TokenEnds \/ SmakHttpPostMove => UNCHANGED nvs_id
    BY DEF NextCommand, TokenEnds, SmakHttpPostMove, idVars
  <2>5. CASE UNCHANGED nvs_id
    BY <2>5, <2>t
  <2>. QED  BY <2>1, <2>2, <2>3, <2>4, <2>5 DEF Next, ConnectivityTask
<1>. QED  BY <1>1, GatewayInvariant, PTL DEF Spec, GameNeverGoesBack

LEMMA CarriedDelivered == Spec => [](Carried /\ Delivered)
<1>1. Init => Carried /\ Delivered
  <2>. SUFFICES ASSUME Init PROVE Carried /\ Delivered
    OBVIOUS
  <2>1. \A m : OnTheWay(m) \/ Waits(m) => m = Token
    BY DEF Init, OnTheWay, Waits, In, Commands
  <2>2. /\ Token.what = AUTH_TOKEN_GET /\ Token.n = 0 /\ ~IsCommand(Token)
        /\ AUTH_TOKEN_GET \notin Plies /\ AUTH_TOKEN_GET # GARBLED
    BY GatewayAssumption DEF Token, IsCommand
  <2>3. \A m : In(Commands, m) => m = Token
    BY <2>1 DEF Waits
  <2>4. Carried
    BY <2>1, <2>2, <2>3 DEF Carried, Init
  <2>5. Delivered
    BY DEF Delivered, Init
  <2>. QED  BY <2>4, <2>5
<1>2. Inv /\ (Carried /\ Delivered) /\ [Next]_vars => (Carried /\ Delivered)'
  <2>. SUFFICES ASSUME Inv, Carried, Delivered, [Next]_vars PROVE (Carried /\ Delivered)'
    OBVIOUS
  <2>1. CASE Next
    BY <2>1, CarriedStep, DeliveredStep
  <2>2. CASE UNCHANGED vars
    <3>1. UNCHANGED <<sent, round, send_queue, smak_http_req_queue, posting, late, games,
                      moves, lost, tried>>
      BY <2>2 DEF vars, boardVars, readerVars, idVars, tables
    <3>2. \A m : /\ OnTheWay(m)' <=> OnTheWay(m)
                 /\ Waits(m)' <=> Waits(m)
                 /\ In(Commands, m)' <=> In(Commands, m)
      BY <3>1 DEF OnTheWay, Waits, Commands
    <3>3. \A n : Reached(n)' <=> Reached(n)
      BY <3>1 DEF Reached
    <3>. QED  BY <3>1, <3>2, <3>3 DEF Carried, Delivered, IsCommand
  <2>. QED  BY <2>1, <2>2
<1>. QED  BY <1>1, <1>2, GatewayInvariant, PTL DEF Spec

\* Commands are carried out in the order the board sent them and each once: what
\* waits in the two queues is numbered upwards, from above the last one carried out
\* (main.c:140, smak_conn.c:557).
THEOREM CommandsInOrder == Spec => []CarriedOutInOrder
<1>1. Inv /\ Carried => CarriedOutInOrder
  <2>. SUFFICES ASSUME Inv, Carried PROVE CarriedOutInOrder
    OBVIOUS
  <2>. DEFINE waiting == Commands \o send_queue
              k == Len(Commands)
  <2>t. /\ Commands \in Seq(Message) /\ send_queue \in Seq(Message)
        /\ k \in Nat /\ Len(send_queue) \in Nat
    BY DEF Inv, GatewayTypeOK, Commands
  <2>1. /\ DOMAIN waiting = 1..(k + Len(send_queue))
        /\ \A i \in DOMAIN waiting : waiting[i] \in Message
        /\ \A i \in 1..k : waiting[i] = Commands[i]
        /\ \A i \in DOMAIN waiting : i > k => /\ i - k \in 1..Len(send_queue)
                                               /\ waiting[i] = send_queue[i - k]
    BY <2>t
  <2>. HIDE DEF waiting, k
  <2>2. ASSUME NEW i \in DOMAIN waiting  PROVE waiting[i] \in Message /\ Waits(waiting[i])
    <3>1. waiting[i] \in Message
      BY <2>1
    <3>2. CASE i <= k
      <4>1. i \in 1..k
        BY <3>2, <2>1, <2>t
      <4>. QED  BY <4>1, <3>1, <2>1 DEF Waits, In, k
    <3>3. CASE i > k
      BY <3>1, <3>3, <2>1 DEF Waits, In
    <3>. QED  BY <3>2, <3>3, <2>1, <2>t
  <2>3. ASSUME NEW i \in DOMAIN waiting, NEW j \in DOMAIN waiting, i < j
        PROVE  Ahead(waiting[i], waiting[j])
    <3>0. i \in Nat /\ j \in Nat /\ i >= 1
      BY <2>1, <2>t
    <3>1. CASE j <= k
      <4>1. i \in 1..k /\ j \in 1..k
        BY <3>0, <3>1, <2>3, <2>t
      <4>. QED  BY <4>1, <2>1, <2>3 DEF Inv, Order, Ordered, k
    <3>2. CASE i <= k /\ j > k
      <4>1. i \in 1..k
        BY <3>0, <3>2, <2>t
      <4>. QED  BY <4>1, <3>2, <2>1 DEF Inv, Order, AllAhead, k
    <3>3. CASE i > k
      <4>1. j > k /\ i - k < j - k
        BY <3>0, <3>3, <2>3, <2>t
      <4>. QED  BY <4>1, <3>3, <2>1 DEF Inv, Order, Ordered
    <3>. QED  BY <3>0, <3>1, <3>2, <3>3, <2>t
  <2>. QED  BY <2>2, <2>3 DEF CarriedOutInOrder, Carried, Ahead, waiting, Commands
<1>. QED  BY <1>1, GatewayInvariant, CarriedDelivered, PTL

\* A message disappears only by a full queue, a part of a message, a failed request
\* or a restart: any other that is no longer on its way is in the database
\* (main.c:140, smak_conn.c:595).
THEOREM NothingIsLostSilently == Spec => []NothingDisappears
<1>1. Inv /\ Delivered => NothingDisappears
  <2>. SUFFICES ASSUME Inv, Delivered, NEW n \in DOMAIN sent \ (Pending \cup lost)
                PROVE  Reached(n)
    BY DEF NothingDisappears
  <2>1. n \in 1..Len(sent)
    BY DEF Inv, GatewayTypeOK
  <2>2. ASSUME NEW m \in Message, OnTheWay(m), m.n = n  PROVE FALSE
    <3>. DEFINE p == IF posting = None THEN <<>> ELSE <<posting.msg>>
    <3>1. /\ Commands \in Seq(Message) /\ send_queue \in Seq(Message)
          /\ posting # None => posting.msg \in Message
      BY DEF Inv, GatewayTypeOK, Commands, Request
    <3>2. p \in Seq(Message)
      BY <3>1
    <3>3. posting # None /\ m = posting.msg => In(p, m)
      BY DEF In
    <3>. HIDE DEF p
    <3>4. In(p \o Commands \o send_queue, m)
      <4>1. ASSUME NEW q \in Seq(Message), NEW r \in Seq(Message), In(q, m) \/ In(r, m)
            PROVE  q \o r \in Seq(Message) /\ In(q \o r, m)
        <5>1. CASE In(q, m)
          <6>1. PICK i \in 1..Len(q) : q[i] = m
            BY <5>1 DEF In
          <6>2. i \in 1..Len(q \o r) /\ (q \o r)[i] = m
            BY <6>1
          <6>. QED  BY <6>2 DEF In
        <5>2. CASE In(r, m)
          <6>1. PICK i \in 1..Len(r) : r[i] = m
            BY <5>2 DEF In
          <6>2. Len(q) + i \in 1..Len(q \o r) /\ (q \o r)[Len(q) + i] = m
            BY <6>1
          <6>. QED  BY <6>2 DEF In
        <5>. QED  BY <4>1, <5>1, <5>2
      <4>2. p \o Commands \in Seq(Message)
        BY <3>1, <3>2
      <4>3. In(p, m) \/ In(Commands, m) => In(p \o Commands, m)
        BY <4>1, <3>1, <3>2
      <4>. QED  BY <2>2, <4>1, <4>2, <4>3, <3>1, <3>3 DEF OnTheWay
    <3>5. Pipeline = p \o Commands \o send_queue
      BY DEF Pipeline, p, Commands
    <3>6. p \o Commands \o send_queue \in Seq(Message)
      BY <3>1, <3>2
    <3>7. n \in Numbers(Pipeline)
      <4>1. PICK i \in 1..Len(Pipeline) : Pipeline[i] = m
        BY <3>4, <3>5 DEF In
      <4>2. i \in DOMAIN Pipeline /\ n # Token.n
        BY <4>1, <3>5, <3>6, <2>1 DEF Token
      <4>. QED  BY <4>1, <4>2, <2>2 DEF Numbers
    <3>. QED  BY <3>7 DEF Pending
  <2>. QED  BY <2>1, <2>2 DEF Delivered
<1>. QED  BY <1>1, GatewayInvariant, CarriedDelivered, PTL
=============================================================================
