------------------------------- MODULE Gateway -------------------------------
(***************************************************************************)
(* From the board to the database: the board's messages over USB, the      *)
(* gateway's two queues and two tasks (esp32s3/main/main.c, smak_conn.c,   *)
(* smak_storage.c), the requests they become, and the tables of games and  *)
(* moves (db-rest).                                                        *)
(*                                                                         *)
(* Messages are numbered as the board sends them.  A round is the time     *)
(* between two new games on the board, and has the number of the message   *)
(* that began it.  A game in the database has the number of its row as id; *)
(* games[id] is the round it was made for.  The id a response names is     *)
(* what cJSON_Parse makes of the buffer it was read into.                  *)
(***************************************************************************)
EXTENDS Integers, Sequences

CONSTANTS
    QueueLength,      \* places in each of the two queues (8)
    Plies,            \* the plies a record may name
    NEW_GAME,         \* what a message or a command says if it is not a ply
    GARBLED,
    AUTH_TOKEN_GET,
    None,
    MaxMessages       \* bound: messages sent

ASSUME GatewayAssumption ==
    /\ QueueLength \in Nat \ {0} /\ MaxMessages \in Nat
    /\ {NEW_GAME, GARBLED, AUTH_TOKEN_GET} \cap Plies = {}
    /\ NEW_GAME # GARBLED /\ NEW_GAME # AUTH_TOKEN_GET /\ GARBLED # AUTH_TOKEN_GET

VARIABLES
    sent,                 \* history: what the board's messages said, in order
    round,                \* the board's round
    send_queue,           \* messages received, from handle_rx to read_queue_task
    running,              \* the button that quits has not been pressed
    reader,               \* what read_queue_task does next
    smak_http_req_queue,  \* commands for smak_connectivity_task
    posting,              \* the command it carries out, and the game id it read
    late,                 \* requests given up that the service may yet handle
    nvs_id, current_id,   \* the game id in flash and the copy beside it
    parsed,               \* the id that resp_buf of smak_http_post_game holds
    idx,                  \* whether a response left idx above 0
    games, moves,         \* the tables of the database
    lost,                 \* history: messages given up
    tried                 \* history: the last message carried out

boardVars == <<sent, round>>
readerVars == <<send_queue, running, reader>>
idVars == <<nvs_id, current_id, parsed, idx>>
tables == <<games, moves>>
vars == <<boardVars, readerVars, smak_http_req_queue, posting, late, idVars, tables,
          lost, tried>>

NoId == 0
Message == [n : Nat, round : Nat, what : Plies \cup {NEW_GAME, GARBLED, AUTH_TOKEN_GET}]
Request == [msg : Message, id : Nat]
ASSUME NoneAssumption == None \notin Request
Token == [n |-> 0, round |-> 0, what |-> AUTH_TOKEN_GET]

GatewayTypeOK ==
    /\ sent \in Seq(Plies \cup {NEW_GAME}) /\ Len(sent) <= MaxMessages
    /\ round \in 0..Len(sent)
    /\ send_queue \in Seq(Message) /\ Len(send_queue) <= QueueLength
    /\ running \in BOOLEAN /\ reader \in {"delay", "receive", "done"}
    /\ smak_http_req_queue \in Seq(Message) /\ Len(smak_http_req_queue) <= QueueLength
    /\ posting \in Request \cup {None} /\ late \subseteq Request
    /\ games \in Seq(Nat) /\ nvs_id \in 0..Len(games)
    /\ current_id \in {NoId, nvs_id} /\ parsed \in 0..Len(games) /\ idx \in BOOLEAN
    /\ moves \subseteq [id : DOMAIN games, ply : Plies, n : Nat, round : Nat]
    /\ lost \subseteq 1..Len(sent) /\ tried \in 0..Len(sent)

Init ==
    /\ sent = <<>> /\ round = 0
    /\ send_queue = <<>> /\ running = TRUE /\ reader = "delay"
    /\ smak_http_req_queue = <<Token>> /\ posting = None /\ late = {}
    /\ nvs_id = NoId /\ current_id = NoId /\ parsed = NoId /\ idx = FALSE
    /\ games = <<>> /\ moves = {}
    /\ lost = {} /\ tried = 0

-----------------------------------------------------------------------------
(* The queues *)

\* Mutants: a message goes to the front, replaces the last one of a full queue,
\* or is written past the end.
EnqueueFront(queue, m) ==
    IF Len(queue) < QueueLength THEN <<m>> \o queue ELSE queue
EnqueueOver(queue, m) ==
    IF Len(queue) < QueueLength THEN Append(queue, m) ELSE [queue EXCEPT ![Len(queue)] = m]
EnqueuePast(queue, m) == Append(queue, m)

\* xQueueSend that does not wait, and whose result is ignored.
Enqueue(queue, m) == IF Len(queue) < QueueLength THEN Append(queue, m) ELSE queue
IsFull(queue) == Len(queue) >= QueueLength

Numbers(queue) == {queue[i].n : i \in DOMAIN queue} \ {Token.n}

-----------------------------------------------------------------------------
(* The board, and handle_rx: every piece USB delivers is taken for a message *)

HandleRx(m, pieces) ==
    LET garbled == [m EXCEPT !.what = GARBLED]
    IN  /\ running \/ pieces = 0
        /\ send_queue' = CASE pieces = 0 -> send_queue
                           [] pieces = 1 -> Enqueue(send_queue, m)
                           [] OTHER -> Enqueue(Enqueue(send_queue, garbled), garbled)
        /\ lost' = IF pieces = 1 /\ ~IsFull(send_queue) THEN lost ELSE lost \cup {m.n}

BoardSends(what) ==
    LET n == Len(sent) + 1
    IN  /\ n <= MaxMessages
        /\ sent' = Append(sent, what)
        /\ round' = IF what = NEW_GAME THEN n ELSE round
        /\ \E pieces \in 0..2 : HandleRx([n |-> n, round |-> round', what |-> what], pieces)
        /\ UNCHANGED <<running, reader, smak_http_req_queue, posting, late, idVars, tables, tried>>

\* The board starts again with the pieces in place, and sends nothing.
BoardRestarts ==
    /\ Len(sent) < MaxMessages
    /\ sent' = Append(sent, NEW_GAME)
    /\ round' = Len(sent') /\ lost' = lost \cup {round'}
    /\ UNCHANGED <<readerVars, smak_http_req_queue, posting, late, idVars, tables, tried>>

-----------------------------------------------------------------------------
(* read_queue_task *)

\* The notification is looked for after the delay only.
ReaderWakes ==
    /\ reader = "delay"
    /\ reader' = IF running THEN "receive" ELSE "done"
    /\ UNCHANGED <<boardVars, send_queue, running, smak_http_req_queue, posting, late, idVars,
                   tables, lost, tried>>

\* Mutant: a message that cannot be decoded ends the task.
ReadMessageOrEnd ==
    LET m == Head(send_queue)
    IN  /\ reader = "receive" /\ running /\ send_queue # <<>>
        /\ send_queue' = Tail(send_queue)
        /\ reader' = IF m.what = GARBLED THEN "done" ELSE "delay"
        /\ IF m.what = GARBLED \/ IsFull(smak_http_req_queue)
           THEN lost' = lost \cup {m.n} /\ UNCHANGED smak_http_req_queue
           ELSE smak_http_req_queue' = Enqueue(smak_http_req_queue, m) /\ UNCHANGED lost
        /\ UNCHANGED <<boardVars, running, posting, late, idVars, tables, tried>>

ReadMessage ==
    LET m == Head(send_queue)
    IN  /\ reader = "receive" /\ running /\ send_queue # <<>>
        /\ send_queue' = Tail(send_queue)
        /\ reader' = "delay"
        /\ IF m.what = GARBLED
           THEN lost' = lost \cup {m.n} /\ UNCHANGED smak_http_req_queue
           ELSE /\ smak_http_req_queue' = Enqueue(smak_http_req_queue, m)
                /\ lost' = IF IsFull(smak_http_req_queue) THEN lost \cup {m.n} ELSE lost
        /\ UNCHANGED <<boardVars, running, posting, late, idVars, tables, tried>>

\* app_main closes the devices, notifies the reader and deletes the queue; a
\* reader that waits in the queue stays there.
Quit ==
    /\ running /\ running' = FALSE
    /\ send_queue' = <<>> /\ lost' = lost \cup Numbers(send_queue)
    /\ UNCHANGED <<boardVars, reader, smak_http_req_queue, posting, late, idVars, tables, tried>>

-----------------------------------------------------------------------------
(* The database service *)

Row(p) == [id |-> p.id, ply |-> p.msg.what, n |-> p.msg.n, round |-> p.msg.round]

\* Mutant: moves are saved under the newest game.
UpsertNewest(p) ==
    {mv \in moves : mv.id # Len(games) \/ mv.ply # p.msg.what}
        \cup {[Row(p) EXCEPT !.id = Len(games)]}

\* A move's key is its game and its ply.
Replaced(p) == {mv \in moves : mv.id = p.id /\ mv.ply = p.msg.what}
Upsert(p) == (moves \ Replaced(p)) \cup {Row(p)}

ServiceHandles(p) ==
    \/ /\ p.msg.what = NEW_GAME
       /\ games' = Append(games, p.msg.n) /\ UNCHANGED moves
    \/ /\ p.msg.what \in Plies /\ p.id \in DOMAIN games
       /\ moves' = Upsert(p) /\ UNCHANGED games

\* A request that was given up arrives, if it arrives at all.
LateRequest ==
    \E p \in late :
        /\ late' = late \ {p}
        /\ ServiceHandles(p)
        /\ UNCHANGED <<boardVars, readerVars, smak_http_req_queue, posting, idVars, lost, tried>>

-----------------------------------------------------------------------------
(* smak_connectivity_task *)

NextCommand ==
    /\ posting = None /\ smak_http_req_queue # <<>>
    /\ posting' = [msg |-> Head(smak_http_req_queue), id |-> nvs_id]
    /\ smak_http_req_queue' = Tail(smak_http_req_queue)
    /\ tried' = IF posting'.msg.what = AUTH_TOKEN_GET THEN tried ELSE posting'.msg.n
    /\ UNCHANGED <<boardVars, readerVars, late, idVars, tables, lost>>

\* smak_http_auth_token_get, with or without a token.
TokenEnds ==
    /\ posting # None /\ posting.msg.what = AUTH_TOKEN_GET
    /\ posting' = None
    /\ UNCHANGED <<boardVars, readerVars, smak_http_req_queue, late, idVars, tables, lost, tried>>

\* What resp_buf parses to after a response: a whole one counts only if it was
\* written at the start of the buffer; a part of one may be enough, too little,
\* or leave the old one in place.  Left out: a part that ends inside the digits
\* of the id, over the longer or shorter number of an earlier response.
Reads(how, id) ==
    CASE how = "silent"            -> {parsed}
      [] how # "silent" /\ idx     -> {parsed, NoId}
      [] how = "answered" /\ ~idx  -> {id}
      [] how = "refused" /\ ~idx   -> {NoId}
      [] how = "cut" /\ ~idx       -> {parsed, NoId, id}

\* Only HTTP_EVENT_ON_FINISH sets idx back to 0.
IdxAfter(how) ==
    CASE how = "silent" -> idx [] how = "cut" -> TRUE [] OTHER -> FALSE

\* Mutant: what was read is stored even if it is no id.
SmakGameidStoreAny(id, writes) ==
    IF id # current_id /\ writes
    THEN nvs_id' = id /\ current_id' = id
    ELSE UNCHANGED <<nvs_id, current_id>>

\* smak_http_post_game compares with the id in flash, smak_gameid_store with the
\* copy; writes says whether flash could be written.
SmakGameidStore(id, writes) ==
    IF id \notin {NoId, nvs_id, current_id} /\ writes
    THEN nvs_id' = id /\ current_id' = id
    ELSE UNCHANGED <<nvs_id, current_id>>

\* How a request may end: answered, cut off while its response is read, refused
\* (no token, no such game), or silent until the time is up.
RequestEnds(how) ==
    /\ posting # None /\ posting.msg.what # AUTH_TOKEN_GET
    /\ posting' = None
    /\ IF how \in {"answered", "cut"} THEN ServiceHandles(posting) ELSE UNCHANGED tables
    /\ late' = IF how = "silent" THEN late \cup {posting} ELSE late
    /\ idx' = IdxAfter(how)
    /\ UNCHANGED <<boardVars, readerVars, smak_http_req_queue, tried>>

SmakHttpPostMove ==
    \E how \in {"answered", "cut", "refused", "silent"} :
        /\ RequestEnds(how)
        /\ posting.msg.what \in Plies
        /\ lost' = IF how \in {"answered", "cut"} THEN lost ELSE lost \cup {posting.msg.n}
        /\ UNCHANGED <<nvs_id, current_id, parsed>>

\* The result of the request is not looked at, only the buffer.
SmakHttpPostGame ==
    \E how \in {"answered", "cut", "refused", "silent"}, writes \in BOOLEAN :
        /\ RequestEnds(how)
        /\ posting.msg.what = NEW_GAME
        /\ parsed' \in Reads(how, Len(games) + 1)
        /\ SmakGameidStore(parsed', writes)
        /\ lost' = IF nvs_id' = Len(games) + 1 THEN lost ELSE lost \cup {posting.msg.n}

-----------------------------------------------------------------------------
\* The gateway loses power: only flash remains.
Restart ==
    /\ send_queue' = <<>> /\ running' = TRUE /\ reader' = "delay"
    /\ smak_http_req_queue' = <<Token>> /\ posting' = None
    /\ late' = IF posting = None THEN late ELSE late \cup {posting}
    /\ current_id' = NoId /\ parsed' = NoId /\ idx' = FALSE
    /\ lost' = lost \cup Numbers(send_queue) \cup Numbers(smak_http_req_queue)
                    \cup (IF posting = None THEN {} ELSE {posting.msg.n} \ {Token.n})
    /\ UNCHANGED <<boardVars, nvs_id, tables, tried>>

ConnectivityTask == NextCommand \/ TokenEnds \/ SmakHttpPostMove \/ SmakHttpPostGame
ReadQueueTask == ReaderWakes \/ ReadMessage

Next ==
    \/ \E what \in Plies \cup {NEW_GAME} : BoardSends(what)
    \/ BoardRestarts \/ Quit \/ Restart \/ LateRequest
    \/ ReadQueueTask \/ ConnectivityTask

Spec == Init /\ [][Next]_vars

\* The tasks run, and a request ends at the latest when its time is up.
FairSpec == Spec /\ WF_vars(ReadQueueTask) /\ WF_vars(ConnectivityTask)

-----------------------------------------------------------------------------
(* What the gateway is for *)

\* Messages on their way: what the connectivity task carries out, then the
\* commands, then what waits to be read.
Pipeline == (IF posting = None THEN <<>> ELSE <<posting.msg>>)
                \o smak_http_req_queue \o send_queue
Pending == Numbers(Pipeline)

\* A move is stored under the game of its round; under an earlier one only if the
\* new game of its round was lost, and never under a later one: whatever is
\* dropped, cut, refused, late or restarted, the next new game that goes through
\* puts the gateway right (smak_conn.c:358-383, smak_util.c:68).
MovesOfTheirGame ==
    \A mv \in moves :
        \/ games[mv.id] = mv.round
        \/ games[mv.id] < mv.round /\ mv.round \in lost

\* The gateway never goes back to an earlier game, though it stores whatever id
\* lies in a buffer that is never cleared (smak_conn.c:333, 360-380).
GameNeverGoesBack == [][nvs_id' >= nvs_id]_vars

\* A message that can be carried out.
IsCommand(m) == m.what \notin {GARBLED, AUTH_TOKEN_GET}

\* Commands are carried out in the order the board sent them, each once, and what
\* waits comes after what was carried out (main.c:140, smak_conn.c:557).
CarriedOutInOrder ==
    LET waiting == smak_http_req_queue \o send_queue
        I == {i \in DOMAIN waiting : IsCommand(waiting[i])}
    IN  /\ \A i \in I : tried < waiting[i].n
        /\ \A i, j \in I : i < j => waiting[i].n < waiting[j].n

\* Message n made its game, or its move is stored or was replaced by a later one of
\* the same ply, or by a request that was given up and came late.
Reached(n) ==
    \/ \E id \in DOMAIN games : games[id] = n
    \/ \E mv \in moves :
          /\ mv.ply = sent[n] /\ games[mv.id] < n
          /\ mv.n >= n \/ mv.n \in lost

\* A message that is neither on its way nor given up has reached the database.
\* Nothing disappears but by a full queue, a piece of a message, a failed request
\* or a restart (main.c:140, smak_conn.c:595).
NothingDisappears ==
    \A n \in DOMAIN sent \ (Pending \cup lost) : Reached(n)

\* The pipeline runs empty again and again: no message waits for ever, whatever
\* the ones before it met (main.c:391-433, smak_conn.c:544-590).
PipelineEmpties == []<>(Pending = {})
=============================================================================
