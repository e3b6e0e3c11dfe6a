# A verification of the SMAK chess board

SMAK is a chess board that knows what is played on it. The board senses which squares carry a piece; its
microcontroller reconstructs the game from lifts and puts and sends each move on; a gateway posts the moves to
a database service; an evaluation service asks a chess engine about them; a web page shows games and
evaluations on a chessboard widget. This directory holds TLA+ models of that system, the TLC runs that check
them, and theorems about them proved with TLAPS. Source paths below are relative to `src/`; `js/` is
`newnewWebinterface/wwwroot/js/`.

## Inventory

| Part | Source | State it keeps | Operations |
|---|---|---|---|
| Board state machine | `smakfirmware/stm32/src/fsm.c`, `model.c` | SMF state, `state_val`, board, x, y, castling rights, en passant, ply counters, `shell_obj` | `pin_change` and the 27 `*_run` handlers, `reset_fsm` |
| Board threads | `fsm.c` 1133-1217, `main.c` 42-54, 216-246 | `fsm_fifo`, `sem_fifo_access`, `move_check_list` | shell commands lift, put, reset, state; the listener thread |
| Move records | `main.c` 190-214, `smak.proto` | none but `shell_obj` | shell command send |
| Gateway, USB side | `smakfirmware/esp32s3/main/main.c`, `smak_util.c` | device slots, `send_queue` (8), application queue (16) | receive callback, connect, disconnect, `read_queue_task`, quit by button |
| Gateway, HTTP side | `smak_conn.c`, `smak_storage.c` | request queue (8), token, response buffers, game id in flash and its copy | post game, post move, patch game, get token |
| Gateway, update and access point | `smak_ota.c`, `version_softap.c` | partition, Wi-Fi state | update, configure |
| Database service | `db-rest/` | users, boards, games, moves | REST create, read, update |
| Engine session | `ChessRest/uci_ipc/` | engine process, its pipes, `m_board`, `m_eval` | new game, set position, make moves, evaluate |
| Evaluation endpoint | `ChessRest/api_endpoint/`, `chessclientlib/` | one engine session per request | positions of a game, evaluations |
| Web viewer | `js/geteval.js`, `Pages/Index.cshtml` | `move_array`, `fens`, `evals`, `evals_dict`, `selected_id`; the page's `board`, `index`, `positions`; two tables; the form's disabled control | submit, next, prev, to start, to end, jump, reset; `getFen`, `updateEvals` |
| Older web viewer | `webinterface/geteval.ts`, `index.html` | the same | the same; its submit button is disabled while a game loads |
| Chessboard widget | `js/chessboardjs/js/chessboard-1.0.0.js` | `currentPosition`, orientation, square size, the elements and their effects, the dragged piece and the captured square offsets | `position`, `move`, `clear`, `start`, `orientation`, `flip`, `resize`; mouse and touch handlers; animations; FEN |
| Web login | `newnewWebinterface/Program.cs`, `Pages/` | cookie, tokens | login, refresh, register |
| Deployment | `ansible/` | | |

**How they interact.** `lift` and `put` on the board's shell (which stand for the sensors) queue an event; the
listener thread takes it and calls `pin_change`, which runs the handler of the current state. The last
completed move lies in `shell_obj`, a single slot; `send` puts it on USB, and `reset` sends a new-game message.
The gateway's receive callback queues what USB delivers (dropping it when the queue is full), a task decodes
one message a second and queues a command (dropping it when that queue is full), a third task carries commands
out as HTTP requests. Moves are upserted by (game, ply); the game is the id in the gateway's flash, which is
parsed from the response to the post of a game. The evaluation endpoint reads the moves of a game from the
database, replays them and asks the engine. The page asks the endpoint for the fens of a game, then for one
evaluation after the other, while its buttons step through the game and call `move` and `position` of the
widget; the widget answers at once and animates afterwards.

**What is hard.** In the board: a move is spread over up to four events in several orders, any of which may be
another event; what was learned early (x, y, rights, the en passant square) is used late; reset takes no lock
against the listener. In the gateway: three tasks, two queues that drop, a response buffer that is never
cleared, an id that is used when a move is posted and not when it was made, requests that time out and still
arrive. In the page: requests outlive the selection they were made for; loops of several submits run at once
over lists the others replace. In the widget: animations of several calls overlap, each redraws the board when
the last of its callbacks has come, and a drag works on offsets captured when it began. In the services:
check-then-save without transactions, a search that outlives its timeout. `PROJECT.json` lists each hazard at
its line with the properties that cover it.

**What makes each part correct.** Board: remembered pieces are real, rights and kings agree, the record
describes the board, the board agrees with the table, events are handled once and in order, and together they
amount to a game of whole moves. Gateway: a move is stored under the game it was made in, commands are carried
out in order, losses are only those of a full queue, a broken message, a failed request or a restart. Viewer:
what is shown belongs to the game that is loaded, and nothing stays missing. Widget: at rest the board shows
its position, and a drag makes and loses no piece. Database: references hold and concurrent changes are not
lost. Engine: an answer belongs to its question.

## Modules

| Module | Models | Correspondence |
|---|---|---|
| `BoardModel` | `model.h`, `model.c` | pieces as letters, squares 0..63 with a8 = 0, home squares of castling, starting board |
| `BoardFsm` | `fsm.c` | one variable per field of `struct chess_state` that outlives an event, one definition per handler |
| `AtomicGame` | abstract | a game in which whole moves happen, one per ply |
| `PhysicalBoard` | the table | adds the squares that really carry a piece; hands lift what stands and put where nothing does |
| `BoardThreads` | threads in `fsm.c`, `main.c` | shell and listener step by step, scheduled by priority |
| `Gateway` | `esp32s3/main/main.c`, `smak_conn.c`, `smak_storage.c`, the tables of games and moves | one action per step of a task, from the board's message to the row in the database |
| `ChessPosition` | `chessboard-1.0.0.js` | positions as functions, `calculatePositionFromMoves`, `calculateAnimations` |
| `Fen` | `chessboard-1.0.0.js` | `validFen`, `fenToObj`, `objToFen`, over short texts |
| `Throttle` | `chessboard-1.0.0.js` | `throttle`: calls, the timer, a pending call |
| `Chessboard` | `chessboard-1.0.0.js` | the widget: position, elements with their effect queues, animation batches, the drag |
| `GamePage` | `geteval.ts`, `Index.cshtml` | the buttons and tables, everything that does not wait |
| `Viewer` | `geteval.ts`, the submit handler | calls of `getFen` and `updateEvals` that wait, each step from one await to the next |
| `CompiledViewer` | `js/geteval.js` | the same functions as the compiler's machines over labels and try statements |
| `GamePlayer` | abstract | a player of games: open, forward, back, to the start |
| `MC*` | | instances for TLC |
| `*_proofs` | | the theorems about the module of that name, and the lemmas they need; `WidgetParts_proofs` is about the parts of the widget that `MCWidgetParts` puts side by side, with the lemmas of `ChessPosition_proofs` |

**BoardFsm.** An action is one call of `pin_change(pin, is_up)`, the whole of it: the choice of the handler,
the handler with all it calls, and SMF's bookkeeping. White's and black's handlers mirror each other and are
one definition with the colour as parameter; the pairs were compared line by line, and the two places where
they differ are written as they differ: `AbortCapture` (white reports error and goes to black, fsm.c:434;
black goes to error) and the target square of a castling record (fsm.c:93). A machine state is a colour, a
phase and, in castling, a wing, which is the naming scheme of `enum states`. Fields that `pin_change`
recomputes at each event (`piece`, `is_up`, `is_empty_square`, `can_castle`, ...) are expressions over the
board. `Current` is the state whose handler runs: the first event after a reset starts the machine in white.
`terminated` is SMF's terminate value; a terminated machine ignores events until a reset. An ordinary king move
enters `white_move` and runs it at once (the nested `pin_change` of fsm.c:601), so it is one action.
SMF (`smf_set_state`, `smf_run_state`) is Zephyr's and is modelled from how `fsm.c` uses it.

**AtomicGame** says what a reader of the board and of the records may rely on: a move of a piece of the side to
move, a capture, an en passant capture, a castling with king and rook at home; nothing in between shows. It
also admits what `fsm.c` can do and chess cannot: white may lose its turn, the game may halt, and a capture
taken for an en passant may clear the square the capturer was put on. It is not the rules of chess, which the
firmware does not check.

**PhysicalBoard.** `BoardFsm` accepts any event; here hands can lift only what stands and put only on a free
square, in any order, so every way to play, including nonsense, remains. `OccupancyTracked` says that the
machine's board and the table agree but for what is in the air. It breaks in exactly three ways, which
`Derails` names: white gives up a capture; a capture on an en passant square that is the captured piece's own;
a capturing piece put back on its own square when that is the en passant square. A run shows (and the proof
establishes) that there is no fourth.

**BoardThreads.** The events are numbers and the machine's state is the sequence of events it has handled, so
that a lost, repeated, reordered or torn event shows. `pin_change` is two steps (read, write) and `reset_fsm`
is two steps, so that they could tear each other. `ShellMayRun` and `ListenerMayRun` are the scheduler. The
variable `listenerFirst`, chosen in `Init`, says which build it is: in the firmware the listener (priority 7,
fsm.c:1178) preempts the shell (Zephyr's lowest application priority); in the test build the test thread is
cooperative and the listener waits for it to sleep.

**Gateway.** The board's messages are numbered, so that one that is lost, reordered or stored under a wrong
game shows. A *round* is the time between two new games on the board; a game in the database remembers the
round it was made for. `HandleRx` takes each piece that USB delivers for a message: a message may come whole,
in pieces that cannot be decoded, or not at all. `ReadQueueTask` and `ConnectivityTask` are the two tasks; a
command is taken and its id read from flash in one step (`NextCommand`), its request ends in another. A request
is answered, cut off while its response is read, refused (no valid token, no such game), or silent until the
time is up, in which case it may still reach the service (`LateRequest`). `parsed` and `idx` are what the code
leaves in its static buffer: the response to a failed post is whatever was parsed before (smak_conn.c:333-383).
One outcome of a cut response is left out: a cut inside the digits of the id, over the response of before, which
is never cleared. Where the old id is 99 and the new one 100, `{"id":1` over `{"id":99` reads as 19, an id of
neither; `GameNeverGoesBack` and `MovesOfTheirGame` do not speak of that. The response is one short body, so it
would have to be split at just that byte.
`SmakGameidStore` compares with flash and with the copy beside it and may fail to write. `Restart` is a loss of
power: only flash remains; `BoardRestarts` is one of the board, which then plays a new game it never announces.
The queues of FreeRTOS and the service are modelled from how the gateway uses them.

**ChessPosition, Fen, Throttle, Chessboard.** The widget, with the board's size as a parameter. An element on a
square carries the queue of its jQuery effects; a removed element loses its queue while the effect that runs
still calls back (`orphans`). A batch is one call of `doAnimations`: the number of its animations and of the
callbacks that have come; when they are equal the board is redrawn. The order in which effects end is left
open. A drag keeps the source square, the piece and the offsets of the squares captured at its beginning, which
a second finger replaces. The dragged piece is one element with a queue of its own: each snap or fade on it hides
it when it ends, whatever is dragged by then, and a snap draws the board as well. `config` gives what a page
configures. Calls of the page and drags may come at any time, during each other and during animations;
`DraggedPieceIsSeen` and `DragsKeepPieces` say what such an interleaving may do to the piece that is dragged.

**GamePage, Viewer.** `GamePage` has the handlers that run to their end; a jump, which clicks a button again
and again, is a number of clicks left (`clicks`) during which nothing else happens. `Viewer` adds the calls
that wait. `use` says how the page is used: which page it is (the older page disables its submit button, the
newer one a list), whether the user waits for a game to load before playing it, whether the user waits for the
evaluations before loading another, and whether evaluations may fail. What the page promises depends on these,
and each property says on which. A position is uninterpreted: `Apply` of the move.

**CompiledViewer** is what runs in the browser: `__awaiter` and `__generator` with the switch over labels of
each function, break and try instructions and the table of try statements, with several machines waiting at
once and any await failing. It implements a `Viewer` that is used in any way.

**GamePlayer** is what a user who waits sees: a game, a place in it, and the position there.

## Runs

An MC module chooses the configuration of an instance in `Init` (a set of hands, a part, a way to use the
page), so that one run covers the cases of one question.

| Run | Question | Instance and bounds | Result |
|---|---|---|---|
| `Fsm` | rights and the king's stay; remembered pieces; does the record describe the board; does a piece appear; is every event a whole move or invisible | five sets of squares: castling on either wing, en passant, promotion, counters that wrap; 2, 1, 2, 2 plies, and `U8` - 1 with `U8` = 4 | holds |
| `FsmMoverOnTarget` | does a piece stand where it was put | as `Fsm` | violated |
| `Phys` | does the board agree with the table | castling, 5 plies; en passant, 4 plies; `U8` = 8 | holds |
| `Threads` | order, tearing, prompt, lost wake-ups, in both builds | 6 events, 3 resets | holds |
| `ThreadsStateCommand` | does the state command show the machine's state after a reset | 3 events, 1 reset | violated |
| `WidgetParts` | do planned animations lead to the target and fade nothing that could move; is a piece lost by moves; which texts are accepted; is the last call throttled away | board of 3 by 2, up to 3 pieces, texts up to 7 characters; an interval of 4 ticks, 5 calls | holds |
| `WidgetSteps` | does the board show the position although animations overlap, and does it come to that | board of 3 by 2, a game of 4 moves stepped through in any way, 5 animated changes | holds |
| `WidgetDrag` | is a dragged piece always to be seen; what parts it from its square; does a drop make a piece; does the board show the position in the end | board of 2 by 1, two widths, two configurations, 1 animated change, 2 queued effects; fingers, moves, turns and resizes at any time | holds |
| `Viewer` | does what is shown belong to the game that is loaded; is it complete in the end | games of up to 3 plies, one with an illegal move, one with nothing else; ids 0 to 4, 0 being refused; 2 submits; four ways of use | holds |
| `ViewerOtherGame` | the same without waiting for evaluations | as `Viewer` | violated |
| `Compiled` | does the compiled script do what is written | games of up to 3 plies; 2 submits | holds |
| `Gateway` | the game a move is stored under, order, losses, the id in flash, does the pipeline empty | queues of 2, one ply and new games, 4 messages | holds |

**Why the bounds are enough.** *Board.* Handlers look at the event's square, at x, y, the home squares and the
en passant square, so a handful of squares reaches every branch; each set is one theme: castling (king, rook,
both castling squares, and an enemy knight that can be put on any of them), en passant, promotion. The pieces
on other squares do not move. `BoardFsm` accepts a put on an occupied square and a lift of a piece already in
the air, so two plies already contain moves that on the table take more. `PlyBound` keeps TLC to the first
plies; `U8` is the number of values of the counters. In `Phys` the constraint `OnTrack` also stops at error and
after a derailment, where only a reset is of interest and the property promises nothing. *Threads.* Six events
and three resets let each step of the listener meet each step of two commands, and the fifo fill while the
semaphore is full. *Widget.* On 3 by 2 squares three pieces have ties between nearest pieces, pieces that stay,
appear and vanish at once; a text of 7 characters describes two rows with a character to spare; four calls may
fall into one interval and the fifth after it. Five overlapping changes let a batch be redrawn while two others
run. On two squares a drag has a source and another square, a capture, and points on a square, off it and, after
a resize, on the other one; two queued effects are a drag begun while one snap runs and dropped before it ends.
One change is animated at a time there (`WidgetSteps` overlaps them), and it fades only what has landed
(`FadesWhatLanded`, see the proofs). Its `VIEW` leaves out of the state what a drag that has ended leaves in the
variables of the drag: nothing reads them before the next drag sets them. *Viewer.* Two games
that begin alike share evaluations; a third has an entry that shifts the others, and a fourth is empty once its
illegal move is taken out, so that a jump clicks without moves; two submits make two loops
over lists of different games, and a click may come between any two answers. *Gateway.* With queues of two, two
messages wait, a third is dropped; four messages make two rounds with a move each, whichever of them is lost,
or one new game and three moves of one ply, of which the later replace the earlier. The theorems remove the
bounds where there is one.

**Fairness.** `BoardThreads`: the listener takes a step when it can (it is the highest thread that is ready, or
the shell is idle) and the shell finishes a command it has begun; commands are never assumed to come.
`Throttle`: the browser's clock and timer go on. `Chessboard`: an animation that runs ends. `Viewer`: a script
that runs ends (the clicks of a jump), and the answers that are awaited come or fail; this second is strong
fairness, because no answer is taken while a jump clicks, and jumps may come again and again. `Gateway`: the
two tasks run, and a request ends at the latest when its time is up (`esp_http_client`'s timeout); nothing is
assumed of messages, of the service or of restarts.

**Deadlock** is not checked where bounds end a run or the user may stop: `Threads`, `ThreadsStateCommand`,
`WidgetParts` and the viewer's runs. It is checked in all others: the state machine accepts an event, the
widget a call and the gateway a restart in every state.

**What the violated runs show.** (1) After e2-e4, a black knight put on e3 and captured there by a white piece
takes that piece with it: the remembered en passant square is cleared by pawn moves, captures and castling
only. (2) `reset` leaves the list the state command reads, which then reports the game before. (3) A game
loaded while the evaluations of another are awaited gets the others' entered in its list.

## Proofs

* `BoardFsm_proofs`, for every set of squares, every width of the counters and any number of plies:
  `TypeCorrect`, `KingsStayHome`, `PiecesAreHeld`, `RecordsMatch`, `PiecesNeverAppear`. The inductive invariant
  is `Inv == TypeOK /\ KingHome /\ HeldPieces`, because the parts need each other: that castling empties the
  king's home and moves a real rook is known only from `HeldPieces`; that a right still held when a king is
  lifted means the king at home, and that no second king can appear when castling writes one, only from
  `KingHome`; that a king captured or moved takes its rights along, only from x and y holding a piece of each
  side. `RecordMatchesBoard` is inductive with `TypeOK` alone. The step is proved handler by handler, with
  lemmas on the effect of a completed move, a capture and a castling. `PiecesNeverAppear`, the action property
  `NoPieceAppears`, counts the squares of each kind of piece before and after each of these effects; that a
  queen comes only for a pawn needs one invariant more, that no pawn is left a pawn on its last rank
  (`PawnsBelow`): the queen counts for the pawn that left its square only if no pawn of its side stood where it
  was put.
* there too: `Refinement`, `Spec => ImplementsAtomicGame`, from the same invariant. Each handler
  that completes a move maps to `Move`, `CaptureEnPassant` or `Castle`; the others stutter, halt or skip.
* `PhysicalBoard_proofs`: `OccupancyIsTracked`. The invariant is `Inv`, that a terminated machine is in error,
  and the property itself.
* `BoardThreads_proofs`: `ThreadsTypeCorrect` for both builds; `EventsHandledInOrder` and `PromptsAreCurrent`
  for the one whose listener comes first, as `Spec => [](listenerFirst => HandledInOrder)`, for any number of
  events and resets. The invariant `ThreadsInv` adds to the property that at most one event is pending, the one
  last queued, that a reset meets none (`OnePending`), and that every event is counted in exactly one place
  (`Accounted`).
* `ChessPosition_proofs`: lemmas on positions for boards of every size: what putting, taking and moving pieces
  returns; that moves on disjoint squares commute; that a nearest square exists and is among those offered;
  and `AllAreMatched`, what the matching loop of `calculateAnimations` leaves: a piece that could move has
  moved, none has moved twice. A loop is a recursive function of the number of turns; its invariant (`MatchInv`)
  holds after each of them by the least-number principle, stated over sets (`LeastNumber`, `UpTo`), since the
  library's induction theorems take an operator.
* `WidgetParts_proofs`: `AnimationsLead` (`AnimationsReachTarget`), `NoPieceIsMade` (`MovesKeepPieces`), for any
  two positions and any order of the keys; `OneCallAnInterval` (`OncePerInterval`), with the invariant that the
  interval is over whenever no timer is set (`ThrottleInv`).
* there too, of the texts of positions (FEN), on boards of any size and with any letters: `TextsAccepted`
  (`AcceptsExactlyTheBoard`) and `TextsAndPositions` (`TextDeterminesPosition`). A row expands
  to as many squares as its characters are wide (`Columns`, the column after each of them), whatever way its
  digits are written, and a piece stands in the same column before and after. Squeezing is a loop over the
  runs of empty squares, from eight down to two, each a loop over the row that replaces the first run left: the
  row that comes out expands to the same squares, has no run of that length any more (`NoRun`) and no two digits
  side by side but after an 8 or where ones are still to be squeezed (`Tight`). That no text of the position has
  a shorter row is the pigeonhole principle: each character of a tight row begins in a column that lies in some
  character of the other row, and no two in the same one.
* loops are recursive functions in these modules, not RECURSIVE operators or folds; their invariants are proved
  over the set of turns taken (`UpTo`, `LeastNumber`).
* `Chessboard_proofs`, on every board and configuration:
  * `TypesAreKept` whatever the page does, with `TypeInv`: what is dragged is a piece, and a spare one only where
    there are spare pieces.
  * `DropsMakeNoPiece`, `Spec => DragsKeepPieces`, whatever the page does and when, from `TypeInv`: a step that
    leaves the variables of the drag alone parts the piece from its source only by another position; the begin of
    a drag sets both anew; and a drop from where the piece stands is a move, one of a spare piece adds one
    (`DropCounts`).
  * `RestShowsPosition` twice, each from a condition on the changes of position the page asks for. `RestInv`
    says of each batch that the callbacks still to come are never fewer than those it waits for, that they are
    none for a batch not yet made, and that while one of its pieces flies they are exactly those, each on an
    element with no other effect (`CountInv`); that the pieces of a batch that fly are all for the squares on the
    page or all for squares a redraw has replaced (`Together`), so that no two of them become one; and that the
    board is drawn when no redraw is due (`Settled`). No redraw is due when all batches have finished and the drag
    is `Quiet`: nothing is dragged and no snap is queued, or, where nothing is trashed, the end of a snap has
    hidden what is dragged and drawn the board, and no drag has begun since. Callbacks to come are counted over the effects that run,
    those of removed elements, and flights, and an end of an effect moves exactly one of them.
    * `RestShowsOneMoveAtATime`: the page changes the position by one move of one piece, with or without a
      capture, made or taken back, and may do so at any time, during animations and drags. This is what
      `WidgetSteps` checks on one game. The plan for such a change clears nothing and fades a piece in at
      most on the square that its captor leaves (`OneMoveIsAnimated`).
    * `RestShowsWhatLanded`: the page calls at any time, and each change of position fades only what has landed
      and stands still, once per square if something else sets out (`FadesWhatLanded`). Single moves
      are shown to meet this condition. What it excludes is a jump in the viewer during an animation, say to
      a position in which a piece on its way is gone: `fadeOut` finds no element on the square, and no callback
      comes for it.
  * `DraggedPiecesAreSeen`, under either condition, from the same `RestInv`: where nothing is trashed, a dragged
    piece that is not at the mouse has been hidden by the end of a snap, which makes the drag `Quiet`.

  The condition is needed. Let one change clear a square, fade another piece in on it, and move a third piece
  elsewhere: `fadeIn` is started on every element of the square (chessboard-1.0.0.js:1018-1021), so both elements
  fade in and then out, all call back, and the count of finished animations is full before the third piece has
  landed; the redraw comes early, and the piece that lands afterwards stands on its square twice. No move of chess
  is such a change, made or taken back: a capture keeps the capturing piece, which moves, so only a promotion with
  capture clears a square and fills it, and that moves nothing. It can happen in the viewer in one way: a reset of
  a game in which a promoted piece still stands on the home square of a piece it captured (`board.start()`, which
  may move others too). No doc or test of the widget speaks of it.
* `Viewer_proofs`, for any games, any rules of moving and any number of submits:
  * `BoardAlwaysShowsTheGame` (the positions are a set closed under moves; the positions kept behind `index` are
    a chain that a step back and forth extends but does not change; a game is loaded only with `index` at 0, as
    no other click comes between), `ListAlwaysShowsTheGame` (`ListInv`: while a game loads the list is empty,
    and only one game loads), `OnlyThisMoveIsSelected`.
  * `ThePagePlaysTheGame`, `Spec => PlaysTheGame`, the refinement of `GamePlayer`: with the invariant of the
    board every step of a page whose user waits is `Open`, `Forward`, `Back`, `Rewind` or a stutter.
  * `TypesAreKept` for any use, in two parts: evaluations and loops (`EvalTypes`), then the page (`PageTypes`).
  * `PatientEvaluationsFit` and `EvaluationShownIsOfTheMove`, from `PatientInv`: while a game loads nothing of
    another game is kept, awaited or shown, and what a loop waits for is of the game.
  * `EvaluationsGetComplete`, from `CompleteInv`: every fen of the game has its evaluation or is waited for by
    some loop, which need not be that of its own submit.
* `Gateway_proofs`, for queues of any length, any plies and number of messages: `GatewayTypeCorrect`,
  `MovesBelong` (`MovesOfTheirGame`), `NeverGoesBack` (`GameNeverGoesBack`), `CommandsInOrder`
  (`CarriedOutInOrder`), `NothingIsLostSilently` (`NothingDisappears`). The inductive invariant is
  `Inv == GatewayTypeOK /\ Order /\ Numbered /\ Rounds /\ Requests`. That a move is stored under a fitting
  game is not inductive: it needs that what is on the way is in order (`Order`), that numbers and rounds are
  those of messages sent (`Numbered`), that a round's new game is ahead of the round's moves, done, or lost,
  and that the ids the gateway may post under are not ahead of what is still on its way (`Rounds`), and that a
  request which was given up carries an id that fitted when it was made and fits for ever (`Requests`). A
  restart and a stale buffer can then only leave the id where it was: a game not announced is lost, and the
  game the id names is an earlier one. On top of it, `Carried` (what waits is numbered after what was carried
  out, and what a task holds is what was sent) gives the order, and `Delivered` (each message is on its way,
  given up, or carried out and in the database) that none is lost without a reason.

Assumptions, all stated by the modules that declare the constants and evaluated by TLC in a run: `Pins` are
squares, `U8` is positive, the bounds are numbers; boards have squares, and what callers pass to the widget are
positions and moves on them; what the service answers are lists of fens with plies within the bound, so that
`MaxPly` bounds the length of a game; a fen determines its ply, as its move counter and side do; the marks for
an illegal move, an empty cell and no evaluation are none of the fens and evaluations; messages that are no
plies are distinct, queues have at least one place, and the mark for no request is no request; each piece has a letter of its own in
the texts of positions, and no letter is a digit. The theorems of `Chessboard_proofs` on what is seen have,
besides, a hypothesis on the changes of position asked for.

**Only model-checked.** Liveness (`EveryEventIsHandled`, `LastCallArrives`, `PositionIsShown`, `EverythingEnds`,
`PipelineEmpties`), which is beyond this prover.
`DoesWhatIsWritten`, that the compiled script implements the written one: the compiled functions run from one
await to the next by RECURSIVE operators (`Step`, `UpdateEvals`).

## Not modelled

*Board.* Events off the board (`pin` above 63): the code reads outside `board[]` there, and what it finds is
not determined by the source. Exhaustion of the heap by events that are never freed. Shell commands that change
nothing.

*Gateway.* Devices that connect and disconnect (`smak_device` slots), of which one at a time sends. The token,
which is appended to by `strcat` and refreshed after about 41 hours: the model lets any request be refused, and
does not say when. Two messages that USB delivers as one piece (the second is ignored by the decoder). The
memory that `move_str` leaks. A read of flash that fails. `patch_game`, which nothing sends. A record sent
again after a reset counts as one of the new round. The vendored protobuf codec.

*Widget.* `destroy` and error reporting, highlights, the mouse-over callbacks, speeds of 0. Three things can be
seen in the model that no property speaks of, because nothing in the repository says what should be: where pieces
are trashed, a piece taken up while the last one fades is hidden by the end of that fade until it is dropped; a
page that changes the position during a drag makes the drop take another piece away, or put one back that was
captured; and after a turn or a resize during a drag the piece drops on the square that was at the mouse before.

*Viewer.* `getEval` and the handler of `tblbtn`, which the page does not reach; hovering.

*The rest*, and the plan for it:

1. `EngineSession`: requests, searches, timeouts, stale answers, `make_moves` and its partial undo; with it
   the evaluation endpoint.
2. `DbRest`: boards and users found or created, games patched, under concurrent requests. `Gateway` has the
   tables of games and moves as the gateway fills them.
3. `UsbHost`: device slots, disconnects, shutdown while tasks are blocked; tokens and their refresh.
4. Web login: cookie and token refresh, which depend on an external identity provider.

Not planned: the update (a line of library calls followed by a restart), the access point, the security
configuration (declarative, without state), deployment.
