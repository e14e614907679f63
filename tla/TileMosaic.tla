------------------------------ MODULE TileMosaic ------------------------------
(***************************************************************************)
(* How the 3x3 mosaic of the KPI#13 viewer is put together.  The tester    *)
(* (tester-mandelbrot-redis.ts) cuts each frame's view of the complex      *)
(* plane into nine chunks and, in `for (let i = 1; i <= 9; i++)`, renders  *)
(* chunk i and SETs it under the Redis key i.toString(); the backend       *)
(* (redis-ws-backend.ts) recovers the key from the keyspace channel name   *)
(* and pushes the key's current value; the web UI (App.tsx) takes the      *)
(* first run of digits in the key, minus one, as the tile index and        *)
(* renders the nine tiles in index order.                                  *)
(*                                                                         *)
(* An image is the chunk it was rendered from: [frame, key].  The order in *)
(* which notifications are handled and pushed is RedisWsBackend's concern; *)
(* here the backend may push any key at any time.  The view of a frame     *)
(* (lerp between zoom targets) is any of a few views whose extents are     *)
(* divisible by 3, so the tester's divisions are exact, as in real         *)
(* arithmetic; floating-point rounding at a seam is not modelled.  A       *)
(* string is a sequence of characters, each a string of length one.        *)
(***************************************************************************)
EXTENDS Integers, Sequences
LOCAL INSTANCE SequencesExt

CONSTANT MaxFrames   \* bound on the frames the tester writes

ASSUME MaxFrames \in Nat \ {0}

Rows   == 3      \* main: `const rows = 3, cols = 3`
Cols   == 3
NTiles == 9      \* App.tsx: `Array.from({ length: 9 }, ...)`; tiles.length

\* Views of the plane: [tlx, tly, brx, bry] with brx > tlx and bry < tly,
\* as the tester's top_left and bottom_right; width : height = 3 : 2 as in
\* `view_width = 3.0 * scale, view_height = 2.0 * scale`.
Views == { [tlx |-> -6, tly |-> 3, brx |-> 3, bry |-> -3],
           [tlx |-> -12, tly |-> 6, brx |-> 6, bry |-> -6] }

Tiles   == 0..(NTiles - 1)
KeyNums == 1..(Rows * Cols)
Image   == [frame : 1..MaxFrames, key : KeyNums]
NoImage == [frame |-> 0, key |-> 0]     \* imageUrl: '' ("Waiting for fractal data")

DigitChar == <<"0", "1", "2", "3", "4", "5", "6", "7", "8", "9">>
IsDigit(ch) == \E d \in 0..9 : DigitChar[d + 1] = ch
DigitValue(ch) == CHOOSE d \in 0..9 : DigitChar[d + 1] = ch

\* i.toString() for a positive integer: its decimal digits.
RECURSIVE ToDecimal(_)
ToDecimal(n) ==
    IF n < 10 THEN <<DigitChar[n + 1]>>
    ELSE Append(ToDecimal(n \div 10), DigitChar[(n % 10) + 1])

\* The keyspace channel of a key in database 0: `__keyspace@0__:<key>`.
Channel(key) == <<"__keyspace@0__", ":">> \o key

\* redis-ws-backend: `channel.split(':').slice(1).join(':')`, everything
\* after the first ':'.
KeyOfChannel(ch) == SubSeq(ch, SelectInSeq(ch, LAMBDA c : c = ":") + 1, Len(ch))

\* `key.match(/(\d+)/)[1]`: the leftmost maximal run of digits, or <<>>
\* when the key holds none.
FirstDigitRun(s) ==
    LET D     == {i \in DOMAIN s : IsDigit(s[i])}
        first == CHOOSE i \in D : \A j \in D : i <= j
        last  == CHOOSE j \in first..Len(s) :
                    /\ \A k \in first..j : IsDigit(s[k])
                    /\ (j = Len(s) \/ ~IsDigit(s[j + 1]))
    IN  IF D = {} THEN <<>> ELSE SubSeq(s, first, last)

\* parseInt(digits, 10).
ParseInt(ds) == FoldLeft(LAMBDA acc, d : 10 * acc + DigitValue(d), 0, ds)

\* onmessage: `tileIndex = -1`, then parseInt(match[1], 10) - 1 when the
\* key holds digits.
TileIndexOf(key) ==
    LET run == FirstDigitRun(key) IN IF run = <<>> THEN -1 ELSE ParseInt(run) - 1

\* onmessage: `tileIndex >= 0 && tileIndex < tiles.length` (data.image is
\* the non-empty base64 of a PNG).
TileAccepted(t) == t >= 0 /\ t < NTiles

\* Faulty variant: the row computed from the 1-based key, `i / cols`.
ChunkRowFromKey(i, v) ==
    LET row   == i \div Cols
        col   == (i - 1) % Cols
        xStep == (v.brx - v.tlx) \div Cols
        yStep == (v.bry - v.tly) \div Rows
    IN  [tlx |-> v.tlx + col * xStep, tly |-> v.tly + row * yStep,
         brx |-> v.tlx + col * xStep + xStep, bry |-> v.tly + row * yStep + yStep]

\* main, loop over i in 1..9: the corners of chunk i of view v.
Chunk(i, v) ==
    LET row   == (i - 1) \div Cols
        col   == (i - 1) % Cols
        xStep == (v.brx - v.tlx) \div Cols
        yStep == (v.bry - v.tly) \div Rows
    IN  [tlx |-> v.tlx + col * xStep, tly |-> v.tly + row * yStep,
         brx |-> v.tlx + col * xStep + xStep, bry |-> v.tly + row * yStep + yStep]

-----------------------------------------------------------------------------
VARIABLES
    frame,      \* frames begun (`step`)
    viewOf,     \* viewOf[f]: the view of frame f
    i,          \* the loop variable of `for (let i = 1; i <= 9; i++)`
    store,      \* Redis: key (a string) -> the image last SET under it
    tiles       \* the UI: tiles[t] is the image tile t shows

vars == <<frame, viewOf, i, store, tiles>>

TypeOK ==
    /\ frame \in 1..MaxFrames /\ viewOf \in [1..MaxFrames -> Views]
    /\ i \in 1..(Rows * Cols + 1)
    /\ \A k \in DOMAIN store : store[k] \in Image
    /\ tiles \in [Tiles -> Image \cup {NoImage}]

(* The first frame's view is computed, no key is set yet, and the UI's     *)
(* mount effect makes nine empty tiles.                                    *)
Init ==
    /\ frame = 1 /\ viewOf \in [1..MaxFrames -> Views] /\ i = 1
    /\ store = <<>>
    /\ tiles = [t \in Tiles |-> NoImage]

(* One iteration of the loop: the chunk of key i is rendered and           *)
(* `await redis.set(i.toString(), hexPng)` stores it.                      *)
TesterSet ==
    /\ i <= Rows * Cols
    /\ store' = [k \in DOMAIN store \cup {ToDecimal(i)} |->
                    IF k = ToDecimal(i) THEN [frame |-> frame, key |-> i] ELSE store[k]]
    /\ i' = i + 1
    /\ UNCHANGED <<frame, viewOf, tiles>>

(* The loop ends: `step++`, the next frame's view, the loop starts again.  *)
NextFrame ==
    /\ i = Rows * Cols + 1 /\ frame < MaxFrames
    /\ frame' = frame + 1 /\ i' = 1
    /\ UNCHANGED <<viewOf, store, tiles>>

(* The backend handles the keyspace notification of key k: the key is cut *)
(* from the channel name and the value GET is pushed as { key, image };    *)
(* the UI's onmessage parses the key to a tile index and, when it is in    *)
(* range, shows the image there.                                           *)
Push(k) ==
    LET key == KeyOfChannel(Channel(k))
        t   == TileIndexOf(key)
    IN  /\ TileAccepted(t)
        /\ tiles' = [tiles EXCEPT ![t] = store[k]]
        /\ UNCHANGED <<frame, viewOf, i, store>>

Next == TesterSet \/ NextFrame \/ \E k \in DOMAIN store : Push(k)

Spec == Init /\ [][Next]_vars

-----------------------------------------------------------------------------
(* Properties                                                              *)

\* Cell t of the 3x3 grid over view v, tiles laid out three to a row in
\* index order.
Cell(t, v) ==
    LET w == v.brx - v.tlx
        h == v.bry - v.tly
    IN  [tlx |-> v.tlx + ((t % Cols) * w) \div Cols,
         tly |-> v.tly + ((t \div Cols) * h) \div Rows,
         brx |-> v.tlx + (((t % Cols) + 1) * w) \div Cols,
         bry |-> v.tly + (((t \div Cols) + 1) * h) \div Rows]

(* Every tile shows a chunk that belongs in its cell: the corners of the   *)
(* chunk the tester rendered are exactly those of the tile's cell of the   *)
(* same frame's view, so the nine tiles of a frame join without a gap, an  *)
(* overlap or a chunk in another's place.  It relates the tester's 1-based *)
(* keys and row-major chunks, the backend's channel parsing and the UI's   *)
(* 0-based tile index, over all nine keys.                                 *)
TilesInPlace ==
    \A t \in Tiles :
        tiles[t] # NoImage =>
            Chunk(tiles[t].key, viewOf[tiles[t].frame]) = Cell(t, viewOf[tiles[t].frame])

=============================================================================
