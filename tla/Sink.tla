-------------------------------- MODULE Sink --------------------------------
(***************************************************************************)
(* The sink every formatting function writes its result into, piece by     *)
(* piece: it keeps what the caller's buffer has room for and counts what   *)
(* the whole result would take (ci18n_sink_t).                             *)
(***************************************************************************)
EXTENDS Utf8

CONSTANT Stale      \* a byte the caller's buffer held before

EmptySink(capacity) == [capacity |-> capacity, out |-> << >>, needed |-> 0, full |-> FALSE]

PutWhatFits(sink, text) ==          \* mutant: a piece that fits is written after one that did not
    LET room == sink.capacity - 1 - Len(sink.out)
        cut == Len(text) > room
    IN  [sink EXCEPT !.needed = @ + Len(text),
                     !.out = IF sink.capacity = 0 THEN @
                             ELSE @ \o First(text, IF cut THEN TrimPartial(First(text, room)) ELSE Len(text))]

(* ci18n_sink_put() *)
Put(sink, text) ==
    LET counted == [sink EXCEPT !.needed = @ + Len(text)]
        room == sink.capacity - 1 - Len(sink.out)
    IN  IF sink.capacity = 0 \/ sink.full THEN counted
        ELSE IF Len(text) <= room THEN [counted EXCEPT !.out = @ \o text]
        ELSE [counted EXCEPT !.full = TRUE,
                             !.out = @ \o First(text, TrimPartial(First(text, room)))]

(* The room a formatter is given, with the byte for the NUL. *)
Room(sink) == IF sink.capacity = 0 \/ sink.full THEN 0 ELSE sink.capacity - Len(sink.out)

(* ci18n_sink_put_formatted(), for a formatter that wrote "kept" and a NUL *)
(* into its room and said that the whole was of "length" bytes.  What it   *)
(* did not write is as it was.                                             *)
PutFormatted(sink, kept, length) ==
    LET room == Room(sink)
        dest == kept \o <<0>> \o [i \in 1 .. room - 1 - Len(kept) |-> Stale]
        produced == First(dest, IF length > room - 1 THEN room - 1 ELSE length)
        counted == [sink EXCEPT !.needed = @ + length]
    IN  IF room = 0 THEN counted
        ELSE [counted EXCEPT !.full = length > room - 1,
                             !.out = @ \o First(produced, TrimPartial(produced))]

(* The string the caller finds in its buffer, which is terminated. *)
Shown(sink) ==
    LET nuls == {i \in DOMAIN sink.out : sink.out[i] = 0}
    IN  IF nuls = {} THEN sink.out
        ELSE First(sink.out, (CHOOSE i \in nuls : \A j \in nuls : i <= j) - 1)

(* ci18n_bidi_isolate() puts these around its text, and the formatting     *)
(* functions around a value.                                               *)
FSI == <<226, 129, 168>>
PDI == <<226, 129, 169>>

Isolated(sink, text) == Put(Put(Put(sink, FSI), text), PDI)
=============================================================================
