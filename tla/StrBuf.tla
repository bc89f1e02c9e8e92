-------------------------------- MODULE StrBuf --------------------------------
(***************************************************************************)
(* The growing buffer of src/depends/json/strbuf.c, on which lua_cjson.c   *)
(* writes the text it encodes and gathers the strings it decodes.          *)
(*                                                                         *)
(* A buffer is a record: "size" bytes are allocated, "length" of them are  *)
(* written, and "past" says that some byte was ever written outside of the *)
(* allocation: the functions called unsafe do not look.  What is written   *)
(* is kept by the module that writes.                                      *)
(***************************************************************************)
EXTENDS Naturals, FiniteSetsExt

CONSTANT DefaultSize    \* STRBUF_DEFAULT_SIZE: 1023

NoBuffer == [size |-> 0, length |-> 0, past |-> FALSE]

Allocated(s) == s.size > 0

strbuf_init(len) ==
    [size |-> IF len = 0 THEN DefaultSize ELSE len + 1, length |-> 0, past |-> FALSE]

strbuf_reset(s) == [s EXCEPT !.length = 0]

\* One byte is kept for a final zero.
strbuf_empty_length(s) == s.size - s.length - 1

\* The increment is -2: the size is doubled until what is asked for fits.
calculate_new_size(s, len) ==
    IF s.size > len + 1 THEN len + 1
    ELSE s.size * 2 ^ Min({k \in 0 .. 12 : s.size * 2 ^ k >= len + 1})

strbuf_resize(s, len) == [s EXCEPT !.size = calculate_new_size(s, len)]

strbuf_ensure_empty_length(s, len) ==
    IF len > s.size - s.length - 1 THEN strbuf_resize(s, s.length + len) ELSE s

\* n bytes are written where the buffer ends, whatever was allocated.
Write(s, n) ==
    [s EXCEPT !.length = @ + n, !.past = @ \/ s.length + n > s.size]

strbuf_append_char_unsafe(s) == Write(s, 1)

strbuf_append_mem(s, n) == Write(strbuf_ensure_empty_length(s, n), n)

\* strbuf_append_string asks for room byte by byte, when there is none left.
strbuf_append_string(s, n) ==
    LET Grown[k \in 0 .. n] ==
            IF k = 0 THEN s
            ELSE LET b == Grown[k - 1]
                 IN  Write(IF strbuf_empty_length(b) < 1 THEN strbuf_resize(b, b.length + 1)
                           ELSE b, 1)
    IN  Grown[n]

strbuf_ensure_null(s) == [s EXCEPT !.past = @ \/ s.length >= s.size]
===============================================================================
