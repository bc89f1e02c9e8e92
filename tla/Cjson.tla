--------------------------------- MODULE Cjson ---------------------------------
(***************************************************************************)
(* cjson, src/depends/json/lua_cjson.c: the functions encode and decode of *)
(* one module table, its configuration, and the buffer it keeps between    *)
(* calls.  A call runs alone to its end; each step of the model is one     *)
(* turn of a loop of the encoder or of the parser.                         *)
(*                                                                         *)
(* A Lua value is a record whose field t is its type: strings hold their   *)
(* bytes, floats the characters that "%.14g" prints for them, tables the   *)
(* function "of" from keys to values, and "loop" is a table whose only     *)
(* element is the table itself.  lua_next visits keys in any order.        *)
(***************************************************************************)
EXTENDS JsonText, StrBuf

CONSTANTS IntMax,       \* the largest int of C
          DefaultDepth, \* DEFAULT_ENCODE_MAX_DEPTH, DEFAULT_DECODE_MAX_DEPTH: 1000
          MaxCalls,     \* bound on the calls, and
          MaxConfig     \* on the changes of the configuration

VARIABLES cfg,          \* json_config_t
          encode_buf,   \* cfg->encode_buf
          job,          \* the call that is running
          blocks,       \* buffers allocated and not freed
          last,         \* the last call that ended
          calls, configs
vars == <<cfg, encode_buf, job, blocks, last, calls, configs>>

Str(b) == [t |-> "string", b |-> b]
Integer(i) == [t |-> "integer", i |-> i]
Dbl(d) == [t |-> "number", d |-> d]
Boolean(x) == [t |-> "boolean", x |-> x]
Nil == [t |-> "nil"]
Null == [t |-> "null"]          \* the light userdata cjson.null
Table(f) == [t |-> "table", of |-> f]
Loop == [t |-> "loop"]
Failed == [t |-> "error"]

Entries(v) == IF v = Loop THEN Integer(1) :> Loop ELSE v.of

NaN == <<110, 97, 110>>
Inf == <<105, 110, 102>>
NegInf == <<Minus>> \o Inf
Infinity == <<73, 110, 102, 105, 110, 105, 116, 121>>
NullText == <<110, 117, 108, 108>>

Idle == [op |-> "idle"]

Init ==
    /\ cfg = [sparse_convert |-> FALSE, sparse_ratio |-> 2, sparse_safe |-> 10,
              encode_max_depth |-> DefaultDepth, decode_max_depth |-> DefaultDepth,
              encode_invalid_numbers |-> 0, decode_invalid_numbers |-> TRUE,
              keep |-> TRUE]
    /\ encode_buf = strbuf_init(0)
    /\ job = Idle
    /\ blocks = 1
    /\ last = Idle
    /\ calls = 0
    /\ configs = 0

-------------------------------------------------------------------------------
(* Configuration. *)

Configure(new) ==
    /\ job = Idle
    /\ configs < MaxConfig
    /\ configs' = configs + 1
    /\ cfg' = new
    /\ last' = Idle
    /\ UNCHANGED <<job, calls>>

\* An argument that is nil leaves the setting, one out of bounds is refused.
json_integer_option(setting, arg) == IF arg = Nil THEN setting ELSE arg.i
Refuses(arg, min) == arg # Nil /\ arg.i < min

\* The three options are set one after the other: an argument that is refused
\* leaves those before it set.
json_cfg_encode_sparse_array(convert, ratio, safe) ==
    LET c1 == [cfg EXCEPT !.sparse_convert = IF convert = Nil THEN @ ELSE convert.x]
        c2 == [c1 EXCEPT !.sparse_ratio = json_integer_option(@, ratio)]
    IN  /\ Configure(IF Refuses(ratio, 0) THEN c1 ELSE IF Refuses(safe, 0) THEN c2
                     ELSE [c2 EXCEPT !.sparse_safe = json_integer_option(@, safe)])
        /\ UNCHANGED <<encode_buf, blocks>>

json_cfg_max_depth(e, d) ==
    /\ Configure([cfg EXCEPT !.encode_max_depth = e, !.decode_max_depth = d])
    /\ UNCHANGED <<encode_buf, blocks>>

json_cfg_invalid_numbers(e, d) ==
    /\ Configure([cfg EXCEPT !.encode_invalid_numbers = e, !.decode_invalid_numbers = d])
    /\ UNCHANGED <<encode_buf, blocks>>

json_cfg_encode_keep_buffer(keep) ==
    /\ Configure([cfg EXCEPT !.keep = keep])
    /\ encode_buf' = IF keep = cfg.keep THEN encode_buf
                     ELSE IF keep THEN strbuf_init(0) ELSE NoBuffer
    /\ blocks' = IF keep = cfg.keep THEN blocks ELSE IF keep THEN blocks + 1 ELSE blocks - 1

\* The table of functions is collected; no call follows.
json_destroy_config ==
    /\ job = Idle
    /\ job' = [op |-> "collected"]
    /\ encode_buf' = NoBuffer
    /\ blocks' = IF Allocated(encode_buf) THEN blocks - 1 ELSE blocks
    /\ UNCHANGED <<cfg, last, calls, configs>>

-------------------------------------------------------------------------------
(* Encoding. *)

json_encode(v) ==
    /\ job = Idle
    /\ calls < MaxCalls
    /\ calls' = calls + 1
    /\ job' = [op |-> "encode", arg |-> v, val |-> <<v>>, stack |-> <<>>, out |-> <<>>,
               buf |-> IF cfg.keep THEN strbuf_reset(encode_buf) ELSE strbuf_init(0)]
    /\ blocks' = IF cfg.keep THEN blocks ELSE blocks + 1
    /\ last' = Idle
    /\ UNCHANGED <<cfg, encode_buf, configs>>

\* The call ends: a private buffer is freed, the kept one stays as it is.
End(result) ==
    /\ job' = Idle
    /\ last' = [op |-> job.op, arg |-> job.arg, result |-> result]
    /\ encode_buf' = IF cfg.keep THEN job.buf ELSE encode_buf
    /\ blocks' = IF cfg.keep THEN blocks ELSE blocks - 1
    /\ UNCHANGED <<cfg, calls, configs>>

\* Mutant: the private buffer of a call that fails is not freed.
ExceptionKeeps ==
    /\ job' = Idle
    /\ last' = [op |-> job.op, arg |-> job.arg, result |-> Failed]
    /\ encode_buf' = IF cfg.keep THEN job.buf ELSE encode_buf
    /\ UNCHANGED <<cfg, calls, configs, blocks>>

json_encode_exception == End(Failed)


json_append_string(buf, b) ==
    LET AppendByte(s, c) ==
            LET u == char2escape(c)
            IN  IF u.k = "byte" THEN strbuf_append_char_unsafe(s)
                ELSE strbuf_append_string(s, UnitBytes(u))
        room == strbuf_ensure_empty_length(buf, Len(b) * 6 + 2)
    IN  strbuf_append_char_unsafe(FoldLeft(AppendByte, strbuf_append_char_unsafe(room), b))

StringLexeme(b) == String([i \in DOMAIN b |-> char2escape(b[i])])

\* What is printed for a number; <<>> where it is refused.
DigitsOf(i) ==
    LET D[n \in Nat] == (IF n < 10 THEN <<>> ELSE D[n \div 10]) \o <<48 + (n % 10)>>
    IN  IF i < 0 THEN <<Minus>> \o D[-i] ELSE D[i]

NumberText(v) ==
    CASE v.t = "integer" -> DigitsOf(v.i)
      [] v.t = "number" /\ v.d \notin {NaN, Inf, NegInf} -> v.d
      [] OTHER -> CASE cfg.encode_invalid_numbers = 0 -> <<>>
                    [] cfg.encode_invalid_numbers = 2 -> NullText
                    [] OTHER -> IF v.d = NaN THEN <<78, 97, 78>>
                                ELSE (IF v.d = NegInf THEN <<Minus>> ELSE <<>>) \o Infinity

\* FPCONV_G_FMT_BUFSIZE bytes are made sure of for the digits, the words are
\* appended as they are.
FPCONV_G_FMT_BUFSIZE == 32
json_append_number(buf, v) ==
    LET n == Len(NumberText(v))
    IN  IF v.t = "number" /\ v.d \in {NaN, Inf, NegInf} THEN strbuf_append_mem(buf, n)
        ELSE Write(strbuf_ensure_empty_length(buf, FPCONV_G_FMT_BUFSIZE), n)

NumberLexeme(b) == IF b = NullText THEN Punct("null") ELSE Number(b)

\* Mutant: the elements are counted, the largest index is not looked for.
LengthByCount(f) ==
    IF \E k \in DOMAIN f : ~(k.t = "integer" /\ k.i >= 1) /\ k # Dbl(Inf) THEN {-1}
    ELSE {Cardinality(DOMAIN f)}

\* max is an int: a key that does not fit becomes the smallest int, and the
\* keys visited after it count from there.
lua_array_length(f) ==
    LET small == {k.i : k \in {k \in DOMAIN f : k.t = "integer" /\ k.i <= IntMax}}
        large == {k \in DOMAIN f : \/ k.t = "integer" /\ k.i > IntMax
                                   \/ k = Dbl(Inf)}
    IN  IF \E k \in DOMAIN f : ~(k.t = "integer" /\ k.i >= 1) /\ k # Dbl(Inf) THEN {-1}
        ELSE IF DOMAIN f = {} THEN {0}
        ELSE IF large = {} THEN {Max(small)}
        ELSE small \cup {-IntMax - 1}

IsSparse(f, max) ==
    /\ cfg.sparse_ratio > 0
    /\ max > Cardinality(DOMAIN f) * cfg.sparse_ratio
    /\ max > cfg.sparse_safe

Emit(buf, lexemes, stack) ==
    /\ job' = [job EXCEPT !.buf = buf, !.out = @ \o lexemes, !.val = <<>>, !.stack = stack]
    /\ UNCHANGED <<cfg, encode_buf, blocks, last, calls, configs>>

EmitMem(x) == Emit(strbuf_append_mem(job.buf, Bytes(x)), <<x>>, job.stack)

json_append_table(f) ==
    IF Len(job.stack) + 1 > cfg.encode_max_depth THEN json_encode_exception
    ELSE \E max \in lua_array_length(f) :
           IF IsSparse(f, max) /\ ~cfg.sparse_convert THEN json_encode_exception
           ELSE IF max > 0 /\ ~IsSparse(f, max)
                THEN Emit(strbuf_append_mem(job.buf, 1), <<Punct("[")>>,
                          <<[in |-> "array", of |-> f, i |-> 0, max |-> max]>> \o job.stack)
                ELSE Emit(strbuf_append_mem(job.buf, 1), <<Punct("{")>>,
                          <<[in |-> "object", of |-> f, todo |-> DOMAIN f, comma |-> FALSE]>>
                          \o job.stack)

json_append_data ==
    /\ job.op = "encode" /\ job.val # <<>>
    /\ LET v == job.val[1]
       IN  CASE v.t = "string" ->
                  Emit(json_append_string(job.buf, v.b), <<StringLexeme(v.b)>>, job.stack)
             [] v.t \in {"integer", "number"} ->
                  IF NumberText(v) = <<>> THEN json_encode_exception
                  ELSE Emit(json_append_number(job.buf, v), <<NumberLexeme(NumberText(v))>>,
                            job.stack)
             [] v.t = "boolean" -> EmitMem(Punct(v.x))
             [] v.t \in {"nil", "null"} -> EmitMem(Punct("null"))
             [] v.t \in {"table", "loop"} -> json_append_table(Entries(v))
             [] OTHER -> json_encode_exception

\* The next element of the array, nil where the table has none.
json_append_array ==
    /\ job.op = "encode" /\ job.val = <<>> /\ job.stack # <<>>
    /\ LET f == job.stack[1]
           comma == IF f.i > 0 THEN <<Punct(",")>> ELSE <<>>
           key == Integer(f.i + 1)
       IN  /\ f.in = "array"
           /\ IF f.i = f.max
              THEN Emit(strbuf_append_mem(job.buf, 1), <<Punct("]")>>, Tail(job.stack))
              ELSE /\ job' = [job EXCEPT
                         !.buf = IF f.i > 0 THEN strbuf_append_mem(@, 1) ELSE @,
                         !.out = @ \o comma,
                         !.val = <<IF key \in DOMAIN f.of THEN f.of[key] ELSE Nil>>,
                         !.stack = [@ EXCEPT ![1].i = f.i + 1]]
                   /\ UNCHANGED <<cfg, encode_buf, blocks, last, calls, configs>>

\* The next key of the object and its value.
json_append_object ==
    /\ job.op = "encode" /\ job.val = <<>> /\ job.stack # <<>>
    /\ LET f == job.stack[1]
           buf == IF f.in = "object" /\ f.comma THEN strbuf_append_mem(job.buf, 1) ELSE job.buf
       IN  /\ f.in = "object"
           /\ IF f.todo = {}
              THEN Emit(strbuf_append_mem(job.buf, 1), <<Punct("}")>>, Tail(job.stack))
              ELSE \E k \in f.todo :
                LET text == NumberText(k)
                    Key(b, x) ==
                      /\ job' = [job EXCEPT
                            !.buf = b,
                            !.out = @ \o (IF f.comma THEN <<Punct(",")>> ELSE <<>>)
                                      \o <<x, Punct(":")>>,
                            !.val = <<f.of[k]>>,
                            !.stack = [@ EXCEPT ![1].todo = @ \ {k}, ![1].comma = TRUE]]
                      /\ UNCHANGED <<cfg, encode_buf, blocks, last, calls, configs>>
                IN  CASE k.t = "string" ->
                           Key(strbuf_append_mem(json_append_string(buf, k.b), 1),
                               StringLexeme(k.b))
                      [] k.t \in {"integer", "number"} ->
                           IF text = <<>> THEN json_encode_exception
                           ELSE Key(strbuf_append_mem(
                                      json_append_number(strbuf_append_mem(buf, 1), k), 2),
                                    String([i \in DOMAIN text |-> Char(text[i])]))
                      [] OTHER -> json_encode_exception

EndEncode ==
    /\ job.op = "encode" /\ job.val = <<>> /\ job.stack = <<>>
    /\ End([t |-> "text", text |-> job.out])

-------------------------------------------------------------------------------
(* Decoding. *)

IsZero(t, i) == i \in DOMAIN t /\ t[i] = Punct("NUL")

\* A zero among the first two bytes is taken for UTF-16 or UTF-32.
NotUTF8(t) ==
    /\ TextBytes(t) >= 2
    /\ IsZero(t, 1) \/ (IsZero(t, 2) /\ Bytes(t[1]) = 1)

json_decode(t) ==
    /\ job = Idle
    /\ calls < MaxCalls
    /\ calls' = calls + 1
    /\ IF NotUTF8(t)
       THEN /\ last' = [op |-> "decode", arg |-> t, result |-> Failed]
            /\ UNCHANGED <<job, blocks>>
       ELSE /\ job' = [op |-> "decode", arg |-> t, text |-> t, stack |-> <<>>,
                       expect |-> "value", result |-> Nil, tmp |-> strbuf_init(TextBytes(t))]
            /\ blocks' = blocks + 1
            /\ last' = Idle
    /\ UNCHANGED <<cfg, encode_buf, configs>>

EndDecode(result) ==
    /\ job' = Idle
    /\ last' = [op |-> "decode", arg |-> job.arg, result |-> result]
    /\ blocks' = blocks - 1         \* strbuf_free(json->tmp)
    /\ UNCHANGED <<cfg, encode_buf, calls, configs>>

json_throw_parse_error == EndDecode(Failed)

Proceed(j) == job' = j /\ UNCHANGED <<cfg, encode_buf, blocks, last, calls, configs>>

Next1(j) == json_next_token(j.text, cfg.decode_invalid_numbers)

\* The token is taken: a string has gone through tmp.
Take(j, token) ==
    [j EXCEPT !.text = token.rest,
              !.tmp = IF token.type = "T_STRING"
                      THEN strbuf_ensure_null(Write(strbuf_reset(@), Len(token.string)))
                      ELSE @]

\* A value is complete: it goes into the table that is open, if any is.
Put(j, v) ==
    IF j.stack = <<>> THEN [j EXCEPT !.result = v, !.expect = "end"]
    ELSE LET key == IF j.stack[1].in = "array" THEN Integer(Cardinality(DOMAIN j.stack[1].of) + 1)
                    ELSE j.stack[1].key
         IN  [j EXCEPT !.stack[1].of = (key :> v) @@ @, !.expect = "more"]

json_decode_ascend(j) == Put([j EXCEPT !.stack = Tail(@)], Table(j.stack[1].of))

json_decode_descend(j, in) ==
    IF Len(j.stack) + 1 > cfg.decode_max_depth THEN json_throw_parse_error
    ELSE Proceed([j EXCEPT !.stack = <<[in |-> in, of |-> <<>>, key |-> Nil]>> \o @,
                           !.expect = "first"])

json_process_value(j, token) ==
    CASE token.type = "T_STRING" -> Proceed(Put(j, Str(token.string)))
      [] token.type = "T_NUMBER" -> Proceed(Put(j, Dbl(token.double)))
      [] token.type = "T_INTEGER" -> Proceed(Put(j, Integer(token.integer)))
      [] token.type = "T_BOOLEAN" -> Proceed(Put(j, Boolean(token.boolean)))
      [] token.type = "T_NULL" -> Proceed(Put(j, Null))
      [] token.type = "T_OBJ_BEGIN" -> json_decode_descend(j, "object")
      [] token.type = "T_ARR_BEGIN" -> json_decode_descend(j, "array")
      [] OTHER -> json_throw_parse_error

In(kind) == job.op = "decode" /\ job.stack # <<>> /\ job.stack[1].in = kind

json_parse_value ==
    /\ job.op = "decode" /\ job.expect = "value"
    /\ json_process_value(Take(job, Next1(job)), Next1(job))

json_parse_array_context ==
    /\ In("array")
    /\ LET token == Next1(job)
           j == Take(job, token)
       IN  \/ /\ job.expect = "first"
              /\ IF token.type = "T_ARR_END" THEN Proceed(json_decode_ascend(j))
                 ELSE json_process_value(j, token)
           \/ /\ job.expect = "more"
              /\ CASE token.type = "T_ARR_END" -> Proceed(json_decode_ascend(j))
                   [] token.type = "T_COMMA" -> Proceed([j EXCEPT !.expect = "value"])
                   [] OTHER -> json_throw_parse_error

\* A key, the colon after it, and then the value.
ParseKey(j, token) ==
    LET colon == Next1(j)
    IN  IF token.type # "T_STRING" \/ colon.type # "T_COLON" THEN json_throw_parse_error
        ELSE Proceed([Take(j, colon) EXCEPT !.stack[1].key = Str(token.string),
                                            !.expect = "value"])

json_parse_object_context ==
    /\ In("object")
    /\ LET token == Next1(job)
           j == Take(job, token)
       IN  \/ /\ job.expect = "first"
              /\ IF token.type = "T_OBJ_END" THEN Proceed(json_decode_ascend(j))
                 ELSE ParseKey(j, token)
           \/ /\ job.expect = "key"
              /\ ParseKey(j, token)
           \/ /\ job.expect = "more"
              /\ CASE token.type = "T_OBJ_END" -> Proceed(json_decode_ascend(j))
                   [] token.type = "T_COMMA" -> Proceed([j EXCEPT !.expect = "key"])
                   [] OTHER -> json_throw_parse_error

ParseEnd ==
    /\ job.op = "decode" /\ job.expect = "end"
    /\ EndDecode(IF Next1(job).type = "T_END" THEN job.result ELSE Failed)

Step ==
    \/ json_append_data
    \/ json_append_array
    \/ json_append_object
    \/ EndEncode
    \/ json_parse_value
    \/ json_parse_array_context
    \/ json_parse_object_context
    \/ ParseEnd
===============================================================================
