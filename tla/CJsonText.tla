------------------------------ MODULE CJsonText ------------------------------
(***************************************************************************)
(* The text of a job list: cJSON_Print makes it of the array in memory,    *)
(* cJSON_Parse reads it back (src/lib/cJSON.c).  In between the file may   *)
(* have been cut short, and somebody may have written it by hand.          *)
(*                                                                         *)
(* The alphabet is that of the code, a byte is a number.  Printing is a    *)
(* sequence of chunks for the buffer of PrintBuffer.tla, parsing a machine *)
(* with a stack, one frame for each parse_array or parse_object under way. *)
(* Any allocation may fail.  Numbers are whole and not negative, as time   *)
(* and type of a job are: no fractions, no locale.                         *)
(***************************************************************************)
EXTENDS Integers, Sequences, SequencesExt, FiniteSetsExt, TLC, PrintBuffer

CONSTANTS
  Values,        (* arrays to be printed                                    *)
  Texts,         (* texts written by hand                                   *)
  NestingLimit   (* CJSON_NESTING_LIMIT, 1000 in the code                   *)

VARIABLES
  pc,
  value,         (* what is printed; None for a text written by hand        *)
  todo,          (* the chunks still to be printed                          *)
  out,           (* the bytes of the buffer that have been written          *)
  text,          (* the list as it is stored                                *)
  torn,          (* it has been cut                                         *)
  off,           (* parse_buffer.offset                                     *)
  stack,         (* the arrays and objects being parsed, innermost last     *)
  result,        (* what cJSON_Parse returns                                *)
  heap,          (* cJSON items and strings allocated and not freed         *)
  starved        (* an allocation has failed                                *)

printVars == <<value, todo, out>>
parseVars == <<off, stack, result, heap>>
vars == <<bufferVars, pc, printVars, text, torn, parseVars, starved>>

-----------------------------------------------------------------------------
(* Values.  A value is of a kind and holds the bytes of a string or number, *)
(* and the values of an array or object, with their keys.                   *)
Val(kind, bytes, items) == [kind |-> kind, bytes |-> bytes, items |-> items]
Str(bytes) == Val("string", bytes, <<>>)
Num(bytes) == Val("number", bytes, <<>>)
Arr(vals) == Val("array", <<>>, [i \in DOMAIN vals |-> [key |-> <<>>, val |-> vals[i]]])
Obj(items) == Val("object", <<>>, items)
Constant(kind) == Val(kind, <<>>, <<>>)
None == Constant("none")
Word == [null |-> <<110, 117, 108, 108>>, false |-> <<102, 97, 108, 115, 101>>,
         true |-> <<116, 114, 117, 101>>]

(* Bytes. *)
Ch == [nul |-> 0, tab |-> 9, newline |-> 10, space |-> 32, quote |-> 34, comma |-> 44,
       zero |-> 48, colon |-> 58, backslash |-> 92, u |-> 117]
Opening == [array |-> 91, object |-> 123]
Closing == [array |-> 93, object |-> 125]

(* The letters that stand for a byte behind a backslash. *)
Letter == 8 :> 98 @@ 9 :> 116 @@ 10 :> 110 @@ 12 :> 102 @@ 13 :> 114 @@ 34 :> 34 @@ 92 :> 92
Meaning == [l \in Range(Letter) \union {47} |->
              IF l = 47 THEN l ELSE CHOOSE c \in DOMAIN Letter : Letter[c] = l]

(* A C string ends at its first NUL. *)
CString(s) ==
  IF Ch.nul \in ToSet(s) THEN SubSeq(s, 1, SelectInSeq(s, LAMBDA c : c = Ch.nul) - 1) ELSE s

-----------------------------------------------------------------------------
(* Printing.  A chunk is what is asked of ensure, the bytes written then,   *)
(* and the way the offset moves on: by a number, or to the next NUL.        *)
ToNul == -1
Chunk(need, bytes, step) == [need |-> need, bytes |-> bytes, step |-> step]

Hex(d) == IF d < 10 THEN 48 + d ELSE 87 + d
Escaped(c) ==
  IF c \in DOMAIN Letter THEN <<Ch.backslash, Letter[c]>>
  ELSE IF c < 32 THEN <<Ch.backslash, Ch.u, Ch.zero, Ch.zero, Hex(c \div 16), Hex(c % 16)>>
  ELSE <<c>>

(* Faulty variant: a control character is taken to need one byte less. *)
EscapeBytesShort(c) == IF c \in DOMAIN Letter THEN 1 ELSE IF c < 32 THEN 4 ELSE 0

(* The count print_string_ptr makes before it writes. *)
EscapeBytes(c) == IF c \in DOMAIN Letter THEN 1 ELSE IF c < 32 THEN 5 ELSE 0

(* print_string_ptr: the closing quote goes where the count says. *)
PrintString(s) ==
  LET n == FoldLeft(LAMBDA k, c : k + 1 + EscapeBytes(c), 0, s)
      body == <<Ch.quote>> \o FlattenSeq([i \in DOMAIN s |-> Escaped(s[i])])
  IN Chunk(n + 3, SubSeq(body, 1, n + 1) \o <<Ch.quote, Ch.nul>> \o SubSeq(body, n + 4, Len(body)),
           ToNul)

Tabs(n) == [i \in 1..n |-> Ch.tab]

RECURSIVE Chunks(_, _)

(* print_array, at the given depth. *)
PrintArray(v, depth) ==
  LET last == Len(v.items)
      Element(i) == Chunks(v.items[i].val, depth + 1) \o
                    IF i < last THEN <<Chunk(3, <<Ch.comma, Ch.space, Ch.nul>>, 2)>> ELSE <<>>
  IN <<Chunk(1, <<Opening.array>>, 1)>> \o FlattenSeq([i \in 1..last |-> Element(i)]) \o
     <<Chunk(2, <<Closing.array, Ch.nul>>, ToNul)>>

(* Faulty variant: no room is asked for the end of the tabs. *)
PrintObjectTight(v, depth) ==
  <<Chunk(3, <<Opening.object, Ch.newline>>, 2)>> \o
  FlattenSeq([i \in DOMAIN v.items |->
    <<Chunk(depth, Tabs(depth + 1), depth + 1), PrintString(v.items[i].key),
      Chunk(2, <<Ch.colon, Ch.tab>>, 2)>> \o Chunks(v.items[i].val, depth + 1) \o
    <<Chunk(2, <<Ch.newline, Ch.nul>>, 1)>>]) \o
  <<Chunk(depth + 2, Tabs(depth) \o <<Closing.object, Ch.nul>>, ToNul)>>

(* print_object. *)
PrintObject(v, depth) ==
  LET last == Len(v.items)
      comma(i) == IF i < last THEN <<Ch.comma>> ELSE <<>>
      Member(i) == <<Chunk(depth + 1, Tabs(depth + 1), depth + 1),
                     PrintString(v.items[i].key),
                     Chunk(2, <<Ch.colon, Ch.tab>>, 2)>> \o
                   Chunks(v.items[i].val, depth + 1) \o
                   <<Chunk(Len(comma(i)) + 2, comma(i) \o <<Ch.newline, Ch.nul>>, Len(comma(i)) + 1)>>
  IN <<Chunk(3, <<Opening.object, Ch.newline>>, 2)>> \o FlattenSeq([i \in 1..last |-> Member(i)]) \o
     <<Chunk(depth + 2, Tabs(depth) \o <<Closing.object, Ch.nul>>, ToNul)>>

(* print_value. *)
Chunks(v, depth) ==
  CASE v.kind \in DOMAIN Word -> <<Chunk(Len(Word[v.kind]) + 1, Word[v.kind] \o <<Ch.nul>>, ToNul)>>
    [] v.kind = "number" -> <<Chunk(Len(v.bytes) + 1, v.bytes \o <<Ch.nul>>, Len(v.bytes))>>
    [] v.kind = "string" -> <<PrintString(v.bytes)>>
    [] v.kind = "array"  -> PrintArray(v, depth)
    [] v.kind = "object" -> PrintObject(v, depth)

(* The buffer after bytes have been written at the offset, and strlen from  *)
(* there.                                                                   *)
Overwritten(bytes) ==
  SubSeq(out, 1, offset) \o bytes \o SubSeq(out, offset + Len(bytes) + 1, Len(out))
Strlen(s, from) == Len(CString(SubSeq(s, from + 1, Len(s))))

(* How far a chunk moves the offset. *)
Reach(chunk) ==
  IF chunk.step = ToNul THEN Strlen(Overwritten(chunk.bytes), offset) ELSE chunk.step

-----------------------------------------------------------------------------
Init ==
  /\ BufferInit
  /\ \/ pc = "print" /\ value \in Values /\ text = <<>>
     \/ pc = "stored" /\ value = None /\ text \in Texts
  /\ todo = <<>> /\ out = <<>>
  /\ torn = FALSE
  /\ off = 0 /\ stack = <<>> /\ result = None
  /\ heap = 0
  /\ starved = FALSE

PrintStart ==
  /\ pc = "print"
  /\ Open
  /\ starved' = (length' = 0)
  /\ pc' = IF starved' THEN "done" ELSE "ensure"
  /\ todo' = IF starved' THEN <<>> ELSE Chunks(value, 0)
  /\ UNCHANGED <<value, out, text, torn, parseVars>>

PrintEnsure ==
  /\ pc = "ensure" /\ todo # <<>>
  /\ Ensure(Head(todo).need)
  /\ starved' = (granted' = 0)
  /\ pc' = IF starved' THEN "printfail" ELSE "write"
  /\ UNCHANGED <<printVars, text, torn, parseVars>>

PrintWrite ==
  /\ pc = "write"
  /\ out' = Overwritten(Head(todo).bytes)
  /\ offset' = offset + Reach(Head(todo))
  /\ granted' = 0
  /\ todo' = Tail(todo)
  /\ pc' = "ensure"
  /\ UNCHANGED <<length, value, text, torn, parseVars, starved>>

(* The buffer is cut to the size of the text and handed out, to be written  *)
(* to the list up to its NUL and freed (demo_add_ctx_to_file).              *)
PrintEnd ==
  /\ pc = "ensure" /\ todo = <<>>
  /\ \/ /\ text' = CString(SubSeq(out, 1, offset))
        /\ out' = <<>>
        /\ Close
        /\ pc' = "stored"
        /\ UNCHANGED starved
     \/ /\ starved' = TRUE
        /\ pc' = "printfail"
        /\ UNCHANGED <<text, out, bufferVars>>
  /\ UNCHANGED <<value, todo, torn, parseVars>>

(* print: the buffer is freed, if ensure has not done so. *)
PrintFail ==
  /\ pc = "printfail"
  /\ Close
  /\ pc' = "done"
  /\ UNCHANGED <<printVars, text, torn, parseVars, starved>>

(* Only the beginning of the text reaches the file, or is left of it; an    *)
(* empty file is not parsed at all.                                         *)
Cut ==
  /\ pc = "stored" /\ value \in Values /\ ~torn
  /\ \E n \in 1..(Len(text) - 1) : text' = SubSeq(text, 1, n)
  /\ torn' = TRUE
  /\ UNCHANGED <<bufferVars, pc, printVars, parseVars, starved>>

-----------------------------------------------------------------------------
(* Parsing.  The buffer is the text with its NUL. *)
Byte(i) == IF i < Len(text) THEN text[i + 1] ELSE Ch.nul

(* Faulty variant: runs over the NUL. *)
SkipNul(i) ==
  LET black == {j \in i..Len(text) : Byte(j) > 32}
  IN IF black = {} THEN Len(text) + 1 ELSE Min(black)

(* buffer_skip_whitespace: the NUL is white, but never skipped. *)
Skip(i) ==
  LET black == {j \in i..Len(text) : Byte(j) > 32}
  IN IF i > Len(text) THEN i ELSE IF black = {} THEN Len(text) ELSE Min(black)

(* skip_utf8_bom. *)
Bom == IF Len(text) >= 4 /\ SubSeq(text, 1, 3) = <<239, 187, 191>> THEN 3 ELSE 0

(* parse_hex4: 0 for what is no number. *)
HexDigit == [c \in (48..57) \union (65..70) \union (97..102) |->
               IF c < 65 THEN c - 48 ELSE IF c < 97 THEN c - 55 ELSE c - 87]
Hex4(i) ==
  LET digits == [k \in 1..4 |-> Byte(i + k - 1)]
  IN IF ToSet(digits) \subseteq DOMAIN HexDigit
       THEN FoldLeft(LAMBDA n, c : 16 * n + HexDigit[c], 0, digits)
       ELSE 0

(* utf16_literal_to_utf8: how many bytes of text, and the code point; no    *)
(* bytes for an error.  A surrogate needs its other half.                   *)
Utf16(i, end) ==
  LET first == Hex4(i + 2)
      second == Hex4(i + 8)
      No == [len |-> 0, code |-> 0]
  IN IF end - i < 6 \/ first \in 56320..57343 THEN No
     ELSE IF first \notin 55296..56319 THEN [len |-> 6, code |-> first]
     ELSE IF /\ end - i >= 12
             /\ Byte(i + 6) = Ch.backslash /\ Byte(i + 7) = Ch.u
             /\ second \in 56320..57343
       THEN [len |-> 12, code |-> 65536 + (first % 1024) * 1024 + (second % 1024)]
       ELSE No
Utf8(c) ==
  IF c < 128 THEN <<c>>
  ELSE IF c < 2048 THEN <<192 + (c \div 64), 128 + (c % 64)>>
  ELSE IF c < 65536 THEN <<224 + (c \div 4096), 128 + ((c \div 64) % 64), 128 + (c % 64)>>
  ELSE <<240 + (c \div 262144), 128 + ((c \div 4096) % 64),
         128 + ((c \div 64) % 64), 128 + (c % 64)>>

(* The first loop of parse_string: where the literal that goes on at i      *)
(* ends, and how many of its bytes are backslashes; -1 for no end.          *)
RECURSIVE Scan(_, _)
Scan(i, skipped) ==
  IF i > Len(text) THEN [end |-> -1, skipped |-> skipped]
  ELSE IF Byte(i) = Ch.quote THEN [end |-> i, skipped |-> skipped]
  ELSE IF Byte(i) = Ch.backslash THEN Scan(i + 2, skipped + 1)
  ELSE Scan(i + 1, skipped)

(* Its second loop; Bad follows what has been written before an error. *)
Bad == -1
RECURSIVE Unescape(_, _)
Unescape(i, end) ==
  IF i >= end THEN <<>>
  ELSE IF Byte(i) # Ch.backslash THEN <<Byte(i)>> \o Unescape(i + 1, end)
  ELSE IF Byte(i + 1) \in DOMAIN Meaning THEN <<Meaning[Byte(i + 1)]>> \o Unescape(i + 2, end)
  ELSE LET utf == Utf16(i, end)
       IN IF Byte(i + 1) = Ch.u /\ utf.len > 0 THEN Utf8(utf.code) \o Unescape(i + utf.len, end)
          ELSE <<Bad>>

(* What parse_string makes of the literal at i: an error or a string, and   *)
(* the bytes it writes into how many allocated.                             *)
Literal(i) ==
  LET scan == Scan(i + 1, 0)
      bytes == Unescape(i + 1, scan.end)
      ok == Byte(i) = Ch.quote /\ scan.end # -1
  IN IF ok THEN [ok |-> Bad \notin ToSet(bytes), string |-> CString(bytes), next |-> scan.end + 1,
                 written |-> IF Bad \in ToSet(bytes) THEN Len(bytes) - 1 ELSE Len(bytes) + 1,
                 room |-> scan.end - i - scan.skipped + 1]
     ELSE [ok |-> FALSE, string |-> <<>>, next |-> i, written |-> 0, room |-> 0]

-----------------------------------------------------------------------------
(* An array or object under way: its elements so far, the key of the next,  *)
(* and how many allocations the next has taken up to now.                   *)
Frame(kind) == [kind |-> kind, items |-> <<>>, key |-> <<>>, cells |-> 0]
Top == Last(stack)

(* The allocations that make up a value, and those of a frame. *)
RECURSIVE Cells(_)
ItemCells(items, keys) ==
  FoldLeft(LAMBDA n, item : n + keys + Cells(item.val), 0, items)
Cells(v) ==
  1 + (IF v.kind = "string" THEN 1 ELSE 0) +
  ItemCells(v.items, IF v.kind = "object" THEN 1 ELSE 0)
FrameCells(f) == f.cells + ItemCells(f.items, IF f.kind = "object" THEN 1 ELSE 0)

ParseFails == pc' = "fail" /\ UNCHANGED <<off, stack, result, heap>>
Starves == starved' = TRUE /\ ParseFails

(* A value that ends before i is the result, or an element of the innermost *)
(* array or object of st.                                                   *)
Accept(v, i, st) ==
  IF st = <<>>
    THEN /\ pc' = "parsed"
         /\ result' = v
         /\ off' = i
         /\ stack' = st
    ELSE LET top == Last(st)
             grown == Append(top.items, [key |-> top.key, val |-> v])
         IN /\ pc' = "next"
            /\ stack' = Append(Front(st), [Frame(top.kind) EXCEPT !.items = grown])
            /\ off' = Skip(i)
            /\ UNCHANGED result

(* The next element of f, whose text starts at i, is allocated. *)
NewItem(f, i, outer) ==
  \/ /\ pc' = IF f.kind = "array" THEN "value" ELSE "key"
     /\ stack' = Append(outer, [f EXCEPT !.cells = 1])
     /\ off' = Skip(i)
     /\ heap' = heap + 1
     /\ UNCHANGED <<result, starved>>
  \/ /\ pc' = "fail"
     /\ stack' = Append(outer, f)
     /\ starved' = TRUE
     /\ UNCHANGED <<off, result, heap>>

(* cJSON_ParseWithLengthOpts. *)
ParseStart ==
  /\ pc = "stored"
  /\ \/ /\ pc' = "value"
        /\ off' = Skip(Bom)
        /\ heap' = 1
        /\ UNCHANGED starved
     \/ /\ pc' = "parsed"
        /\ off' = 0
        /\ heap' = 0
        /\ starved' = TRUE
  /\ stack' = <<>>
  /\ result' = None
  /\ UNCHANGED <<bufferVars, printVars, text, torn>>

(* parse_value: the words it knows, and what it leaves alone. *)
Begins(word) == IsPrefix(word, SubSeq(text, off + 1, Len(text)))
AtValue == pc = "value" /\ UNCHANGED <<bufferVars, printVars, text, torn>>

ParseWord ==
  /\ AtValue
  /\ \E kind \in DOMAIN Word :
       /\ Begins(Word[kind])
       /\ Accept(Constant(kind), off + Len(Word[kind]), stack)
  /\ UNCHANGED <<heap, starved>>

(* parse_number and print_number: zeros in front are not kept. *)
ParseNumber ==
  LET others == {i \in off..Len(text) : Byte(i) \notin 48..57}
      digits == SubSeq(text, off + 1, Min(others))
      leading == {i \in 1..(Len(digits) - 1) : \A j \in 1..i : digits[j] = Ch.zero}
  IN /\ AtValue
     /\ Byte(off) \in 48..57
     /\ Accept(Num(SubSeq(digits, Cardinality(leading) + 1, Len(digits))), Min(others), stack)
     /\ UNCHANGED <<heap, starved>>

ParseString ==
  LET literal == Literal(off)
  IN /\ AtValue
     /\ Byte(off) = Ch.quote
     /\ \/ /\ literal.ok
           /\ Accept(Str(literal.string), literal.next, stack)
           /\ heap' = heap + 1
           /\ UNCHANGED starved
        \/ ~literal.ok /\ ParseFails /\ UNCHANGED starved
        \/ literal.room > 0 /\ Starves

(* parse_array and parse_object, up to their first element. *)
OpenNested ==
  /\ AtValue
  /\ \E kind \in DOMAIN Opening :
       /\ Byte(off) = Opening[kind]
       /\ \/ Len(stack) >= NestingLimit /\ ParseFails /\ UNCHANGED starved
          \/ /\ Len(stack) < NestingLimit
             /\ Byte(Skip(off + 1)) = Closing[kind]
             /\ Accept(Val(kind, <<>>, <<>>), Skip(off + 1) + 1, stack)
             /\ UNCHANGED <<heap, starved>>
          \/ /\ Len(stack) < NestingLimit
             /\ Byte(Skip(off + 1)) # Closing[kind]
             /\ NewItem(Frame(kind), off + 1, stack)

ParseNothing ==
  /\ AtValue
  /\ Byte(off) \notin {Ch.quote} \union (48..57) \union Range(Opening)
  /\ \A kind \in DOMAIN Word : ~Begins(Word[kind])
  /\ ParseFails
  /\ UNCHANGED starved

(* parse_object: the key and its colon. *)
ParseKey ==
  LET literal == Literal(off)
      colon == Skip(literal.next)
  IN /\ pc = "key"
     /\ \/ /\ literal.ok
           /\ stack' = Append(Front(stack), [Top EXCEPT !.key = literal.string, !.cells = 2])
           /\ heap' = heap + 1
           /\ IF Byte(colon) = Ch.colon
                THEN pc' = "value" /\ off' = Skip(colon + 1)
                ELSE pc' = "fail" /\ off' = colon
           /\ UNCHANGED <<result, starved>>
        \/ ~literal.ok /\ ParseFails /\ UNCHANGED starved
        \/ literal.room > 0 /\ Starves
     /\ UNCHANGED <<bufferVars, printVars, text, torn>>

(* parse_array and parse_object, after an element. *)
NextElement ==
  /\ pc = "next"
  /\ \/ Byte(off) = Ch.comma /\ NewItem(Top, off + 1, Front(stack))
     \/ /\ Byte(off) = Closing[Top.kind]
        /\ Accept(Val(Top.kind, <<>>, Top.items), off + 1, Front(stack))
        /\ UNCHANGED <<heap, starved>>
     \/ /\ Byte(off) \notin {Ch.comma, Closing[Top.kind]}
        /\ ParseFails
        /\ UNCHANGED starved
  /\ UNCHANGED <<bufferVars, printVars, text, torn>>

(* Faulty variant: the key of an element whose value is missing is kept. *)
ParseFailKeepsKey ==
  /\ pc = "fail"
  /\ IF stack = <<>>
       THEN pc' = "parsed" /\ heap' = heap - 1 /\ UNCHANGED stack
       ELSE /\ stack' = Front(stack)
            /\ heap' = heap - FrameCells([Top EXCEPT !.cells = IF @ = 2 THEN 1 ELSE @])
            /\ UNCHANGED pc
  /\ UNCHANGED <<bufferVars, printVars, text, torn, off, result, starved>>

(* An error: the innermost array or object deletes its elements and fails   *)
(* the one around it; at last the root goes.                                *)
ParseFail ==
  /\ pc = "fail"
  /\ IF stack = <<>>
       THEN pc' = "parsed" /\ heap' = heap - 1 /\ UNCHANGED stack
       ELSE stack' = Front(stack) /\ heap' = heap - FrameCells(Top) /\ UNCHANGED pc
  /\ UNCHANGED <<bufferVars, printVars, text, torn, off, result, starved>>

(* demo_get_ctx_from_file: what is no array is deleted.  A list written by  *)
(* hand is printed again.                                                   *)
Use ==
  /\ pc = "parsed"
  /\ IF result.kind = "array" /\ value = None
       THEN pc' = "print" /\ value' = result /\ result' = None /\ heap' = 0
       ELSE /\ pc' = "done"
            /\ result' = IF result.kind = "array" THEN result ELSE None
            /\ heap' = IF result.kind \in {"array", "none"} THEN heap ELSE heap - Cells(result)
            /\ UNCHANGED value
  /\ UNCHANGED <<bufferVars, todo, out, text, torn, off, stack, starved>>

Done == pc = "done" /\ UNCHANGED vars

Next ==
  \/ PrintStart \/ PrintEnsure \/ PrintWrite \/ PrintEnd \/ PrintFail \/ Cut
  \/ ParseStart \/ ParseWord \/ ParseNumber \/ ParseString \/ OpenNested \/ ParseNothing
  \/ ParseKey \/ NextElement \/ ParseFail \/ Use \/ Done

Spec == Init /\ [][Next]_vars

-----------------------------------------------------------------------------
(* print_value and those it calls, each with a count and offset of its own, *)
(* keep to the discipline of PrintBuffer.tla: ensure comes before every     *)
(* chunk, and the offset never reaches the last byte it granted.            *)
ImplementsBuffer == BufferSpec

(* No byte is written or read beside its buffer: a chunk fits what ensure   *)
(* has granted; an unescaped string fits what parse_string has counted for  *)
(* it, though it counts before it looks at the escapes; and the parser      *)
(* never goes beyond the NUL of the text.                                   *)
InBounds ==
  /\ pc = "write" => Len(Head(todo).bytes) <= granted
  /\ pc \in {"value", "key"} => Literal(off).written <= Literal(off).room
  /\ pc \in {"value", "key", "next", "fail", "parsed"} => off <= Len(text)

(* What is printed is read back as it was, whatever bytes the paths have,   *)
(* and what was written by hand and could be read is the same when printed  *)
(* and read again.  A list cut anywhere is never read as a shorter one.     *)
RoundTrip ==
  pc = "parsed" /\ value # None => result = IF torn \/ starved THEN None ELSE value

(* Whichever allocation fails, and wherever a text goes wrong: in the end   *)
(* the print buffer is free, and so is all that was parsed, but the array   *)
(* that is handed on.                                                       *)
NoLeak ==
  pc = "done" =>
    /\ length = 0
    /\ heap = IF result = None THEN 0 ELSE Cells(result)
=============================================================================
