----------------------------- MODULE Aggregates -----------------------------
(***************************************************************************)
(* Types, aggregates and initializers (internal/masm/structs.go, and the    *)
(* data initializers of parser.go): what bytes a declaration stands for.    *)
(* REAL types and strings are left out.                                     *)
(***************************************************************************)
EXTENDS Source

declSizes == [BYTE |-> 1, WORD |-> 2, DWORD |-> 4, SDWORD |-> 4, QWORD |-> 8]

Zeros(n) == [k \in 1..n |-> 0]

LittleEndian(v, width) == [k \in 1..width |-> (v \div 256^(k - 1)) % 256]

\* bytes with payload from offset on, as copy(bytes[offset:], payload)
Overlay(bytes, offset, payload) ==
  With(<<bytes, payload>>, LAMBDA b :
    [k \in DOMAIN b[1] |-> IF offset < k /\ k <= offset + Len(b[2]) THEN b[2][k - offset] ELSE b[1][k]])

alignValue(value, alignment) ==
  IF alignment <= 1 \/ value % alignment = 0 THEN value
  ELSE value + alignment - (value % alignment)

typeSize(decl, aggregates) ==
  IF decl \in DOMAIN declSizes THEN declSizes[decl]
  ELSE IF decl \in DOMAIN aggregates THEN aggregates[decl].size
  ELSE 0
-----------------------------------------------------------------------------
(***************************************************************************)
(* env: constants and known (the addresses of symbols) to look names up,    *)
(* aggregates, and size, the bytes of data before this line.  at is what $  *)
(* stands for.  A term is a constant, then a symbol.                        *)
(***************************************************************************)
IsKnown(t, env) == t.name \in {"", "$"} \union DOMAIN env.constants \union DOMAIN env.known

evalExpr(t, env, at) ==
  t.plus + CASE t.name = "" -> 0
             [] t.name = "$" -> at
             [] t.name \in DOMAIN env.constants -> env.constants[t.name]
             [] OTHER -> env.known[t.name]

(***************************************************************************)
(* What reading initializers yields: the bytes, how many items, the places  *)
(* where a procedure's address is still missing, the places $ was set to on *)
(* the way, and whether all was well.                                       *)
(***************************************************************************)
Read(bytes, fixups, heres) ==
  [bytes |-> bytes, items |-> 1, fixups |-> fixups, heres |-> heres, ok |-> TRUE]
Nothing == [bytes |-> << >>, items |-> 0, fixups |-> << >>, heres |-> << >>, ok |-> TRUE]
Unreadable == [Nothing EXCEPT !.ok = FALSE]

Joined(r, s) == [bytes |-> r.bytes \o s.bytes, items |-> r.items + s.items,
                 fixups |-> r.fixups \o s.fixups, heres |-> r.heres \o s.heres,
                 ok |-> r.ok /\ s.ok]

\* n times the same bytes, but the fixups of the first only
Repeated(n, r) == With(r, LAMBDA once : [once EXCEPT !.bytes = FlattenSeq([k \in 1..n |-> @]),
                                                     !.items = IF n < 0 THEN 0 ELSE n * @])

\* An identifier nothing is known of may be a procedure, in a dword.
initBytes(decl, init, env, at) ==
  CASE init.is = "?" -> Read(Zeros(declSizes[decl]), << >>, <<at>>)
    [] init.is = "value" /\ IsKnown(init.term, env) ->
         Read(LittleEndian(evalExpr(init.term, env, at), declSizes[decl]), << >>, <<at>>)
    [] init.is = "value" /\ ~IsKnown(init.term, env) /\ declSizes[decl] = 4 /\ init.term.plus = 0 ->
         Read(Zeros(4), <<[name |-> init.term.name, offset |-> at]>>, <<at>>)
    [] OTHER -> Unreadable

\* Mutant of Overwritten: the payload goes to the start of the aggregate.
OverwrittenAtStart(r, field, payload) ==
  [Joined(r, payload) EXCEPT !.bytes = Overlay(r.bytes, 0, payload.bytes), !.items = 1]

\* r, an instance, with its field given a payload that must fit
Overwritten(r, field, payload) ==
  [Joined(r, payload) EXCEPT !.bytes = Overlay(r.bytes, field.offset, payload.bytes),
                             !.items = 1,
                             !.ok = @ /\ Len(payload.bytes) <= field.size]

RECURSIVE Initializers(_, _, _, _), Instance(_, _, _), WithFields(_, _, _, _)

\* parseTypeInitializers, from the k-th on; done is what was read before.
Initializers(decl, inits, env, done) ==
  IF inits = << >> THEN done
  ELSE LET init == Head(inits)
           count == evalExpr(init.term, env, env.size)
           one == CASE init.is = "default" -> Nothing
                    [] init.is = "dup" ->
                         IF ~IsKnown(init.term, env) \/ (count < 0 /\ decl \in DOMAIN declSizes) THEN Unreadable
                         ELSE Repeated(count, Initializers(decl, init.of, env, Nothing))
                    [] init.is \notin {"default", "dup"} /\ decl \in DOMAIN env.aggregates ->
                         Instance(env.aggregates[decl], init, env)
                    [] OTHER -> initBytes(decl, init, env, env.size + Len(done.bytes))
       IN With(Joined(done, one), LAMBDA r : Initializers(decl, Tail(inits), env, r))

\* parseAggregateInstance: the defaults, overwritten by what the literal gives.
\* A value without brackets is for the first field, the same in a union.
Instance(def, init, env) ==
  LET defaults == Read(def.default, << >>, << >>)
      given == SelectSeq(init.of, LAMBDA i : i.is # "default")
  IN CASE init.is = "?" -> Read(Zeros(def.size), << >>, << >>)
       [] init.is \in {"value", "dup"} -> WithFields(defaults, <<def.fields[1]>>, <<init>>, env)
       [] init.is = "group" /\ def.kind = "union" ->
            IF given = << >> THEN defaults
            ELSE WithFields(defaults, <<def.fields[1]>>, <<given[1]>>, env)
       [] init.is = "group" /\ def.kind = "struct" -> WithFields(defaults, def.fields, init.of, env)

\* applyAggregateField for each field that is given something
WithFields(r, fields, inits, env) ==
  IF fields = << >> \/ inits = << >> THEN r
  ELSE LET field == Head(fields)
           init == Head(inits)
           payload == IF field.type # "" THEN Instance(env.aggregates[field.type], init, env)
                      ELSE Initializers(field.decl, <<init>>, env, Nothing)
       IN With(IF init.is = "default" THEN r ELSE With(payload, LAMBDA p : Overwritten(r, field, p)),
               LAMBDA s : WithFields(s, Tail(fields), Tail(inits), env))
-----------------------------------------------------------------------------
(***************************************************************************)
(* Definitions.  A builder holds what STRUCT or UNION has declared so far.  *)
(***************************************************************************)
Field(name, decl, type, offset, size, length, elem, default) ==
  [name |-> name, decl |-> decl, type |-> type, offset |-> offset, size |-> size,
   length |-> length, elem |-> elem, default |-> default]

\* Mutant of Grown: a union is as large as its last field.
GrownToLast(builder, size) == IF builder.kind = "union" THEN size ELSE builder.size + size

Grown(builder, size) ==
  IF builder.kind = "union" THEN IF size > builder.size THEN size ELSE builder.size
  ELSE builder.size + size

NextOffset(builder) == IF builder.kind = "union" THEN 0 ELSE builder.size

WithField(builder, field) ==
  [builder EXCEPT !.fields = Append(@, field), !.size = Grown(builder, field.size)]

\* The size of a field of an aggregate type is that of one, whatever its length.
DeclaredField(builder, line, reading, aggregates) ==
  LET one == typeSize(line.decl, aggregates)
      aggregate == line.decl \in DOMAIN aggregates
      size == IF aggregate THEN one ELSE Len(reading.bytes)
  IN Field(line.name, line.decl, IF aggregate THEN line.decl ELSE "", NextOffset(builder), size,
           reading.items, one, Overlay(Zeros(size), 0, reading.bytes))

RECURSIVE WithDefaults(_, _)
WithDefaults(bytes, fields) ==
  IF fields = << >> THEN bytes
  ELSE WithDefaults(Overlay(bytes, Head(fields).offset, Head(fields).default), Tail(fields))

Built(builder) ==
  [name |-> builder.type, kind |-> builder.kind, fields |-> builder.fields, size |-> builder.size,
   default |-> WithDefaults(Zeros(builder.size), builder.fields)]

NestedField(builder, parent, def) ==
  Field(builder.name, def.name, def.name, NextOffset(parent), def.size, 1, def.size, def.default)

\* The names of an aggregate's members and how far each is from its start
RECURSIVE Members(_, _, _, _)
Members(prefix, base, def, aggregates) ==
  UNION {With([name |-> prefix \o "." \o f.name, address |-> base + f.offset, size |-> f.size, field |-> f],
              LAMBDA m : {m} \union IF f.type = "" THEN {}
                                   ELSE Members(m.name, m.address, aggregates[f.type], aggregates))
         : f \in {def.fields[k] : k \in DOMAIN def.fields}}
-----------------------------------------------------------------------------
(***************************************************************************)
(* seedBuiltinAggregates: <<member, type, offset>>                          *)
(***************************************************************************)
Words(names) == [k \in DOMAIN names |-> <<names[k], "WORD", 2 * (k - 1)>>]
Dwords(names) == [k \in DOMAIN names |-> <<names[k], "DWORD", 4 * (k - 1)>>]

Key == <<<<"bKeyDown", "DWORD", 0>>, <<"wRepeatCount", "WORD", 4>>, <<"wVirtualKeyCode", "WORD", 6>>,
         <<"wVirtualScanCode", "WORD", 8>>, <<"uChar", "KEY_EVENT_UCHAR", 10>>,
         <<"dwControlKeyState", "DWORD", 12>>>>
Mouse == <<<<"dwMousePosition", "COORD", 0>>, <<"dwButtonState", "DWORD", 4>>,
           <<"dwMouseControlKeyState", "DWORD", 8>>, <<"dwEventFlags", "DWORD", 12>>>>

BuiltinLayouts ==
  [COORD |-> Words(<<"X", "Y">>),
   SYSTEMTIME |-> Words(<<"wYear", "wMonth", "wDayOfWeek", "wDay", "wHour", "wMinute", "wSecond",
                          "wMilliseconds">>),
   FILETIME |-> Dwords(<<"loDateTime", "hiDateTime">>),
   SMALL_RECT |-> Words(<<"Left", "Top", "Right", "Bottom">>),
   CONSOLE_CURSOR_INFO |-> Dwords(<<"dwSize", "bVisible">>),
   CONSOLE_SCREEN_BUFFER_INFO |->
     <<<<"dwSize", "COORD", 0>>, <<"dwCursorPosition", "COORD", 4>>, <<"wAttributes", "WORD", 8>>,
       <<"srWindow", "SMALL_RECT", 10>>, <<"dwMaximumWindowSize", "COORD", 18>>>>,
   KEY_EVENT_UCHAR |-> <<<<"UnicodeChar", "WORD", 0>>, <<"AsciiChar", "BYTE", 0>>>>,
   KEY_EVENT_RECORD |-> Key,
   MOUSE_EVENT_RECORD |-> Mouse,
   WINDOW_BUFFER_SIZE_RECORD |-> <<<<"dwSize", "COORD", 0>>>>,
   MENU_EVENT_RECORD |-> Dwords(<<"dwCommandId">>),
   FOCUS_EVENT_RECORD |-> Dwords(<<"bSetFocus">>),
   INPUT_RECORD_EVENT |->
     Key \o Mouse \o <<<<"dwSize", "COORD", 0>>, <<"dwCommandId", "DWORD", 0>>, <<"bSetFocus", "DWORD", 0>>>>,
   INPUT_RECORD |-> <<<<"EventType", "WORD", 0>>, <<"Event", "INPUT_RECORD_EVENT", 4>>>>]

BuiltinSizes ==
  [COORD |-> 4, SYSTEMTIME |-> 16, FILETIME |-> 8, SMALL_RECT |-> 8, CONSOLE_CURSOR_INFO |-> 8,
   CONSOLE_SCREEN_BUFFER_INFO |-> 22, KEY_EVENT_UCHAR |-> 2, KEY_EVENT_RECORD |-> 16,
   MOUSE_EVENT_RECORD |-> 16, WINDOW_BUFFER_SIZE_RECORD |-> 4, MENU_EVENT_RECORD |-> 4,
   FOCUS_EVENT_RECORD |-> 4, INPUT_RECORD_EVENT |-> 16, INPUT_RECORD |-> 20]

\* Every field is one item, its default zeros.
BuiltinField(entry) ==
  LET size == IF entry[2] \in DOMAIN declSizes THEN declSizes[entry[2]] ELSE BuiltinSizes[entry[2]]
  IN Field(entry[1], entry[2], IF entry[2] \in DOMAIN declSizes THEN "" ELSE entry[2],
           entry[3], size, 1, size, Zeros(size))

BuiltinAggregates ==
  [n \in DOMAIN BuiltinLayouts |->
     [name |-> n, kind |-> IF n \in {"KEY_EVENT_UCHAR", "INPUT_RECORD_EVENT"} THEN "union" ELSE "struct",
      fields |-> [k \in DOMAIN BuiltinLayouts[n] |-> BuiltinField(BuiltinLayouts[n][k])],
      size |-> BuiltinSizes[n], default |-> Zeros(BuiltinSizes[n])]]
=============================================================================
