------------------------------ MODULE DataLines ------------------------------
(***************************************************************************)
(* The third pass over the source (parser.go, parse), as far as it lays out *)
(* the program's data: constants, STRUCT and UNION, LABEL, ALIGN and data,  *)
(* and the addresses of procedures put in at the end.  Names are looked up  *)
(* in one table, known; p.symbols and p.exprSymbols are it together.        *)
(***************************************************************************)
EXTENDS CompileTime, Aggregates

VARIABLES pos,           \* how many lines of out are parsed
          constants,     \* p.constants
          defined,       \* p.aggregates but for the built-in ones
          building,      \* p.aggregateStack
          symbols,       \* program.Symbols
          known,         \* name -> address
          data,          \* program.Data
          lastData,      \* p.lastDataIndex + 1: 0 when there is none
          currentOffset, \* what $ stands for
          procFixups

dataVars == <<pos, constants, defined, building, symbols, known, data, lastData,
              currentOffset, procFixups>>

line == out[pos + 1]
aggregates == defined @@ BuiltinAggregates
environment == [constants |-> constants, known |-> known, aggregates |-> aggregates, size |-> Len(data)]

\* The first four bytes are reserved, for NULL.
DataInit == /\ pos = 0 /\ constants = << >> /\ defined = << >> /\ building = << >>
            /\ symbols = << >> /\ known = << >> /\ data = Zeros(4) /\ lastData = 0
            /\ currentOffset = 4 /\ procFixups = << >>

Parsed == pos' = pos + 1 /\ Proceeds
Refused(error) == Fails(error) /\ UNCHANGED dataVars
-----------------------------------------------------------------------------
(***************************************************************************)
(* Constants                                                                *)
(***************************************************************************)
ConstantLine ==
  /\ building = << >> /\ line.op = "set"
  /\ IF IsKnown(line.inits[1].term, environment)
     THEN /\ constants' = (line.name :> evalExpr(line.inits[1].term, environment, currentOffset)) @@ constants
          /\ Parsed
          /\ UNCHANGED <<defined, building, symbols, known, data, lastData, currentOffset, procFixups>>
     ELSE Refused("unknown identifier")
-----------------------------------------------------------------------------
(***************************************************************************)
(* STRUCT and UNION                                                         *)
(***************************************************************************)
\* Aggregates declared inside another get a name of their own; two of one
\* name at one depth share it.
beginAggregate ==
  /\ line.op \in {"struct", "union"}
  /\ LET depth == Len(building) + 1
         type == IF depth = 1 THEN line.name
                 ELSE "__inline_" \o line.op \o "_" \o line.name \o "$" \o ToString(depth)
     IN building' = Append(building, [name |-> line.name, type |-> type, kind |-> line.op,
                                      fields |-> << >>, size |-> 0])
  /\ Parsed
  /\ UNCHANGED <<constants, defined, symbols, known, data, lastData, currentOffset, procFixups>>

\* registerAggregateDef: the type and its members are names for 0 and offsets.
TypeNames(def) ==
  With(Members(def.name, 0, def, aggregates), LAMBDA members :
    [n \in {def.name} \union {m.name : m \in members} |->
        IF n = def.name THEN 0 ELSE (CHOOSE m \in members : m.name = n).address])

closeAggregate ==
  /\ building # << >> /\ line.op = "ends"
  /\ LET builder == Last(building)
         rest == Front(building)
     IN \E def \in {Built(builder)} :
        IF line.name \notin {"", builder.name, builder.type} THEN Refused("ENDS name")
        ELSE /\ defined' = (def.name :> def) @@ defined
             /\ known' = TypeNames(def) @@ known
             /\ building' = IF rest = << >> THEN rest
                            ELSE Append(Front(rest), WithField(Last(rest), NestedField(builder, Last(rest), def)))
             /\ Parsed
             /\ UNCHANGED <<constants, symbols, data, lastData, currentOffset, procFixups>>

\* The operand of ALIGN: a type, or a number that can be told.
boundary == line.inits[1].term
IsSized(t) == t.plus = 0 /\ typeSize(t.name, aggregates) # 0
Alignable == IsSized(boundary) \/ IsKnown(boundary, environment)

alignment ==
  IF IsSized(boundary) THEN typeSize(boundary.name, aggregates)
  ELSE evalExpr(boundary, environment, currentOffset)

\* ALIGN in an aggregate
AlignField ==
  /\ building # << >> /\ line.op = "align"
  /\ IF ~Alignable THEN Refused("ALIGN operand")
     ELSE /\ building' = IF Last(building).kind = "union" THEN building
                         ELSE [building EXCEPT ![Len(building)].size = alignValue(@, alignment)]
          /\ Parsed
          /\ UNCHANGED <<constants, defined, symbols, known, data, lastData, currentOffset, procFixups>>

\* What the line's initializers come to; they are of a type that is known.
reading ==
  IF typeSize(line.decl, aggregates) = 0 THEN Unreadable
  ELSE With(environment, LAMBDA env : Initializers(line.decl, line.inits, env, Nothing))

\* Reading a field's initializers moves $ although no data is put out.
parseAggregateField ==
  /\ building # << >> /\ line.op = "data"
  /\ \E r \in {reading} :
        IF ~r.ok THEN Refused("aggregate field")
        ELSE /\ building' = Append(Front(building), WithField(Last(building),
                              DeclaredField(Last(building), line, r, aggregates)))
             /\ procFixups' = procFixups \o r.fixups
             /\ currentOffset' = IF r.heres = << >> THEN currentOffset ELSE Last(r.heres)
             /\ Parsed
             /\ UNCHANGED <<constants, defined, symbols, known, data, lastData>>
-----------------------------------------------------------------------------
(***************************************************************************)
(* Data                                                                     *)
(***************************************************************************)
Symbol(name, address, size, length, elem, decl) ==
  [name |-> name, address |-> address, size |-> size, length |-> length, elem |-> elem, decl |-> decl]

PutOut(bytes) == data' = data \o bytes /\ currentOffset' = Len(data) + Len(bytes)

LabelLine ==
  /\ building = << >> /\ line.op = "label"
  /\ IF typeSize(line.decl, aggregates) = 0 THEN Refused("LABEL type")
     ELSE /\ symbols' = Append(symbols, Symbol(line.name, Len(data), 0, 0, typeSize(line.decl, aggregates), line.decl))
          /\ known' = (line.name :> Len(data)) @@ known
          /\ lastData' = Len(symbols) + 1
          /\ currentOffset' = Len(data)
          /\ Parsed
          /\ UNCHANGED <<constants, defined, building, data, procFixups>>

AlignLine ==
  /\ building = << >> /\ line.op = "align"
  /\ IF ~Alignable THEN Refused("ALIGN operand")
     ELSE /\ PutOut(Zeros(alignValue(Len(data), alignment) - Len(data)))
          /\ lastData' = 0
          /\ Parsed
          /\ UNCHANGED <<constants, defined, building, symbols, known, procFixups>>

\* Data without a name belongs to the symbol before, if it is of the same type.
Continued(r) ==
  IF lastData = 0 \/ symbols[lastData].decl # line.decl THEN symbols
  ELSE [symbols EXCEPT ![lastData].size = @ + Len(r.bytes),
                       ![lastData].length = @ + r.items]

\* The symbols of a named declaration: itself, and its members
Declared(r) ==
  LET symbol == Symbol(line.name, Len(data), Len(r.bytes), r.items,
                       typeSize(line.decl, aggregates), line.decl)
      members == IF line.decl \in DOMAIN aggregates
                 THEN Members(line.name, Len(data), aggregates[line.decl], aggregates) ELSE {}
  IN <<symbol>> \o SetToSeq({Symbol(m.name, m.address, m.size, Max({m.field.length, 1}),
                                    Max({m.field.elem, m.size, 1}), m.field.decl) : m \in members})

parseDataLine ==
  /\ building = << >> /\ line.op = "data"
  /\ \E r \in {reading} :
        IF ~r.ok THEN Refused("data")
        ELSE /\ PutOut(r.bytes)
             /\ procFixups' = procFixups \o r.fixups
             /\ IF line.name = "" THEN symbols' = Continued(r) /\ UNCHANGED <<known, lastData>>
                ELSE \E new \in {Declared(r)} :
                        /\ symbols' = symbols \o new
                        /\ known' = [n \in {new[k].name : k \in DOMAIN new} |->
                                       (CHOOSE s \in ToSet(new) : s.name = n).address] @@ known
                        /\ lastData' = Len(symbols) + 1
             /\ Parsed
             /\ UNCHANGED <<constants, defined, building>>

\* What an earlier pass left, and what is out of place
Unsupported ==
  /\ \/ line.op \notin {"set", "struct", "union", "ends", "align", "label", "data"}
     \/ building = << >> /\ line.op = "ends"
     \/ building # << >> /\ line.op \in {"set", "label"}
  /\ Refused("unsupported data declaration")

ParseStep ==
  \/ ConstantLine
  \/ beginAggregate \/ closeAggregate \/ AlignField \/ parseAggregateField
  \/ LabelLine \/ AlignLine \/ parseDataLine
  \/ Unsupported
-----------------------------------------------------------------------------
(***************************************************************************)
(* finalizeProcedureRefs and Validate                                       *)
(***************************************************************************)
\* Mutant of Patched: the fixups are one element further on.
PatchedBeyond ==
  [k \in DOMAIN data |->
     LET over == {j \in DOMAIN procFixups : procFixups[j].offset + 4 < k /\ k <= procFixups[j].offset + 8}
     IN IF over = {} THEN data[k] ELSE 0]

Patched ==
  FoldLeft(LAMBDA bytes, f : Overlay(bytes, f.offset, LittleEndian(procAddress(f.name), 4)), data, procFixups)

FixupFails ==
  \E k \in DOMAIN procFixups : \/ procFixups[k].name \notin ToSet(Procedures)
                               \/ procFixups[k].offset + 4 > Len(data)

Finish ==
  /\ UNCHANGED <<pos, constants, defined, building, symbols, known, lastData, currentOffset, procFixups>>
  /\ IF building # << >> THEN Fails("unterminated STRUCT/UNION definition") /\ UNCHANGED data
     ELSE IF FixupFails THEN Fails("unknown procedure") /\ UNCHANGED data
     ELSE IF ~IsInjective([k \in DOMAIN symbols |-> symbols[k].name])
     THEN Fails("duplicate symbol") /\ UNCHANGED data
     ELSE data' = Patched /\ Proceeds
=============================================================================
