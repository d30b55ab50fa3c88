------------------------------- MODULE Files --------------------------------
(***************************************************************************)
(* The files of vm/machine.go: one table of handles under three interfaces, *)
(* Irvine's (CreateOutputFile ... WriteToFile), Win32's (CreateFile ...     *)
(* SetFilePointer) and C's (fopen, fclose), any of which may be used on a   *)
(* handle of any other; the last error, a code and a text, that the first   *)
(* two set and C sets in part; and the host's file system below.            *)
(*                                                                          *)
(* What calls leave in registers and in the program's words is their Answer,*)
(* which the program looks at once.                                         *)
(***************************************************************************)
EXTENDS Integers, Sequences, SequencesExt, FiniteSetsExt, Functions

CONSTANTS Names,       \* names a file may have
          Denied,      \* those the host does not let the program use
          Nowhere,     \* those in a directory that does not exist
          Capacity,    \* bytes of a file when the host has no room for more
          WordSize,    \* 2^32, or less for checking
          Modes,       \* of fopen and accesses of CreateFile that the program uses
          Accesses,
          Counts,      \* of bytes the program asks for
          Texts,       \* what it writes
          Lows,        \* low and high halves of the distances it moves by
          Highs,
          MaxOpens,    \* bound: files opened
          MaxOffset    \* bound: how far positions go

Buffer == 2            \* bytes from the program's buffer to the end of memory
Stale == -1            \* what is in the buffer before a read

ASSUME FilesAssumption ==
  /\ Denied \subseteq Names /\ Nowhere \subseteq Names
  /\ Capacity \in Nat /\ MaxOpens \in Nat /\ MaxOffset \in Nat /\ Capacity <= MaxOffset
  /\ Accesses \subseteq {"read", "write", "both"}
  /\ Modes \subseteq {"r", "r+", "w", "w+", "a", "a+"}
  /\ WordSize \in Nat \ {0} /\ WordSize % 2 = 0
  /\ Counts \subseteq Nat /\ Texts \subseteq Seq(Nat)
  /\ Lows \subseteq 0..(WordSize - 1) /\ Highs \subseteq 0..(WordSize - 1)

VARIABLES disk,        \* the host: contents of the files that exist,
          opened,      \* and the open ones: [name, access, append, offset]
          files,       \* handle -> open file
          nextHandle,
          lastErrorCode, lastError,
          status,      \* "running", "done", "error" once Run has returned
          outcome,     \* what the program made of the last call: its interface, whether
                       \* it was told of a failure, whether the handle was not in use,
                       \* and the bytes it was told were read or written
          known        \* handle -> the position the program believes it is at, if any

host == <<disk, opened>>
errors == <<lastErrorCode, lastError>>
vars == <<host, files, nextHandle, errors, status, outcome, known>>

Invalid == WordSize - 1          \* INVALID_HANDLE_VALUE, INVALID_SET_FILE_POINTER
FirstHandle == 4

\* A function that also has, or has instead, this value there
With(f, key, value) == [k \in DOMAIN f \union {key} |-> IF k = key THEN value ELSE f[k]]

signExtend(w) == IF 2 * w >= WordSize THEN w - WordSize ELSE w
-----------------------------------------------------------------------------
(***************************************************************************)
(* The host                                                                 *)
(***************************************************************************)
How(create, truncate, access, append) ==
  [create |-> create, truncate |-> truncate, access |-> access, append |-> append]

HostError(name, how) ==
  CASE name \in Nowhere -> "missing"
    [] name \in Denied \ Nowhere -> "permission"
    [] name \notin Denied \union Nowhere -> IF how.create \/ name \in DOMAIN disk THEN "" ELSE "missing"

\* An open file that no handle has.
Fresh == CHOOSE d \in 1..(MaxOpens + 1) : d \notin DOMAIN opened \union Range(files)

HostOpens(name, how) ==
  /\ opened' = With(opened, Fresh,
                    [name |-> name, access |-> how.access, append |-> how.append, offset |-> 0])
  /\ disk' = IF how.truncate \/ name \notin DOMAIN disk THEN With(disk, name, << >>) ELSE disk

HostCloses(ds) == opened' = Restrict(opened, DOMAIN opened \ ds) /\ UNCHANGED disk

MoveTo(d, offset) == opened' = [opened EXCEPT ![d].offset = offset]

\* What a read of count bytes gets; nothing at the end of the file.
HostData(d, count) == SubSeq(disk[opened[d].name], opened[d].offset + 1,
                             Min({opened[d].offset + count, Len(disk[opened[d].name])}))

CanRead(d) == d \in DOMAIN opened /\ opened[d].access # "write"
CanWrite(d) == d \in DOMAIN opened /\ opened[d].access # "read"

\* Bytes written past the end leave zeros between.
Written(old, at, data) ==
  [i \in 1..Max({Len(old), at + Len(data)}) |->
     IF i \in (at + 1)..(at + Len(data)) THEN data[i - at] ELSE IF i <= Len(old) THEN old[i] ELSE 0]

WritePosition(d) == IF opened[d].append THEN Len(disk[opened[d].name]) ELSE opened[d].offset

Room(d) == Max({0, Capacity - WritePosition(d)})

\* The host writes what there is room for, and nothing if there is nothing to write.
HostWrites(d, data) ==
  LET at == WritePosition(d)
      fitting == SubSeq(data, 1, Min({Len(data), Room(d)}))
  IN  IF fitting = << >> THEN UNCHANGED host
      ELSE /\ disk' = [disk EXCEPT ![opened[d].name] = Written(@, at, fitting)]
           /\ MoveTo(d, at + Len(fitting))
-----------------------------------------------------------------------------
(***************************************************************************)
(* The last error                                                           *)
(***************************************************************************)
setLastError(code, text) == lastErrorCode' = code /\ lastError' = text

\* Mutant of OSCode: an error of no kind the code knows clears the last one.
OSCodeKnown(error) == CASE error = "missing" -> 2 [] error = "permission" -> 5 [] OTHER -> 0

OSCode(error) == CASE error = "" -> 0 [] error = "missing" -> 2 [] error = "permission" -> 5
                   [] OTHER -> 1

\* setOSError, clearLastError; C sets the text alone.
Report(api, error) ==
  IF api = "c" THEN lastError' = error /\ UNCHANGED lastErrorCode
  ELSE setLastError(OSCode(error), error)

ReportInvalid(api) ==
  IF api = "c" THEN lastError' = "invalid" /\ UNCHANGED lastErrorCode
  ELSE setLastError(6, "invalid")

\* What a call leaves for the program: EAX, the carry, and the word in memory that
\* the Win32 calls store, if it named one in memory.
Answer(eax, carry, word) == [eax |-> eax, carry |-> carry, word |-> word]

\* bytes have gone through handle; ended: and no more come.
Told(handle, bytes, ended) == [handle |-> handle, bytes |-> bytes, ended |-> ended]
Nothing == Told(Invalid, << >>, FALSE)

\* The program sees a failure by the convention of the interface.
Outcome(api, failed, dead, told) == [api |-> api, failed |-> failed, dead |-> dead, told |-> told]
Ends(api, failed) == outcome' = Outcome(api, failed, FALSE, Nothing)
EndsDead(api, failed) == outcome' = Outcome(api, failed, TRUE, Nothing)
-----------------------------------------------------------------------------
(***************************************************************************)
(* Opening and closing                                                      *)
(***************************************************************************)
Forgets(handles) == known' = Restrict(known, DOMAIN known \ handles)

Init == /\ disk \in {[f \in S |-> << >>] : S \in SUBSET (Names \ (Denied \union Nowhere))}
        /\ opened = << >> /\ files = << >> /\ nextHandle = FirstHandle
        /\ lastErrorCode = 0 /\ lastError = ""
        /\ status = "running"
        /\ outcome = Outcome("", FALSE, FALSE, Nothing)
        /\ known = << >>

Running == status = "running"
Valid(handle) == handle \in DOMAIN files

\* The program makes nothing more of anything.
Over == outcome' = Outcome("over", FALSE, FALSE, Nothing) /\ known' = << >>

\* An error ends the program, its files as they are.
Fails == /\ status' = "error"
         /\ Over
         /\ UNCHANGED <<host, files, nextHandle, errors>>

\* Mutant of NewHandle: the lowest number not in use.
NewHandleLowest == Min({h \in FirstHandle..nextHandle : h \notin DOMAIN files})

NewHandle == nextHandle

\* Mutant of storeHandle: the number stays the next one.
storeHandleOnly(d) == files' = With(files, NewHandle, d) /\ UNCHANGED nextHandle

storeHandle(d) == /\ files' = With(files, NewHandle, d)
                  /\ nextHandle' = Max({nextHandle, NewHandle + 1})

Open(api, name, how) ==
  /\ Running /\ nextHandle < FirstHandle + MaxOpens
  /\ Report(api, HostError(name, how))
  /\ \/ /\ HostError(name, how) # ""
        /\ Ends(api, TRUE)
        /\ UNCHANGED <<host, files, nextHandle, known>>
     \/ /\ HostError(name, how) = ""
        /\ HostOpens(name, how)
        /\ storeHandle(Fresh)
        /\ Ends(api, FALSE)
        /\ known' = With(known, NewHandle, 0)
  /\ UNCHANGED status

builtinCreateOutputFile(name) == Open("irvine", name, How(TRUE, TRUE, "both", FALSE))
builtinOpenInputFile(name) == Open("irvine", name, How(FALSE, FALSE, "read", FALSE))

openCFile(mode) ==
  CASE mode = "a" -> How(TRUE, FALSE, "write", TRUE) [] mode = "a+" -> How(TRUE, FALSE, "both", TRUE)
    [] mode = "w" -> How(TRUE, TRUE, "write", FALSE) [] mode = "w+" -> How(TRUE, TRUE, "both", FALSE)
    [] mode = "r" -> How(FALSE, FALSE, "read", FALSE) [] mode = "r+" -> How(FALSE, FALSE, "both", FALSE)

fopen(name, mode) == Open("c", name, openCFile(mode))

\* Every disposition but CREATE_ALWAYS and OPEN_EXISTING opens what there is or
\* creates it.
openCreateFile(access, disposition) ==
  How(disposition # "openExisting", disposition = "createAlways", access, FALSE)

invokeCreateFile(name, access, disposition) ==
  Open("win32", name, openCreateFile(access, disposition))

\* Mutant of Removed: the handle stays.
RemovedNot(handle) == files

Removed(handle) == Restrict(files, DOMAIN files \ {handle})

\* The handle goes first.  The host may close the file and still report an error,
\* which is fatal in CloseFile.
Close(api, handle) ==
  /\ Running
  /\ \/ /\ ~Valid(handle)
        /\ ReportInvalid(api)
        /\ EndsDead(api, TRUE)
        /\ UNCHANGED <<host, files, known, status>>
     \/ /\ Valid(handle)
        /\ files' = Removed(handle)
        /\ HostCloses({files[handle]})
        /\ Forgets({handle})
        /\ \/ Report(api, "") /\ Ends(api, FALSE) /\ UNCHANGED status
           \/ /\ Report(api, "other") /\ Ends(api, TRUE)
              /\ status' = IF api = "irvine" THEN "error" ELSE status
  /\ UNCHANGED nextHandle

builtinCloseFile(handle) == Close("irvine", handle)
fclose(handle) == Close("c", handle)
invokeCloseHandle(handle) == Close("win32", handle)
-----------------------------------------------------------------------------
(***************************************************************************)
(* Reading and writing                                                      *)
(***************************************************************************)
\* Of ok and a count: Irvine has the carry clear and the count in EAX, Win32 1 in
\* EAX and the count in memory.
Moved(api, ok, n) ==
  IF api = "irvine" THEN Answer(IF ok THEN n ELSE 0, ~ok, 0)
  ELSE Answer(IF ok THEN 1 ELSE 0, FALSE, IF ok THEN n ELSE 0)

SeesFailure(api, answer) == IF api = "irvine" THEN answer.carry ELSE answer.eax = 0
SeenCount(api, answer) == IF api = "irvine" THEN answer.eax ELSE answer.word

Tell(api, answer, told) == outcome' = Outcome(api, SeesFailure(api, answer), FALSE, told)

\* A handle that is not in use is found before anything else is looked at.
Refused(api, handle) ==
  /\ ~Valid(handle)
  /\ ReportInvalid(api)
  /\ EndsDead(api, SeesFailure(api, Moved(api, FALSE, 0)))
  /\ UNCHANGED <<host, status, known>>

\* The buffer goes beyond memory: an error of ReadFromFile and WriteToFile, of
\* the host language in ReadFile and WriteFile.
OutOfMemory(handle, count) == Valid(handle) /\ count > Buffer /\ Fails

HostRefuses(api) ==
  /\ Report(api, "other")
  /\ Tell(api, Moved(api, FALSE, 0), Nothing)

\* Mutant of Reported: what was asked for.
ReportedAsked(n, count) == count

\* What is told of n bytes moved, count asked for.
Reported(n, count) == n

Advances(handle, n) ==
  known' = [h \in DOMAIN known |-> known[h] + IF h = handle THEN n ELSE 0]

\* counted: the word the count is stored in is in memory; an error there is ignored.
Read(api, handle, count, counted) ==
  /\ Running
  /\ \/ Refused(api, handle)
     \/ OutOfMemory(handle, count)
     \/ /\ Valid(handle) /\ count <= Buffer
        /\ LET d == files[handle]
               data == HostData(d, count)
               buffer == [i \in 1..Buffer |-> IF i <= Len(data) THEN data[i] ELSE Stale]
               answer == Moved(api, TRUE, Reported(Len(data), count))
               n == SeenCount(api, answer)
           IN  \/ /\ CanRead(d) \/ count = 0
                  /\ MoveTo(d, opened[d].offset + Len(data))
                  /\ Report(api, "")
                  /\ Tell(api, answer,
                          IF counted THEN Told(handle, SubSeq(buffer, 1, n), n = 0 /\ count > 0)
                          ELSE Nothing)
                  /\ IF counted THEN Advances(handle, n) ELSE Forgets({handle})
               \/ /\ ~CanRead(d) /\ count > 0
                  /\ HostRefuses(api)
                  /\ UNCHANGED <<opened, known>>
        /\ UNCHANGED <<disk, status>>
  /\ UNCHANGED <<files, nextHandle>>

builtinReadFromFile(handle, count) == Read("irvine", handle, count, TRUE)
invokeReadFile(handle, count, counted) == Read("win32", handle, count, counted)

\* A write that the host cuts short is an error.  Hosts differ on writing nothing
\* to a file that may only be read.
Write(api, handle, text) ==
  /\ Running
  /\ \/ Refused(api, handle)
     \/ OutOfMemory(handle, Len(text))
     \/ /\ Valid(handle) /\ Len(text) <= Buffer
        /\ LET d == files[handle]
               answer == Moved(api, TRUE, Reported(Len(text), Len(text)))
           IN  \/ /\ (CanWrite(d) /\ Room(d) >= Len(text)) \/ text = << >>
                  /\ HostWrites(d, text)
                  /\ Report(api, "")
                  /\ Tell(api, answer, Told(handle, text, FALSE))
                  /\ IF opened[d].append /\ text # << >> THEN Forgets({handle})
                     ELSE Advances(handle, Len(text))
               \/ /\ CanWrite(d) /\ Room(d) < Len(text)
                  /\ HostWrites(d, text)
                  /\ HostRefuses(api)
                  /\ Forgets({handle})
               \/ /\ ~CanWrite(d)
                  /\ HostRefuses(api)
                  /\ UNCHANGED <<host, known>>
        /\ UNCHANGED status
  /\ UNCHANGED <<files, nextHandle>>

builtinWriteToFile(handle, text) == Write("irvine", handle, text)
invokeWriteFile(handle, text) == Write("win32", handle, text)
-----------------------------------------------------------------------------
(***************************************************************************)
(* Moving                                                                   *)
(***************************************************************************)
Origin(d, method) ==
  CASE method = 0 -> 0 [] method = 1 -> opened[d].offset [] method = 2 -> Len(disk[opened[d].name])

\* Mutant of Distance: the low half is signed whatever the high one.
DistanceSigned(low, high, wide) == IF wide THEN signExtend(high) * WordSize + signExtend(low)
                                   ELSE signExtend(low)

\* With a pointer to a high half the low half has no sign.
Distance(low, high, wide) == IF wide THEN signExtend(high) * WordSize + low ELSE signExtend(low)

Contradicted == -1

\* What reading the high half yields when the pointer to it is not into memory.
Unreadable == -1

\* What the program means: a number of one word, or of the two together.
Meant(low, high, wide) ==
  LET both == high * WordSize + low
  IN  IF ~wide THEN signExtend(low)
      ELSE IF 2 * both >= WordSize * WordSize THEN both - WordSize * WordSize ELSE both

\* The program knows where it meant to go, and compares what it is told.
LearnsPosition(handle, distance, wide, method, answer) ==
  LET aim == distance + CASE method = 0 -> 0 [] method = 1 -> known[handle]
                          [] method = 2 -> Len(disk[opened[files[handle]].name])
      agrees == IF wide THEN answer.word * WordSize + answer.eax = aim
                ELSE answer.eax = aim % WordSize
  IN  known' = IF method = 1 /\ handle \notin DOMAIN known THEN known
               ELSE With(known, handle, IF agrees THEN aim ELSE Contradicted)

SeekFails(code, text) ==
  /\ setLastError(code, text)
  /\ UNCHANGED <<host, known>>

\* Mutant of ReportedPosition: the distance.
ReportedDistance(position, distance) == distance % (WordSize * WordSize)

ReportedPosition(position, distance) == position

\* high is the word at the pointer to the high half, if there is one: wide.  A
\* pointer that leaves memory ends the program, where the handle is good.  A
\* position that is not negative may be anywhere.  One whose low half is
\* INVALID_SET_FILE_POINTER looks like a failure.
invokeSetFilePointer(handle, low, high, wide, method) ==
  /\ Running
  /\ \/ /\ ~Valid(handle)
        /\ SeekFails(6, "invalid")
        /\ EndsDead("seek", TRUE)
        /\ UNCHANGED status
     \/ Valid(handle) /\ high = Unreadable /\ Fails
     \/ /\ Valid(handle) /\ high # Unreadable /\ method > 2
        /\ SeekFails(87, "method")
        /\ Ends("seek", TRUE)
        /\ UNCHANGED status
     \/ /\ Valid(handle) /\ high # Unreadable /\ method <= 2
        /\ LET d == files[handle]
               distance == Distance(low, high, wide)
               position == Origin(d, method) + distance
               told == ReportedPosition(position, distance)
               answer == Answer(told % WordSize, FALSE, told \div WordSize)
           IN  \/ position < 0 /\ SeekFails(OSCode("other"), "other") /\ Ends("seek", TRUE)
               \/ /\ position \in 0..MaxOffset
                  /\ MoveTo(d, position)
                  /\ Report("seek", "")
                  /\ Ends("seek", answer.eax = Invalid)
                  /\ LearnsPosition(handle, Meant(low, high, wide), wide, method, answer)
                  /\ UNCHANGED disk
        /\ UNCHANGED status
  /\ UNCHANGED <<files, nextHandle>>

\* The program is over: every file is closed, whatever the host says.
Finish ==
  /\ Running
  /\ status' = "done"
  /\ HostCloses(Range(files))
  /\ Over
  /\ UNCHANGED <<files, nextHandle, errors>>

\* Handles a program may use: those it got, in use or not, and one it never got.
Handles == FirstHandle..nextHandle

HandleCalls(h) ==
  \/ builtinCloseFile(h) \/ fclose(h) \/ invokeCloseHandle(h)
  \/ \E n \in Counts : \/ builtinReadFromFile(h, n)
                      \/ \E counted \in BOOLEAN : invokeReadFile(h, n, counted)
  \/ \E text \in Texts : builtinWriteToFile(h, text) \/ invokeWriteFile(h, text)
  \/ \E low \in Lows, method \in 0..3 :
       \/ invokeSetFilePointer(h, low, 0, FALSE, method)
       \/ \E high \in Highs \union {Unreadable} : invokeSetFilePointer(h, low, high, TRUE, method)

Next ==
  \/ \E f \in Names :
       \/ builtinCreateOutputFile(f) \/ builtinOpenInputFile(f)
       \/ \E mode \in Modes : fopen(f, mode)
       \/ \E access \in Accesses,
             disposition \in {"createAlways", "openExisting", "openAlways"} :
            invokeCreateFile(f, access, disposition)
  \/ \E h \in Handles : HandleCalls(h)
  \/ Finish

Spec == Init /\ [][Next]_vars
-----------------------------------------------------------------------------
(***************************************************************************)
(* Properties                                                               *)
(***************************************************************************)
TypeOK ==
  /\ \A f \in DOMAIN disk : disk[f] \in Seq(Nat) /\ Len(disk[f]) <= Capacity
  /\ \A d \in DOMAIN opened : opened[d].name \in DOMAIN disk /\ opened[d].offset \in 0..MaxOffset
  /\ DOMAIN files \subseteq FirstHandle..(nextHandle - 1)
  /\ lastErrorCode \in {0, 1, 2, 5, 6, 87}
  /\ DOMAIN known \subseteq DOMAIN files

\* While the program runs the open files of the host are those its handles name,
\* one each: none is lost, not even by a close that fails, and none is named
\* after it was closed; at the end none is open (storeHandle, the closes, Run).
HandlesMatchHost ==
  /\ status = "running" => DOMAIN opened = Range(files) /\ IsInjective(files)
  /\ status = "done" => opened = << >>

\* A handle that was closed never names a file again, and a call with a handle
\* that names none changes no file and moves no other handle (storeHandle).
HandlesStayDead ==
  [][/\ \A h \in FirstHandle..(nextHandle - 1) : h \notin DOMAIN files => h \notin DOMAIN files'
     /\ outcome'.dead => UNCHANGED <<host, files>>]_vars

ErrorTexts == {<<0, "">>, <<1, "other">>, <<2, "missing">>, <<5, "permission">>,
               <<6, "invalid">>, <<87, "method">>}

\* GetLastError and FormatMessage speak of the last call: the code is not 0 exactly
\* when that call told of a failure, the text is the code's, and a dead handle is
\* always called one.  After fopen and fclose only the text can be relied on, and a
\* position may look like INVALID_SET_FILE_POINTER, which the code tells apart
\* (setLastError, setOSError, clearLastError and every way out of the calls).
LastErrorTells ==
  /\ outcome.api \notin {"c", "over"} =>
       (/\ <<lastErrorCode, lastError>> \in ErrorTexts
        /\ lastErrorCode # 0 => outcome.failed
        /\ lastErrorCode = 0 /\ outcome.failed => outcome.api = "seek")
  /\ outcome.api = "c" => outcome.failed = (lastError # "")
  /\ outcome.dead => lastError = "invalid"

\* What the program was told is so: the bytes it read or wrote through a handle,
\* in the number reported, stand in the file just before the handle's position, it
\* is told of the end only there, and the position is the one the program comes to
\* by adding up the counts and the moves of every interface: nothing is skipped or
\* read twice (Reported, invokeSetFilePointer and the calls that move).
KnowledgeHolds ==
  status = "running" =>
    /\ \A h \in DOMAIN known : opened[files[h]].offset = known[h]
    /\ outcome.told # Nothing =>
         LET d == files[outcome.told.handle]
             contents == disk[opened[d].name]
             start == opened[d].offset - Len(outcome.told.bytes)
         IN  /\ \A i \in DOMAIN outcome.told.bytes :
                  start + i \in DOMAIN contents /\ outcome.told.bytes[i] = contents[start + i]
             /\ outcome.told.ended => start >= Len(contents)
=============================================================================
