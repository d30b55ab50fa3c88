----------------------------- MODULE FilesProofs -----------------------------
(***************************************************************************)
(* Proofs about Files, for every capacity of files, every even size of      *)
(* words, and any names, modes, texts and numbers of handles.               *)
(***************************************************************************)
EXTENDS Files, FiniteSetTheorems, TLAPS

-----------------------------------------------------------------------------
(***************************************************************************)
(* The operators                                                            *)
(***************************************************************************)
\* With has its value where it was put, and the function's own elsewhere.
LEMMA WithIs ==
  ASSUME NEW f, NEW k, NEW v
  PROVE  /\ DOMAIN With(f, k, v) = DOMAIN f \union {k}
         /\ With(f, k, v)[k] = v
         /\ \A x \in DOMAIN f \ {k} : With(f, k, v)[x] = f[x]
  BY DEF With

\* Restrict keeps what it does not leave out.
LEMMA RestrictIs ==
  ASSUME NEW f, NEW S
  PROVE  /\ DOMAIN Restrict(f, S) = S
         /\ \A x \in S : Restrict(f, S)[x] = f[x]
  BY DEF Restrict

\* The bounds are numbers, and positions go as far as files.
LEMMA BoundsAre ==
  /\ Capacity \in Nat /\ MaxOpens \in Nat /\ MaxOffset \in Nat
  /\ Capacity <= MaxOffset
  BY FilesAssumption

\* The smaller, and the larger, of two numbers
LEMMA MinOfTwo == \A a, b \in Int : Min({a, b}) = IF a <= b THEN a ELSE b
  BY DEF Min

LEMMA MaxOfTwo == \A a, b \in Int : Max({a, b}) = IF a >= b THEN a ELSE b
  BY DEF Max

\* A part of a text that lies in it is as long as its bounds say, and has the
\* text's bytes.
LEMMA PartIs ==
  ASSUME NEW s \in Seq(Nat), NEW m \in Nat, NEW n \in Nat, m <= n, n <= Len(s)
  PROVE  /\ SubSeq(s, m + 1, n) \in Seq(Nat)
         /\ Len(SubSeq(s, m + 1, n)) = n - m
         /\ \A i \in 1..(n - m) : SubSeq(s, m + 1, n)[i] = s[m + i]
  OBVIOUS

\* A part that ends before it begins is empty.
LEMMA NoPart ==
  ASSUME NEW s, NEW m \in Int, NEW n \in Int, n < m
  PROVE  SubSeq(s, m, n) = << >>
  OBVIOUS

LEMMA PrefixIs ==
  ASSUME NEW s \in Seq(Nat), NEW n \in Nat, n <= Len(s)
  PROVE  /\ SubSeq(s, 1, n) \in Seq(Nat) /\ Len(SubSeq(s, 1, n)) = n
         /\ \A i \in 1..n : SubSeq(s, 1, n)[i] = s[i]
         /\ n = 0 <=> SubSeq(s, 1, n) = << >>
  OBVIOUS

\* A function on the numbers to m is a sequence of that length.
LEMMA SequenceIs ==
  ASSUME NEW f, NEW m \in Nat, f = [i \in 1..m |-> f[i]], \A i \in 1..m : f[i] \in Nat
  PROVE  f \in Seq(Nat) /\ Len(f) = m
  <1>1. f \in [1..m -> Nat]
    OBVIOUS
  <1> QED BY <1>1

\* No function has nothing for its domain but the empty one.
LEMMA EmptyIs ==
  /\ DOMAIN << >> = {}
  /\ \A S : << >> \in [{} -> S]
  /\ << >> = [x \in {} |-> << >>[x]]
  OBVIOUS

\* With words of an even size, the distance SetFilePointer computes from two
\* halves is the number they mean together.
LEMMA DistanceIsMeant ==
  ASSUME NEW low \in 0..(WordSize - 1), NEW high \in 0..(WordSize - 1), NEW wide \in BOOLEAN
  PROVE  /\ Distance(low, high, wide) = Meant(low, high, wide)
         /\ Distance(low, high, wide) \in Int
  <1>1. PICK H \in Nat : WordSize = 2 * H
    BY FilesAssumption
  <1> QED BY <1>1 DEF Distance, Meant, signExtend
-----------------------------------------------------------------------------
(***************************************************************************)
(* Types, and the invariant                                                 *)
(***************************************************************************)
OpenFile == [name : Names, access : {"read", "write", "both"}, append : BOOLEAN,
             offset : 0..MaxOffset]

\* TypeOK and what it leaves unsaid: every variable is a function of its kind,
\* and no more handles have been given out than files were opened.
Typed ==
  /\ TypeOK
  /\ disk = [f \in DOMAIN disk |-> disk[f]] /\ DOMAIN disk \subseteq Names
  /\ opened \in [DOMAIN opened -> OpenFile]
  /\ files = [h \in DOMAIN files |-> files[h]]
  /\ known = [h \in DOMAIN known |-> known[h]]
  /\ nextHandle \in Nat /\ FirstHandle <= nextHandle /\ nextHandle <= FirstHandle + MaxOpens
  /\ status \in {"running", "done", "error"}

\* The handles are in step with the host, and what the program knows is so.
FilesInv == Typed /\ HandlesMatchHost /\ LastErrorTells /\ KnowledgeHolds

\* Run starts with nothing open, no error and nothing known.
LEMMA FilesInvInit == Init => FilesInv
  <1> SUFFICES ASSUME Init PROVE FilesInv
    OBVIOUS
  <1>1. PICK S \in SUBSET (Names \ (Denied \union Nowhere)) : disk = [f \in S |-> << >>]
    BY DEF Init
  <1>2. /\ DOMAIN disk = S /\ \A f \in S : disk[f] \in Seq(Nat) /\ Len(disk[f]) = 0
    BY <1>1
  <1>3. /\ opened = << >> /\ files = << >> /\ known = << >> /\ nextHandle = 4
        /\ status = "running" /\ lastErrorCode = 0 /\ lastError = ""
    BY DEF Init, FirstHandle
  <1>4. DOMAIN opened = {} /\ DOMAIN files = {} /\ DOMAIN known = {}
    BY <1>3, EmptyIs
  <1>5. outcome.api = "" /\ outcome.failed = FALSE /\ outcome.dead = FALSE /\ outcome.told = Nothing
    BY DEF Init, Outcome
  <1>6. TypeOK
    <2>1. \A f \in DOMAIN disk : disk[f] \in Seq(Nat) /\ Len(disk[f]) <= Capacity
      BY <1>2, FilesAssumption
    <2>2. /\ \A d \in DOMAIN opened : opened[d].name \in DOMAIN disk /\ opened[d].offset \in 0..MaxOffset
          /\ DOMAIN files \subseteq FirstHandle..(nextHandle - 1) /\ DOMAIN known \subseteq DOMAIN files
      BY <1>4
    <2>3. lastErrorCode \in {0, 1, 2, 5, 6, 87}
      BY <1>3
    <2> QED BY <2>1, <2>2, <2>3 DEF TypeOK
  <1>7. Typed
    <2>1. opened \in [DOMAIN opened -> OpenFile]
      BY <1>3, <1>4, EmptyIs
    <2>2. disk = [f \in DOMAIN disk |-> disk[f]] /\ DOMAIN disk \subseteq Names
      BY <1>1, <1>2
    <2>3. files = [h \in DOMAIN files |-> files[h]] /\ known = [h \in DOMAIN known |-> known[h]]
      BY <1>3, <1>4, EmptyIs
    <2>4. nextHandle \in Nat /\ FirstHandle <= nextHandle /\ nextHandle <= FirstHandle + MaxOpens
      <3>1. nextHandle = 4
        BY <1>3
      <3>2. MaxOpens \in Nat
        BY FilesAssumption
      <3> QED BY <3>1, <3>2 DEF FirstHandle
    <2> QED BY <1>3, <1>6, <2>1, <2>2, <2>3, <2>4 DEF Typed
  <1>8. HandlesMatchHost
    BY <1>3, <1>4 DEF HandlesMatchHost, Range, IsInjective
  <1>9. LastErrorTells
    BY <1>3, <1>5 DEF LastErrorTells, ErrorTexts
  <1>10. KnowledgeHolds
    BY <1>4, <1>5 DEF KnowledgeHolds
  <1> QED BY <1>7, <1>8, <1>9, <1>10 DEF FilesInv

\* While a file may still be opened the host has a number for it.
LEMMA FreshIsNew ==
  ASSUME Typed, HandlesMatchHost, status = "running", nextHandle < FirstHandle + MaxOpens
  PROVE  Fresh \notin DOMAIN opened /\ Fresh \notin Range(files)
  <1> DEFINE D == 1..(MaxOpens + 1)
             T == FirstHandle..(nextHandle - 1)
             holder == [d \in D |-> CHOOSE h \in DOMAIN files : files[h] = d]
  <1>1. DOMAIN opened = Range(files)
    BY DEF HandlesMatchHost
  <1>2. \E d \in D : d \notin Range(files)
    <2> SUFFICES ASSUME \A d \in D : d \in Range(files)
                 PROVE  FALSE
      OBVIOUS
    <2>1. \A d \in D : holder[d] \in DOMAIN files /\ files[holder[d]] = d
      BY DEF Range
    <2>2. holder \in [D -> T]
      BY <2>1 DEF Typed, TypeOK
    <2>3. IsFiniteSet(D) /\ Cardinality(D) = MaxOpens + 1
      BY FS_Interval, FilesAssumption
    <2>4. IsFiniteSet(T) /\ Cardinality(T) < MaxOpens + 1
      <3>1. nextHandle \in Nat /\ nextHandle - 1 \in Int /\ FirstHandle \in Int
        BY DEF Typed, FirstHandle
      <3>2. IsFiniteSet(T) /\ Cardinality(T) = IF FirstHandle > nextHandle - 1 THEN 0
                                               ELSE nextHandle - 1 - FirstHandle + 1
        BY <3>1, FS_Interval
      <3> QED BY <3>1, <3>2, FilesAssumption
    <2>5. PICK x, y \in D : x # y /\ holder[x] = holder[y]
      <3> HIDE DEF D, T, holder
      <3> QED BY <2>2, <2>3, <2>4, FS_PigeonHole, FilesAssumption
    <2> QED BY <2>1, <2>5
  <1> QED BY <1>1, <1>2 DEF Fresh

\* A call that tells nothing leaves as known what it leaves known.
LEMMA ToldNothing ==
  ASSUME outcome'.told = Nothing, \A h \in DOMAIN known' : opened'[files'[h]].offset = known'[h]
  PROVE  KnowledgeHolds'
  BY DEF KnowledgeHolds

\* What a report leaves is the last call's (setLastError, setOSError).
LEMMA ReportTells ==
  ASSUME NEW api \in {"irvine", "win32", "c", "seek"},
         NEW error \in {"", "missing", "permission", "other"}, Report(api, error),
         LastErrorTells, TypeOK,
         outcome'.api = api, outcome'.dead = FALSE,
         \/ outcome'.failed = (error # "")
         \/ outcome'.failed \in BOOLEAN /\ error = "" /\ api = "seek"
  PROVE  LastErrorTells' /\ lastErrorCode' \in {0, 1, 2, 5, 6, 87}
  <1>1. CASE api = "c"
    BY <1>1 DEF Report, LastErrorTells, TypeOK
  <1>2. CASE api # "c"
    <2>1. lastErrorCode' = OSCode(error) /\ lastError' = error
      BY <1>2 DEF Report, setLastError
    <2>2. /\ <<lastErrorCode', lastError'>> \in ErrorTexts
          /\ lastErrorCode' \in {0, 1, 2, 5}
          /\ lastErrorCode' = 0 => error = ""
          /\ error = "" => lastErrorCode' = 0
      <3>1. CASE error = ""
        <4>1. OSCode(error) = 0
          BY <3>1 DEF OSCode
        <4> QED BY <2>1, <3>1, <4>1 DEF ErrorTexts
      <3>2. CASE error = "missing"
        <4>1. OSCode(error) = 2
          BY <3>2 DEF OSCode
        <4> QED BY <2>1, <3>2, <4>1 DEF ErrorTexts
      <3>3. CASE error = "permission"
        <4>1. OSCode(error) = 5
          BY <3>3 DEF OSCode
        <4> QED BY <2>1, <3>3, <4>1 DEF ErrorTexts
      <3>4. CASE error = "other"
        <4>1. OSCode(error) = 1
          BY <3>4 DEF OSCode
        <4> QED BY <2>1, <3>4, <4>1 DEF ErrorTexts
      <3> QED BY <3>1, <3>2, <3>3, <3>4
    <2>3. lastErrorCode' # 0 => outcome'.failed
      BY <2>2
    <2>4. lastErrorCode' = 0 /\ outcome'.failed => outcome'.api = "seek"
      BY <2>2
    <2> QED BY <1>2, <2>2, <2>3, <2>4 DEF LastErrorTells
  <1> QED BY <1>1, <1>2

\* A dead handle is told of (setLastError).
LEMMA InvalidTells ==
  ASSUME NEW api \in {"irvine", "win32", "c"}, ReportInvalid(api), TypeOK,
         outcome'.api = api, outcome'.dead = TRUE, outcome'.failed = TRUE
  PROVE  LastErrorTells' /\ lastErrorCode' \in {0, 1, 2, 5, 6, 87}
  <1>1. lastError' = "invalid" /\ lastErrorCode' \in {0, 1, 2, 5, 6, 87}
    BY DEF ReportInvalid, setLastError, TypeOK
  <1>2. CASE api = "c"
    BY <1>1, <1>2 DEF LastErrorTells
  <1>3. CASE api # "c"
    <2>1. lastErrorCode' = 6
      BY <1>3 DEF ReportInvalid, setLastError
    <2>2. <<lastErrorCode', lastError'>> \in ErrorTexts
      BY <1>1, <2>1 DEF ErrorTexts
    <2>3. /\ lastErrorCode' # 0 => outcome'.failed
          /\ ~(lastErrorCode' = 0 /\ outcome'.failed)
      BY <2>1
    <2> QED BY <1>1, <1>3, <2>2, <2>3 DEF LastErrorTells
  <1> QED BY <1>1, <1>2, <1>3
-----------------------------------------------------------------------------
(***************************************************************************)
(* Opening and closing                                                      *)
(***************************************************************************)
Hows == [create : BOOLEAN, truncate : BOOLEAN, access : {"read", "write", "both"}, append : BOOLEAN]

\* A file that is opened takes a number and a handle of its own.
LEMMA OpenSucceeds ==
  ASSUME FilesInv, status = "running", nextHandle < FirstHandle + MaxOpens,
         NEW name \in Names, NEW how \in Hows,
         HostOpens(name, how), storeHandle(Fresh), known' = With(known, NewHandle, 0),
         lastErrorCode' \in {0, 1, 2, 5, 6, 87}, UNCHANGED status
  PROVE  /\ Typed' /\ HandlesMatchHost'
         /\ \A h \in DOMAIN known' : opened'[files'[h]].offset = known'[h]
  <1> USE DEF FilesInv
  <1> DEFINE file == [name |-> name, access |-> how.access, append |-> how.append, offset |-> 0]
  <1>1. Fresh \notin DOMAIN opened /\ Fresh \notin Range(files)
    BY FreshIsNew
  <1>2. /\ DOMAIN opened' = DOMAIN opened \union {Fresh} /\ opened'[Fresh] = file
        /\ \A d \in DOMAIN opened : opened'[d] = opened[d]
        /\ opened' = [d \in DOMAIN opened' |-> opened'[d]]
    BY <1>1 DEF HostOpens, With
  <1>3. nextHandle \in Nat /\ nextHandle' = nextHandle + 1 /\ nextHandle \notin DOMAIN files
    <2>1. nextHandle \in Nat /\ DOMAIN files \subseteq FirstHandle..(nextHandle - 1)
      BY DEF Typed, TypeOK
    <2>2. Max({nextHandle, nextHandle + 1}) = nextHandle + 1
      BY <2>1, MaxOfTwo
    <2>3. nextHandle' = nextHandle + 1
      BY <2>2 DEF storeHandle, NewHandle
    <2> QED BY <2>1, <2>3 DEF FirstHandle
  <1>4. /\ DOMAIN files' = DOMAIN files \union {nextHandle} /\ files'[nextHandle] = Fresh
        /\ \A h \in DOMAIN files : files'[h] = files[h]
        /\ files' = [h \in DOMAIN files' |-> files'[h]]
    BY <1>3 DEF storeHandle, NewHandle, With
  <1>5. /\ DOMAIN known' = DOMAIN known \union {nextHandle} /\ known'[nextHandle] = 0
        /\ \A h \in DOMAIN known \ {nextHandle} : known'[h] = known[h]
        /\ known' = [h \in DOMAIN known' |-> known'[h]]
    BY DEF With, NewHandle
  <1>6. /\ DOMAIN disk \union {name} = DOMAIN disk'
        /\ \A f \in DOMAIN disk' : disk'[f] = << >> \/ (f \in DOMAIN disk /\ disk'[f] = disk[f])
        /\ disk' = [f \in DOMAIN disk' |-> disk'[f]]
    BY DEF HostOpens, With, Typed
  <1>7. file \in OpenFile
    BY FilesAssumption DEF OpenFile, Hows
  <1>8. Typed'
    <2>1. \A f \in DOMAIN disk' : disk'[f] \in Seq(Nat) /\ Len(disk'[f]) <= Capacity
      <3>1. << >> \in Seq(Nat) /\ Len(<< >>) = 0 /\ 0 <= Capacity
        BY FilesAssumption
      <3> QED BY <1>6, <3>1 DEF Typed, TypeOK
    <2>2. opened' \in [DOMAIN opened' -> OpenFile]
      BY <1>2, <1>7 DEF Typed
    <2>3. \A d \in DOMAIN opened' : opened'[d].name \in DOMAIN disk' /\ opened'[d].offset \in 0..MaxOffset
      BY <1>2, <1>6, FilesAssumption DEF Typed, TypeOK
    <2>4. DOMAIN files' \subseteq FirstHandle..(nextHandle' - 1)
      <3>1. DOMAIN files \subseteq FirstHandle..(nextHandle - 1)
        BY DEF Typed, TypeOK
      <3>2. FirstHandle <= nextHandle
        BY DEF Typed
      <3> QED BY <1>3, <1>4, <3>1, <3>2 DEF FirstHandle
    <2>5. TypeOK'
      BY <1>4, <1>5, <2>1, <2>3, <2>4 DEF Typed, TypeOK
    <2> QED BY <1>3, <1>4, <1>5, <1>6, <2>2, <2>5, FilesAssumption DEF Typed, FirstHandle
  <1>9. HandlesMatchHost'
    <2>1. DOMAIN opened = Range(files) /\ IsInjective(files)
      BY DEF HandlesMatchHost
    <2>2. DOMAIN opened' = Range(files')
      BY <1>2, <1>4, <2>1 DEF Range
    <2>3. IsInjective(files')
      BY <1>1, <1>4, <2>1 DEF Range, IsInjective
    <2> QED BY <2>2, <2>3 DEF HandlesMatchHost
  <1>10. ASSUME NEW h \in DOMAIN known'
         PROVE  opened'[files'[h]].offset = known'[h]
    <2>1. CASE h = nextHandle
      BY <1>2, <1>4, <1>5, <2>1
    <2>2. CASE h \in DOMAIN known \ {nextHandle}
      <3>1. h \in DOMAIN files /\ files[h] \in DOMAIN opened
        BY <2>2 DEF Typed, TypeOK, HandlesMatchHost, Range
      <3> QED BY <1>2, <1>4, <1>5, <2>2, <3>1 DEF KnowledgeHolds
    <2> QED BY <1>5, <2>1, <2>2
  <1> QED BY <1>8, <1>9, <1>10

\* A call that changes neither files nor what is known keeps the invariant.
LEMMA NothingMoves ==
  ASSUME FilesInv, UNCHANGED <<host, files, nextHandle, known, status>>,
         LastErrorTells', lastErrorCode' \in {0, 1, 2, 5, 6, 87}, outcome'.told = Nothing,
         status = "running"
  PROVE  FilesInv'
  <1>1. Typed' /\ HandlesMatchHost'
    BY DEF FilesInv, Typed, TypeOK, HandlesMatchHost, host
  <1>2. KnowledgeHolds'
    BY ToldNothing DEF FilesInv, KnowledgeHolds, host
  <1> QED BY <1>1, <1>2 DEF FilesInv

\* Opening, by any of the five calls, keeps the invariant.
LEMMA OpenStep ==
  ASSUME FilesInv, NEW api \in {"irvine", "win32", "c"}, NEW name \in Names, NEW how \in Hows,
         Open(api, name, how)
  PROVE  FilesInv'
  <1>1. HostError(name, how) \in {"", "missing", "permission"}
    BY DEF HostError
  <1>2. CASE HostError(name, how) # ""
    <2>1. outcome' = Outcome(api, TRUE, FALSE, Nothing)
      BY <1>2 DEF Open, Ends
    <2>2. outcome'.api = api /\ outcome'.failed = TRUE /\ outcome'.dead = FALSE /\ outcome'.told = Nothing
      BY <2>1 DEF Outcome
    <2>3. LastErrorTells' /\ lastErrorCode' \in {0, 1, 2, 5, 6, 87}
      BY <1>1, <1>2, <2>2, ReportTells DEF Open, FilesInv, Typed
    <2> QED BY <1>2, <2>2, <2>3, NothingMoves DEF Open, Running
  <1>3. CASE HostError(name, how) = ""
    <2>1. outcome' = Outcome(api, FALSE, FALSE, Nothing)
      BY <1>3 DEF Open, Ends
    <2>2. outcome'.api = api /\ outcome'.failed = FALSE /\ outcome'.dead = FALSE /\ outcome'.told = Nothing
      BY <2>1 DEF Outcome
    <2>3. LastErrorTells' /\ lastErrorCode' \in {0, 1, 2, 5, 6, 87}
      BY <1>1, <1>3, <2>2, ReportTells DEF Open, FilesInv, Typed
    <2>4. /\ Typed' /\ HandlesMatchHost'
          /\ \A h \in DOMAIN known' : opened'[files'[h]].offset = known'[h]
      BY <1>3, <2>3, OpenSucceeds DEF Open, Running
    <2> QED BY <2>2, <2>3, <2>4, ToldNothing DEF FilesInv
  <1> QED BY <1>2, <1>3
\* A handle that is not in use is refused, whatever the call.
LEMMA DeadStep ==
  ASSUME FilesInv, Running, NEW api \in {"irvine", "win32", "c"},
         ReportInvalid(api), EndsDead(api, TRUE),
         UNCHANGED <<host, files, nextHandle, known, status>>
  PROVE  FilesInv'
  <1>1. /\ outcome'.api = api /\ outcome'.failed = TRUE /\ outcome'.dead = TRUE
        /\ outcome'.told = Nothing
    BY DEF EndsDead, Outcome
  <1>2. LastErrorTells' /\ lastErrorCode' \in {0, 1, 2, 5, 6, 87}
    BY <1>1, InvalidTells DEF FilesInv, Typed
  <1> QED BY <1>1, <1>2, NothingMoves DEF Running

\* Closing takes the handle, the open file and what is known of it, and no other.
LEMMA CloseSucceeds ==
  ASSUME FilesInv, Running, NEW handle \in DOMAIN files,
         files' = Removed(handle), HostCloses({files[handle]}), Forgets({handle}),
         lastErrorCode' \in {0, 1, 2, 5, 6, 87}, status' \in {"running", "error"},
         UNCHANGED nextHandle
  PROVE  /\ Typed' /\ HandlesMatchHost'
         /\ \A h \in DOMAIN known' : opened'[files'[h]].offset = known'[h]
  <1> USE DEF FilesInv
  <1>1. /\ DOMAIN files' = DOMAIN files \ {handle} /\ files' = [h \in DOMAIN files' |-> files'[h]]
        /\ \A h \in DOMAIN files' : files'[h] = files[h]
    BY DEF Removed, Restrict
  <1>2. /\ DOMAIN opened' = DOMAIN opened \ {files[handle]}
        /\ opened' = [d \in DOMAIN opened' |-> opened'[d]]
        /\ \A d \in DOMAIN opened' : opened'[d] = opened[d]
        /\ disk' = disk
    BY DEF HostCloses, Restrict
  <1>3. /\ DOMAIN known' = DOMAIN known \ {handle} /\ known' = [h \in DOMAIN known' |-> known'[h]]
        /\ \A h \in DOMAIN known' : known'[h] = known[h]
    BY DEF Forgets, Restrict
  <1>4. DOMAIN opened = Range(files) /\ IsInjective(files)
    BY DEF HandlesMatchHost, Running
  <1>5. \A h \in DOMAIN files' : files[h] \in DOMAIN opened'
    BY <1>1, <1>2, <1>4 DEF IsInjective, Range
  <1>6. Typed'
    <2>1. opened' \in [DOMAIN opened' -> OpenFile]
      BY <1>2 DEF Typed
    <2>2. TypeOK'
      BY <1>1, <1>2, <1>3 DEF Typed, TypeOK
    <2> QED BY <1>1, <1>2, <1>3, <2>1, <2>2 DEF Typed
  <1>7. HandlesMatchHost'
    <2>1. DOMAIN opened' = Range(files')
      BY <1>1, <1>2, <1>4, <1>5 DEF Range
    <2>2. IsInjective(files')
      BY <1>1, <1>4 DEF IsInjective
    <2> QED BY <2>1, <2>2 DEF HandlesMatchHost
  <1>8. \A h \in DOMAIN known' : opened'[files'[h]].offset = known'[h]
    <2>1. \A h \in DOMAIN known : opened[files[h]].offset = known[h]
      BY DEF KnowledgeHolds, Running
    <2>2. DOMAIN known' \subseteq DOMAIN files'
      BY <1>1, <1>3 DEF Typed, TypeOK
    <2> QED BY <1>1, <1>2, <1>3, <1>5, <2>1, <2>2
  <1> QED BY <1>6, <1>7, <1>8

\* Closing, by any of the three calls, keeps the invariant.
LEMMA CloseStep ==
  ASSUME FilesInv, NEW api \in {"irvine", "win32", "c"}, NEW handle, Close(api, handle)
  PROVE  FilesInv'
  <1>1. CASE ~Valid(handle)
    BY <1>1, DeadStep DEF Close
  <1>2. CASE Valid(handle)
    <2>1. PICK error \in {"", "other"} :
             /\ Report(api, error) /\ Ends(api, error # "")
             /\ status' \in {"running", "error"}
      BY <1>2 DEF Close, Running
    <2>2. /\ outcome'.api = api /\ outcome'.failed = (error # "") /\ outcome'.dead = FALSE
          /\ outcome'.told = Nothing
      BY <2>1 DEF Ends, Outcome
    <2>3. LastErrorTells' /\ lastErrorCode' \in {0, 1, 2, 5, 6, 87}
      BY <2>1, <2>2, ReportTells DEF FilesInv, Typed
    <2>4. /\ Typed' /\ HandlesMatchHost'
          /\ \A h \in DOMAIN known' : opened'[files'[h]].offset = known'[h]
      BY <1>2, <2>1, <2>3, CloseSucceeds DEF Close, Valid
    <2> QED BY <2>2, <2>3, <2>4, ToldNothing DEF FilesInv
  <1> QED BY <1>1, <1>2
-----------------------------------------------------------------------------
(***************************************************************************)
(* The end of the program                                                   *)
(***************************************************************************)
\* A function of nothing is the empty one.
LEMMA NoFunction == \A f : Restrict(f, {}) = << >>
  BY DEF Restrict

\* When the program is over nothing is told or known any more.
LEMMA OverTells ==
  ASSUME Over
  PROVE  /\ LastErrorTells' /\ outcome'.told = Nothing
         /\ known' = << >> /\ DOMAIN known' = {} /\ known' = [h \in DOMAIN known' |-> known'[h]]
  <1>1. /\ outcome'.api = "over" /\ outcome'.dead = FALSE /\ outcome'.told = Nothing
        /\ known' = << >>
    BY DEF Over, Outcome
  <1> QED BY <1>1, EmptyIs DEF LastErrorTells

\* An error that ends the program leaves everything as it was.
LEMMA FailsStep ==
  ASSUME FilesInv, Fails
  PROVE  FilesInv'
  <1>1. LastErrorTells' /\ DOMAIN known' = {} /\ known' = [h \in DOMAIN known' |-> known'[h]]
    BY OverTells DEF Fails
  <1>2. status' = "error" /\ UNCHANGED <<host, files, nextHandle, errors>>
    BY DEF Fails
  <1>3. TypeOK'
    BY <1>1, <1>2 DEF FilesInv, Typed, TypeOK, host, errors
  <1>4. Typed'
    BY <1>1, <1>2, <1>3 DEF FilesInv, Typed, host, errors
  <1>5. HandlesMatchHost' /\ KnowledgeHolds'
    BY <1>2 DEF HandlesMatchHost, KnowledgeHolds
  <1> QED BY <1>1, <1>4, <1>5 DEF FilesInv

\* The program's end closes every file.
LEMMA FinishStep ==
  ASSUME FilesInv, Finish
  PROVE  FilesInv'
  <1>1. LastErrorTells' /\ DOMAIN known' = {} /\ known' = [h \in DOMAIN known' |-> known'[h]]
    BY OverTells DEF Finish
  <1>2. status' = "done" /\ UNCHANGED <<files, nextHandle, errors>> /\ disk' = disk
    BY DEF Finish, HostCloses
  <1>3. opened' = << >>
    <2>1. DOMAIN opened \ Range(files) = {}
      BY DEF FilesInv, HandlesMatchHost, Finish, Running
    <2> QED BY <2>1, NoFunction DEF Finish, HostCloses
  <1>4. TypeOK'
    BY <1>1, <1>2, <1>3, EmptyIs DEF FilesInv, Typed, TypeOK, errors
  <1>5. Typed'
    BY <1>1, <1>2, <1>3, <1>4, EmptyIs DEF FilesInv, Typed, errors
  <1>6. HandlesMatchHost' /\ KnowledgeHolds'
    BY <1>2, <1>3 DEF HandlesMatchHost, KnowledgeHolds
  <1> QED BY <1>1, <1>5, <1>6 DEF FilesInv
-----------------------------------------------------------------------------
(***************************************************************************)
(* Reading, writing and moving                                              *)
(***************************************************************************)
\* While the program runs every handle in use has an open file of its own, whose
\* contents and position are numbers within their bounds.
LEMMA HandleIs ==
  ASSUME FilesInv, Running, NEW handle \in DOMAIN files
  PROVE  /\ files[handle] \in DOMAIN opened /\ opened[files[handle]] \in OpenFile
         /\ opened[files[handle]].offset \in Nat /\ opened[files[handle]].offset <= MaxOffset
         /\ opened[files[handle]].name \in DOMAIN disk
         /\ disk[opened[files[handle]].name] \in Seq(Nat)
         /\ Len(disk[opened[files[handle]].name]) \in Nat
         /\ Len(disk[opened[files[handle]].name]) <= Capacity
         /\ handle \in DOMAIN known => known[handle] = opened[files[handle]].offset
         /\ \A h \in DOMAIN files : files[h] = files[handle] => h = handle
  <1>1. files[handle] \in DOMAIN opened /\ IsInjective(files)
    BY DEF FilesInv, HandlesMatchHost, Running, Range
  <1>2. opened[files[handle]] \in OpenFile
    BY <1>1 DEF FilesInv, Typed
  <1>3. opened[files[handle]].offset \in 0..MaxOffset
    BY <1>2 DEF OpenFile
  <1>4. /\ opened[files[handle]].name \in DOMAIN disk
        /\ disk[opened[files[handle]].name] \in Seq(Nat)
        /\ Len(disk[opened[files[handle]].name]) <= Capacity
    BY <1>1 DEF FilesInv, Typed, TypeOK
  <1>5. handle \in DOMAIN known => known[handle] = opened[files[handle]].offset
    BY DEF FilesInv, KnowledgeHolds, Running
  <1>6. \A h \in DOMAIN files : files[h] = files[handle] => h = handle
    BY <1>1 DEF IsInjective
  <1> QED BY <1>1, <1>2, <1>3, <1>4, <1>5, <1>6, FilesAssumption

\* A position that is moved is that of one handle: what is known of the others stays.
LEMMA MoveStep ==
  ASSUME FilesInv, Running, NEW handle \in DOMAIN files, NEW offset \in 0..MaxOffset,
         MoveTo(files[handle], offset), UNCHANGED <<files, nextHandle, status>>,
         disk' = [f \in DOMAIN disk |-> disk'[f]],
         \A f \in DOMAIN disk : disk'[f] \in Seq(Nat) /\ Len(disk'[f]) <= Capacity,
         known' = [h \in DOMAIN known' |-> known'[h]],
         DOMAIN known' \subseteq DOMAIN known \union {handle},
         \A h \in DOMAIN known' \ {handle} : known'[h] = known[h],
         handle \in DOMAIN known' => known'[handle] = offset,
         lastErrorCode' \in {0, 1, 2, 5, 6, 87}
  PROVE  /\ Typed' /\ HandlesMatchHost'
         /\ \A h \in DOMAIN known' : opened'[files'[h]].offset = known'[h]
         /\ opened'[files[handle]].offset = offset
         /\ opened'[files[handle]].name = opened[files[handle]].name
  <1> DEFINE d == files[handle]
  <1>1. /\ d \in DOMAIN opened /\ opened[d] \in OpenFile
        /\ \A h \in DOMAIN files : files[h] = d => h = handle
    BY HandleIs
  <1>2. opened \in [DOMAIN opened -> OpenFile]
    BY DEF FilesInv, Typed
  <1>3. /\ DOMAIN opened' = DOMAIN opened
        /\ opened'[d] = [opened[d] EXCEPT !.offset = offset]
        /\ \A x \in DOMAIN opened \ {d} : opened'[x] = opened[x]
        /\ opened' = [x \in DOMAIN opened' |-> opened'[x]]
    BY <1>1, <1>2 DEF MoveTo
  <1>4. /\ opened'[d] \in OpenFile /\ opened'[d].offset = offset
        /\ opened'[d].name = opened[d].name
    BY <1>1, <1>3 DEF OpenFile
  <1>5. opened' \in [DOMAIN opened' -> OpenFile]
    <2>1. \A x \in DOMAIN opened' : opened'[x] \in OpenFile
      BY <1>2, <1>3, <1>4
    <2> QED BY <1>3, <2>1
  <1>6. DOMAIN disk' = DOMAIN disk
    OBVIOUS
  <1>7. TypeOK'
    <2>1. ASSUME NEW x \in DOMAIN opened'
          PROVE  opened'[x].name \in DOMAIN disk' /\ opened'[x].offset \in 0..MaxOffset
      <3>1. opened[x].name \in DOMAIN disk /\ opened[x].offset \in 0..MaxOffset
        BY <1>3 DEF FilesInv, Typed, TypeOK
      <3> QED BY <1>3, <1>4, <1>6, <3>1
    <2>2. DOMAIN known' \subseteq DOMAIN files'
      BY DEF FilesInv, Typed, TypeOK
    <2> QED BY <1>6, <2>1, <2>2 DEF FilesInv, Typed, TypeOK
  <1>8. Typed'
    BY <1>5, <1>6, <1>7 DEF FilesInv, Typed
  <1>9. HandlesMatchHost'
    BY <1>3 DEF FilesInv, HandlesMatchHost, Running
  <1>10. ASSUME NEW h \in DOMAIN known'
         PROVE  opened'[files'[h]].offset = known'[h]
    <2>1. CASE h = handle
      BY <1>4, <2>1
    <2>2. CASE h # handle
      <3>1. h \in DOMAIN known /\ known'[h] = known[h] /\ h \in DOMAIN files
        BY <2>2 DEF FilesInv, Typed, TypeOK
      <3>2. files[h] \in DOMAIN opened /\ opened[files[h]].offset = known[h]
        BY <3>1, HandleIs
      <3>3. files[h] # d
        BY <1>1, <2>2, <3>1
      <3> QED BY <1>3, <3>1, <3>2, <3>3
    <2> QED BY <2>1, <2>2
  <1> QED BY <1>4, <1>8, <1>9, <1>10

\* What a read of n bytes at position o of these contents gets.
DataAt(contents, o, n) == SubSeq(contents, o + 1, Min({o + n, Len(contents)}))

\* A read gets what stands at the position, as far as the end and as much as was
\* asked for, and nothing only at the end or when nothing was asked for.
LEMMA DataIs ==
  ASSUME NEW s \in Seq(Nat), NEW o \in Nat, NEW n \in Nat
  PROVE  /\ DataAt(s, o, n) \in Seq(Nat) /\ Len(DataAt(s, o, n)) \in 0..n
         /\ \A i \in 1..Len(DataAt(s, o, n)) :
              o + i \in DOMAIN s /\ DataAt(s, o, n)[i] = s[o + i]
         /\ Len(DataAt(s, o, n)) # 0 => o + Len(DataAt(s, o, n)) <= Len(s)
         /\ Len(DataAt(s, o, n)) = 0 /\ n > 0 => o >= Len(s)
  <1>1. Len(s) \in Nat /\ DOMAIN s = 1..Len(s)
    OBVIOUS
  <1>2. CASE n = 0 \/ o >= Len(s)
    <2>1. Min({o + n, Len(s)}) \in Int /\ Min({o + n, Len(s)}) <= o
      BY <1>1, <1>2, MinOfTwo
    <2>2. DataAt(s, o, n) = << >>
      BY <1>1, <2>1, NoPart DEF DataAt
    <2> QED BY <1>1, <1>2, <2>2
  <1>3. CASE n > 0 /\ o < Len(s)
    <2>1. Min({o + n, Len(s)}) = IF o + n <= Len(s) THEN o + n ELSE Len(s)
      BY <1>1, MinOfTwo
    <2>2. PICK m \in Nat : m = Min({o + n, Len(s)})
      BY <1>1, <2>1
    <2>3. o < m /\ o <= m /\ m <= Len(s) /\ m <= o + n
      BY <1>1, <1>3, <2>1, <2>2
    <2>4. DataAt(s, o, n) = SubSeq(s, o + 1, m)
      BY <2>2 DEF DataAt
    <2>5. /\ DataAt(s, o, n) \in Seq(Nat) /\ Len(DataAt(s, o, n)) = m - o
          /\ \A i \in 1..(m - o) : DataAt(s, o, n)[i] = s[o + i]
      BY <2>3, <2>4, PartIs
    <2>6. ASSUME NEW i \in 1..Len(DataAt(s, o, n))
          PROVE  o + i \in DOMAIN s /\ DataAt(s, o, n)[i] = s[o + i]
      BY <1>1, <2>3, <2>5
    <2>7. Len(DataAt(s, o, n)) \in 1..n /\ o + Len(DataAt(s, o, n)) <= Len(s)
      BY <1>1, <2>3, <2>5
    <2> QED BY <2>5, <2>6, <2>7
  <1> QED BY <1>1, <1>2, <1>3

\* Of both interfaces a program sees a failure as one, and the count it is told.
LEMMA SeenIs ==
  ASSUME NEW api \in {"irvine", "win32"}, NEW n
  PROVE  /\ SeesFailure(api, Moved(api, FALSE, 0)) = TRUE
         /\ SeesFailure(api, Moved(api, TRUE, n)) = FALSE
         /\ SeenCount(api, Moved(api, TRUE, n)) = n
  <1>1. CASE api = "irvine"
    BY <1>1 DEF SeesFailure, SeenCount, Moved, Answer
  <1>2. CASE api = "win32"
    BY <1>2 DEF SeesFailure, SeenCount, Moved, Answer
  <1> QED BY <1>1, <1>2

\* A call that moved n bytes is told of no error, one the host refused of one.
LEMMA MovedTells ==
  ASSUME FilesInv, NEW api \in {"irvine", "win32"}, Report(api, ""),
         outcome'.api = api, outcome'.failed = FALSE, outcome'.dead = FALSE
  PROVE  LastErrorTells' /\ lastErrorCode' \in {0, 1, 2, 5, 6, 87}
  BY ReportTells DEF FilesInv, Typed

LEMMA RefusesTells ==
  ASSUME FilesInv, NEW api \in {"irvine", "win32"}, HostRefuses(api)
  PROVE  LastErrorTells' /\ lastErrorCode' \in {0, 1, 2, 5, 6, 87} /\ outcome'.told = Nothing
  <1>1. /\ outcome'.api = api /\ outcome'.failed = TRUE /\ outcome'.dead = FALSE
        /\ outcome'.told = Nothing
    BY SeenIs DEF HostRefuses, Tell, Outcome
  <1> QED BY <1>1, ReportTells DEF FilesInv, Typed, HostRefuses

\* A read or a write through a handle that is not in use, or beyond memory
LEMMA NoBytesStep ==
  ASSUME FilesInv, Running, NEW api \in {"irvine", "win32"}, NEW handle, NEW count,
         Refused(api, handle) \/ OutOfMemory(handle, count), UNCHANGED <<files, nextHandle>>
  PROVE  FilesInv'
  <1>1. CASE Refused(api, handle)
    <2>1. EndsDead(api, TRUE)
      BY <1>1, SeenIs DEF Refused
    <2> QED BY <1>1, <2>1, DeadStep DEF Refused
  <1>2. CASE OutOfMemory(handle, count)
    BY <1>2, FailsStep DEF OutOfMemory
  <1> QED BY <1>1, <1>2

\* Reading, by either call, keeps the invariant: what the program is told it read
\* is what lies behind the position.
LEMMA ReadStep ==
  ASSUME FilesInv, NEW api \in {"irvine", "win32"}, NEW handle, NEW count \in Nat,
         NEW counted \in BOOLEAN, Read(api, handle, count, counted)
  PROVE  FilesInv'
  <1> DEFINE d == files[handle]
             contents == disk[opened[d].name]
             offset == opened[d].offset
             data == DataAt(contents, offset, count)
             buffer == [i \in 1..Buffer |-> IF i <= Len(data) THEN data[i] ELSE Stale]
             answer == Moved(api, TRUE, Len(data))
             told == IF counted THEN Told(handle, SubSeq(buffer, 1, Len(data)),
                                          Len(data) = 0 /\ count > 0)
                     ELSE Nothing
  <1>1. Running /\ UNCHANGED <<files, nextHandle>>
    BY DEF Read
  <1>2. CASE Refused(api, handle) \/ OutOfMemory(handle, count)
    BY <1>1, <1>2, NoBytesStep
  <1>3. CASE /\ Valid(handle) /\ count <= Buffer
             /\ HostRefuses(api) /\ UNCHANGED <<opened, known>> /\ UNCHANGED <<disk, status>>
    <2>1. UNCHANGED <<host, files, nextHandle, known, status>>
      BY <1>1, <1>3 DEF host
    <2> QED BY <1>1, <1>3, <2>1, RefusesTells, NothingMoves DEF Running
  <1>4. CASE /\ Valid(handle) /\ count <= Buffer
             /\ MoveTo(d, offset + Len(data))
             /\ Report(api, "") /\ Tell(api, answer, told)
             /\ IF counted THEN Advances(handle, Len(data)) ELSE Forgets({handle})
             /\ UNCHANGED <<disk, status>>
    <2>1. /\ handle \in DOMAIN files /\ contents \in Seq(Nat) /\ Len(contents) \in Nat
          /\ Len(contents) <= Capacity /\ offset \in Nat /\ offset <= MaxOffset
          /\ handle \in DOMAIN known => known[handle] = offset
      BY <1>1, <1>4, HandleIs DEF Valid
    <2>2. /\ data \in Seq(Nat) /\ Len(data) \in 0..count
          /\ \A i \in 1..Len(data) : offset + i \in DOMAIN contents /\ data[i] = contents[offset + i]
          /\ Len(data) # 0 => offset + Len(data) <= Len(contents)
          /\ Len(data) = 0 /\ count > 0 => offset >= Len(contents)
      BY <2>1, DataIs
    <2> HIDE DEF data
    <2>3. offset + Len(data) \in 0..MaxOffset
      <3>1. CASE Len(data) = 0
        BY <2>1, <3>1, BoundsAre
      <3>2. CASE Len(data) # 0
        <4>1. offset + Len(data) <= Len(contents) /\ Len(data) \in Nat
          BY <2>2, <3>2
        <4> HIDE DEF contents, offset
        <4> QED BY <2>1, <4>1, BoundsAre
      <3> QED BY <3>1, <3>2
    <2>4. LastErrorTells' /\ lastErrorCode' \in {0, 1, 2, 5, 6, 87} /\ outcome'.told = told
      <3>1. outcome' = Outcome(api, SeesFailure(api, answer), FALSE, told)
        BY <1>4 DEF Tell
      <3>2. SeesFailure(api, answer) = FALSE
        BY SeenIs
      <3> HIDE DEF told, answer
      <3>3. /\ outcome'.api = api /\ outcome'.failed = FALSE /\ outcome'.dead = FALSE
            /\ outcome'.told = told
        BY <3>1, <3>2 DEF Outcome
      <3> QED BY <1>4, <3>3, MovedTells
    <2>5. /\ known' = [h \in DOMAIN known' |-> known'[h]]
          /\ DOMAIN known' \subseteq DOMAIN known
          /\ \A h \in DOMAIN known' \ {handle} : known'[h] = known[h]
          /\ handle \in DOMAIN known' => known'[handle] = offset + Len(data)
      <3>1. CASE counted
        <4>1. known' = [h \in DOMAIN known |-> known[h] + IF h = handle THEN Len(data) ELSE 0]
          BY <1>4, <3>1 DEF Advances
        <4>2. \A h \in DOMAIN known : known[h] \in Nat
          BY <1>1, HandleIs DEF FilesInv, Typed, TypeOK
        <4> QED BY <2>1, <4>1, <4>2
      <3>2. CASE ~counted
        <4>1. known' = Restrict(known, DOMAIN known \ {handle})
          BY <1>4, <3>2 DEF Forgets
        <4> QED BY <4>1 DEF Restrict
      <3> QED BY <3>1, <3>2
    <2>6. /\ disk' = disk /\ disk' = [f \in DOMAIN disk |-> disk'[f]]
          /\ \A f \in DOMAIN disk : disk'[f] \in Seq(Nat) /\ Len(disk'[f]) <= Capacity
      BY <1>4 DEF FilesInv, Typed, TypeOK
    <2>7. /\ Typed' /\ HandlesMatchHost'
          /\ \A h \in DOMAIN known' : opened'[files'[h]].offset = known'[h]
          /\ opened'[d].offset = offset + Len(data) /\ opened'[d].name = opened[d].name
      BY <1>1, <1>4, <2>1, <2>3, <2>4, <2>5, <2>6, MoveStep
    <2>8. CASE counted
      <3> DEFINE bytes == SubSeq(buffer, 1, Len(data))
      <3>1. Len(data) \in 0..2
        <4>1. count <= 2
          BY <1>4 DEF Buffer
        <4>2. PICK n \in 0..count : n = Len(data)
          BY <2>2
        <4> QED BY <4>1, <4>2
      <3>2. buffer \in Seq(Int) /\ Len(buffer) = 2 /\ \A i \in 1..Len(data) : buffer[i] = data[i]
        BY <2>2, <3>1 DEF Buffer, Stale
      <3>3. DOMAIN bytes = 1..Len(data) /\ Len(bytes) = Len(data)
            /\ \A i \in 1..Len(data) : bytes[i] = data[i]
        <4> HIDE DEF buffer
        <4> QED BY <3>1, <3>2
      <3> HIDE DEF buffer, bytes
      <3>4. /\ outcome'.told.handle = handle /\ outcome'.told.bytes = bytes
            /\ outcome'.told.ended = (Len(data) = 0 /\ count > 0)
        BY <2>4, <2>8 DEF Told, bytes
      <3>5. opened'[files'[handle]].offset - Len(bytes) = offset /\ files'[handle] = d
        BY <1>1, <2>1, <2>2, <2>7, <3>3
      <3>6. disk'[opened'[d].name] = contents
        BY <2>6, <2>7
      <3>7. /\ \A i \in DOMAIN bytes : /\ offset + i \in DOMAIN contents
                                       /\ bytes[i] = contents[offset + i]
            /\ Len(data) = 0 /\ count > 0 => offset >= Len(contents)
        BY <2>2, <3>3
      <3> HIDE DEF contents, offset
      <3>8. KnowledgeHolds'
        BY <2>7, <3>4, <3>5, <3>6, <3>7 DEF KnowledgeHolds
      <3> QED BY <2>4, <2>7, <3>8 DEF FilesInv
    <2>9. CASE ~counted
      BY <2>4, <2>7, <2>9, ToldNothing DEF FilesInv
    <2> QED BY <2>8, <2>9
  <1>5. HostData(d, count) = data /\ SeenCount(api, answer) = Len(data)
    BY SeenIs DEF HostData, DataAt
  <1>6. \/ Refused(api, handle) \/ OutOfMemory(handle, count)
        \/ /\ Valid(handle) /\ count <= Buffer
           /\ HostRefuses(api) /\ UNCHANGED <<opened, known>> /\ UNCHANGED <<disk, status>>
        \/ /\ Valid(handle) /\ count <= Buffer
           /\ MoveTo(d, offset + Len(data))
           /\ Report(api, "") /\ Tell(api, answer, told)
           /\ IF counted THEN Advances(handle, Len(data)) ELSE Forgets({handle})
           /\ UNCHANGED <<disk, status>>
    <2> HIDE DEF data
    <2> QED BY <1>5 DEF Read, Reported
  <1> QED BY <1>2, <1>3, <1>4, <1>6

\* A write leaves what it wrote where it wrote it, in a text no longer than that
\* and the old one.
LEMMA WrittenIs ==
  ASSUME NEW old \in Seq(Nat), NEW data \in Seq(Nat), NEW at \in Nat
  PROVE  /\ Written(old, at, data) \in Seq(Nat)
         /\ Len(Written(old, at, data)) = IF Len(old) >= at + Len(data) THEN Len(old)
                                          ELSE at + Len(data)
         /\ \A i \in 1..Len(data) : /\ at + i \in DOMAIN Written(old, at, data)
                                    /\ Written(old, at, data)[at + i] = data[i]
  <1>1. Len(old) \in Nat /\ Len(data) \in Nat
    OBVIOUS
  <1> DEFINE m == IF Len(old) >= at + Len(data) THEN Len(old) ELSE at + Len(data)
  <1>2. m \in Nat /\ at + Len(data) <= m /\ m = Max({Len(old), at + Len(data)})
    BY <1>1, MaxOfTwo
  <1> DEFINE byte(i) == IF i \in (at + 1)..(at + Len(data)) THEN data[i - at]
                        ELSE IF i <= Len(old) THEN old[i] ELSE 0
  <1>3. Written(old, at, data) = [i \in 1..m |-> byte(i)]
    BY <1>2 DEF Written
  <1>4. ASSUME NEW i \in 1..m PROVE byte(i) \in Nat
    <2>1. CASE i \in (at + 1)..(at + Len(data))
      <3>1. i - at \in 1..Len(data)
        BY <1>1, <2>1
      <3> QED BY <2>1, <3>1
    <2>2. CASE i \notin (at + 1)..(at + Len(data))
      BY <1>1, <1>2, <2>2
    <2> QED BY <2>1, <2>2
  <1>5. ASSUME NEW i \in 1..Len(data) PROVE at + i \in 1..m /\ byte(at + i) = data[i]
    <2>1. at + i \in (at + 1)..(at + Len(data)) /\ at + i \in 1..m /\ (at + i) - at = i
      BY <1>1, <1>2
    <2> QED BY <2>1
  <1> HIDE DEF byte, m
  <1>6. Written(old, at, data) \in Seq(Nat) /\ Len(Written(old, at, data)) = m
    <2>1. \A i \in 1..m : Written(old, at, data)[i] \in Nat
      BY <1>3, <1>4
    <2>2. Written(old, at, data) = [i \in 1..m |-> Written(old, at, data)[i]]
      BY <1>3
    <2> QED BY <1>2, <2>1, <2>2, SequenceIs
  <1>7. ASSUME NEW i \in 1..Len(data)
        PROVE  /\ at + i \in DOMAIN Written(old, at, data)
               /\ Written(old, at, data)[at + i] = data[i]
    BY <1>3, <1>5
  <1> QED BY <1>6, <1>7 DEF m

\* The contents of the files are numbers, and no more than there is room for.
DiskKept == /\ disk' = [f \in DOMAIN disk |-> disk'[f]]
            /\ \A f \in DOMAIN disk : disk'[f] \in Seq(Nat) /\ Len(disk'[f]) <= Capacity

\* A text there is room for has been written and the position left behind it.
Landed(d, text, place) ==
  /\ text = << >> => place = opened[d].offset
  /\ text # << >> /\ Room(d) >= Len(text) =>
       /\ place = WritePosition(d) + Len(text)
       /\ \A i \in 1..Len(text) : /\ WritePosition(d) + i \in DOMAIN disk'[opened[d].name]
                                  /\ text[i] = disk'[opened[d].name][WritePosition(d) + i]

\* The host, asked to write, moves the position of that handle alone, and stays
\* within the capacity; what it has room for stands where it was written.
LEMMA WriteMoves ==
  ASSUME FilesInv, Running, NEW handle \in DOMAIN files, NEW text \in Seq(Nat),
         HostWrites(files[handle], text)
  PROVE  \E place \in 0..MaxOffset : /\ MoveTo(files[handle], place)
                                     /\ DiskKept /\ Landed(files[handle], text, place)
  <1> DEFINE d == files[handle]
             name == opened[d].name
             offset == opened[d].offset
             at == WritePosition(d)
             fitting == SubSeq(text, 1, Min({Len(text), Room(d)}))
  <1>1. /\ d \in DOMAIN opened /\ opened[d] \in OpenFile /\ name \in DOMAIN disk
        /\ disk[name] \in Seq(Nat) /\ Len(disk[name]) \in Nat /\ Len(disk[name]) <= Capacity
        /\ offset \in Nat /\ offset <= MaxOffset
    BY HandleIs
  <1>2. /\ disk = [f \in DOMAIN disk |-> disk[f]] /\ opened \in [DOMAIN opened -> OpenFile]
        /\ \A f \in DOMAIN disk : disk[f] \in Seq(Nat) /\ Len(disk[f]) <= Capacity
    BY DEF FilesInv, Typed, TypeOK
  <1>3. at \in Nat
    BY <1>1 DEF WritePosition
  <1>4. Room(d) \in Nat /\ (Room(d) > 0 => at + Room(d) <= Capacity)
    <2> HIDE DEF at
    <2>1. Room(d) = IF 0 >= Capacity - at THEN 0 ELSE Capacity - at
      BY <1>3, MaxOfTwo, BoundsAre DEF Room, at
    <2> QED BY <1>3, <2>1, BoundsAre
  <1>5. PICK size \in Nat : /\ size = Min({Len(text), Room(d)}) /\ size <= Room(d) /\ size <= Len(text)
                            /\ Room(d) >= Len(text) => size = Len(text)
    <2>1. Min({Len(text), Room(d)}) = IF Len(text) <= Room(d) THEN Len(text) ELSE Room(d)
      BY <1>4, MinOfTwo
    <2> QED BY <1>4, <2>1
  <1>6. /\ fitting \in Seq(Nat) /\ Len(fitting) = size /\ (size = 0 <=> fitting = << >>)
        /\ \A i \in 1..size : fitting[i] = text[i]
    <2>1. fitting = SubSeq(text, 1, size)
      BY <1>5
    <2> HIDE DEF fitting
    <2> QED BY <1>5, <2>1, PrefixIs
  <1>7. CASE fitting = << >>
    <2>1. UNCHANGED host /\ size = 0
      BY <1>6, <1>7 DEF HostWrites
    <2>2. MoveTo(d, offset)
      BY <1>1, <1>2, <2>1 DEF MoveTo, host, OpenFile
    <2>3. text # << >> => ~(Room(d) >= Len(text))
      BY <1>5, <2>1
    <2>4. DiskKept
      BY <1>2, <2>1 DEF host, DiskKept
    <2>5. Landed(d, text, offset)
      BY <2>3 DEF Landed
    <2> QED BY <1>1, <2>2, <2>4, <2>5
  <1>8. CASE fitting # << >>
    <2>1. /\ disk' = [disk EXCEPT ![name] = Written(@, at, fitting)]
          /\ MoveTo(d, at + Len(fitting))
      BY <1>8 DEF HostWrites
    <2>2. size > 0
      <3> HIDE DEF fitting
      <3>1. size # 0
        BY <1>6, <1>8
      <3> QED BY <3>1
    <2>3. at + size <= Capacity /\ text # << >>
      <3> HIDE DEF at, fitting
      <3> QED BY <1>3, <1>4, <1>5, <2>2, BoundsAre
    <2> HIDE DEF d, name, offset, at, fitting
    <2>4. /\ Written(disk[name], at, fitting) \in Seq(Nat)
          /\ Len(Written(disk[name], at, fitting)) <= Capacity
      BY <1>1, <1>3, <1>6, <2>3, WrittenIs
    <2>5. ASSUME NEW i \in 1..size
          PROVE  /\ at + i \in DOMAIN Written(disk[name], at, fitting)
                 /\ Written(disk[name], at, fitting)[at + i] = text[i]
      <3>1. i \in 1..Len(fitting) /\ fitting[i] = text[i]
        BY <1>6
      <3>2. disk[name] \in Seq(Nat) /\ fitting \in Seq(Nat) /\ at \in Nat
        BY <1>1, <1>3, <1>6
      <3>3. \A j \in 1..Len(fitting) :
              /\ at + j \in DOMAIN Written(disk[name], at, fitting)
              /\ Written(disk[name], at, fitting)[at + j] = fitting[j]
        BY <3>2, WrittenIs, Zenon
      <3> QED BY <3>1, <3>3
    <2>6. /\ disk' = [f \in DOMAIN disk |-> disk'[f]]
          /\ disk'[name] = Written(disk[name], at, fitting)
      BY <1>1, <1>2, <2>1
    <2>7. DiskKept
      BY <1>1, <1>2, <2>1, <2>4, <2>6 DEF DiskKept
    <2>8. at + size \in 0..MaxOffset
      BY <1>3, <2>3, BoundsAre
    <2>9. Landed(d, text, at + size)
      <3>1. Room(d) >= Len(text) => size = Len(text)
        BY <1>5
      <3>2. text # << >> /\ Room(d) >= Len(text) =>
              \A i \in 1..Len(text) : at + i \in DOMAIN disk'[name] /\ text[i] = disk'[name][at + i]
        BY <2>5, <2>6, <3>1
      <3> QED BY <2>3, <3>1, <3>2 DEF Landed, at, name
    <2>10. MoveTo(d, at + size)
      BY <1>6, <2>1
    <2> QED BY <2>7, <2>8, <2>9, <2>10 DEF d
  <1> QED BY <1>7, <1>8

\* What is known after a move: nothing of this handle, or where it was moved to.
KnownMoves(handle, place) ==
  /\ known' = [h \in DOMAIN known' |-> known'[h]]
  /\ DOMAIN known' \subseteq DOMAIN known \union {handle}
  /\ \A h \in DOMAIN known' \ {handle} : known'[h] = known[h]
  /\ handle \in DOMAIN known' => known'[handle] = place

LEMMA ForgetsMoves ==
  ASSUME NEW handle, NEW place, Forgets({handle})
  PROVE  KnownMoves(handle, place)
  BY DEF Forgets, Restrict, KnownMoves

LEMMA AdvancesMoves ==
  ASSUME FilesInv, Running, NEW handle \in DOMAIN files, NEW n \in Nat, Advances(handle, n)
  PROVE  KnownMoves(handle, opened[files[handle]].offset + n)
  <1>1. known' = [h \in DOMAIN known |-> known[h] + IF h = handle THEN n ELSE 0]
    BY DEF Advances
  <1>2. \A h \in DOMAIN known : known[h] \in Nat
    BY HandleIs DEF FilesInv, Typed, TypeOK
  <1>3. handle \in DOMAIN known => known[handle] = opened[files[handle]].offset
    BY HandleIs
  <1> QED BY <1>1, <1>2, <1>3 DEF KnownMoves

\* Writing, by either call, keeps the invariant: what the program is told it wrote
\* lies behind the position, and what was cut short it is not told of.
LEMMA WriteStep ==
  ASSUME FilesInv, NEW api \in {"irvine", "win32"}, NEW handle, NEW text \in Seq(Nat),
         Write(api, handle, text)
  PROVE  FilesInv'
  <1> DEFINE d == files[handle]
             answer == Moved(api, TRUE, Len(text))
             Wrote == /\ (CanWrite(d) /\ Room(d) >= Len(text)) \/ text = << >>
                      /\ HostWrites(d, text)
                      /\ Report(api, "") /\ Tell(api, answer, Told(handle, text, FALSE))
                      /\ IF opened[d].append /\ text # << >> THEN Forgets({handle})
                         ELSE Advances(handle, Len(text))
             CutShort == HostWrites(d, text) /\ HostRefuses(api) /\ Forgets({handle})
  <1>1. Running /\ UNCHANGED <<files, nextHandle>>
    BY DEF Write
  <1>2. CASE Refused(api, handle) \/ OutOfMemory(handle, Len(text))
    <2>1. PICK n : n = Len(text)
      OBVIOUS
    <2> QED BY <1>1, <1>2, <2>1, NoBytesStep
  <1>3. CASE Valid(handle) /\ HostRefuses(api) /\ UNCHANGED <<host, known>> /\ UNCHANGED status
    <2>1. UNCHANGED <<host, files, nextHandle, known, status>>
      BY <1>1, <1>3
    <2> QED BY <1>1, <1>3, <2>1, RefusesTells, NothingMoves DEF Running
  <1>4. CASE Valid(handle) /\ CutShort /\ UNCHANGED status
    <2>1. handle \in DOMAIN files
      BY <1>4 DEF Valid
    <2>2. PICK place \in 0..MaxOffset : MoveTo(d, place) /\ DiskKept
      BY <1>1, <1>4, <2>1, WriteMoves
    <2>3. KnownMoves(handle, place)
      BY <1>4, ForgetsMoves
    <2>4. LastErrorTells' /\ lastErrorCode' \in {0, 1, 2, 5, 6, 87} /\ outcome'.told = Nothing
      BY <1>4, RefusesTells
    <2>5. /\ Typed' /\ HandlesMatchHost'
          /\ \A h \in DOMAIN known' : opened'[files'[h]].offset = known'[h]
      BY <1>1, <1>4, <2>1, <2>2, <2>3, <2>4, MoveStep DEF DiskKept, KnownMoves
    <2> QED BY <2>4, <2>5, ToldNothing DEF FilesInv
  <1>5. CASE Valid(handle) /\ Wrote /\ UNCHANGED status
    <2>1. handle \in DOMAIN files
      BY <1>5 DEF Valid
    <2>2. PICK place \in 0..MaxOffset : MoveTo(d, place) /\ DiskKept /\ Landed(d, text, place)
      BY <1>1, <1>5, <2>1, WriteMoves
    <2>3. place = IF text = << >> THEN opened[d].offset ELSE WritePosition(d) + Len(text)
      BY <1>5, <2>2 DEF Landed
    <2>4. KnownMoves(handle, place)
      <3>1. CASE opened[d].append /\ text # << >>
        BY <1>5, <3>1, ForgetsMoves
      <3>2. CASE ~(opened[d].append /\ text # << >>)
        <4>1. place = opened[d].offset + Len(text)
          <5>1. opened[d].offset \in Nat /\ Len(<< >>) = 0
            BY <1>1, <2>1, HandleIs
          <5> QED BY <2>3, <3>2, <5>1 DEF WritePosition
        <4>2. PICK n \in Nat : n = Len(text)
          OBVIOUS
        <4> QED BY <1>1, <1>5, <2>1, <3>2, <4>1, <4>2, AdvancesMoves
      <3> QED BY <3>1, <3>2
    <2>5. LastErrorTells' /\ lastErrorCode' \in {0, 1, 2, 5, 6, 87}
          /\ outcome'.told = Told(handle, text, FALSE)
      <3>1. outcome' = Outcome(api, SeesFailure(api, answer), FALSE, Told(handle, text, FALSE))
        BY <1>5 DEF Tell
      <3>2. SeesFailure(api, answer) = FALSE
        BY SeenIs
      <3> HIDE DEF answer
      <3>3. /\ outcome'.api = api /\ outcome'.failed = FALSE /\ outcome'.dead = FALSE
            /\ outcome'.told = Told(handle, text, FALSE)
        BY <3>1, <3>2 DEF Outcome
      <3> QED BY <1>5, <3>3, MovedTells
    <2>6. /\ Typed' /\ HandlesMatchHost'
          /\ \A h \in DOMAIN known' : opened'[files'[h]].offset = known'[h]
          /\ opened'[d].offset = place /\ opened'[d].name = opened[d].name
      BY <1>1, <1>5, <2>1, <2>2, <2>4, <2>5, MoveStep DEF DiskKept, KnownMoves
    <2>7. /\ outcome'.told.handle = handle /\ outcome'.told.bytes = text
          /\ outcome'.told.ended = FALSE /\ files'[handle] = d
      BY <1>1, <2>5 DEF Told
    <2>8. ASSUME NEW i \in DOMAIN text
          PROVE  /\ (place - Len(text)) + i \in DOMAIN disk'[opened[d].name]
                 /\ text[i] = disk'[opened[d].name][(place - Len(text)) + i]
      <3>1. text # << >> /\ i \in 1..Len(text) /\ Len(text) \in Nat
        OBVIOUS
      <3>2. Room(d) >= Len(text)
        BY <1>5, <3>1
      <3>3. WritePosition(d) \in Nat
        BY <1>1, <2>1, HandleIs DEF WritePosition
      <3>4. place - Len(text) = WritePosition(d)
        BY <2>3, <3>1, <3>3
      <3> QED BY <2>2, <3>1, <3>2, <3>4 DEF Landed
    <2>9. KnowledgeHolds'
      BY <2>6, <2>7, <2>8 DEF KnowledgeHolds
    <2> QED BY <2>5, <2>6, <2>9 DEF FilesInv
  <1>6. \/ Refused(api, handle) \/ OutOfMemory(handle, Len(text))
        \/ Valid(handle) /\ HostRefuses(api) /\ UNCHANGED <<host, known>> /\ UNCHANGED status
        \/ Valid(handle) /\ CutShort /\ UNCHANGED status
        \/ Valid(handle) /\ Wrote /\ UNCHANGED status
    BY DEF Write, Reported
  <1> QED BY <1>2, <1>3, <1>4, <1>5, <1>6

\* A position told in two words, or in one, agrees with the one meant.
LEMMA WordsAgree ==
  ASSUME NEW position \in Nat
  PROVE  /\ (position \div WordSize) * WordSize + (position % WordSize) = position
         /\ position % WordSize \in Nat
  BY FilesAssumption

\* SetFilePointer that fails, says so.
LEMMA SeekFailsStep ==
  ASSUME FilesInv, Running, NEW code, NEW text, NEW dead \in BOOLEAN,
         <<code, text>> \in ErrorTexts, code \in {1, 6, 87}, dead => text = "invalid",
         SeekFails(code, text), outcome' = Outcome("seek", TRUE, dead, Nothing),
         UNCHANGED <<files, nextHandle, status>>
  PROVE  FilesInv'
  <1>1. /\ outcome'.api = "seek" /\ outcome'.failed = TRUE /\ outcome'.dead = dead
        /\ outcome'.told = Nothing
    BY DEF Outcome
  <1>2. lastErrorCode' = code /\ lastError' = text /\ UNCHANGED <<host, known>>
    BY DEF SeekFails, setLastError
  <1>3. lastErrorCode' # 0 /\ lastErrorCode' \in {0, 1, 2, 5, 6, 87}
    BY <1>2
  <1>4. LastErrorTells'
    BY <1>1, <1>2, <1>3 DEF LastErrorTells
  <1>5. UNCHANGED <<host, files, nextHandle, known, status>>
    BY <1>2
  <1> QED BY <1>1, <1>3, <1>4, <1>5, NothingMoves DEF Running

\* Moving keeps the invariant: the program comes where it meant to, and is told so.
LEMMA SeekStep ==
  ASSUME FilesInv, NEW handle, NEW low \in 0..(WordSize - 1), NEW high \in 0..(WordSize - 1),
         NEW wide \in BOOLEAN, NEW method \in 0..3,
         invokeSetFilePointer(handle, low, high, wide, method)
  PROVE  FilesInv'
  <1> DEFINE d == files[handle]
             distance == Distance(low, high, wide)
             position == Origin(d, method) + distance
             answer == Answer(position % WordSize, FALSE, position \div WordSize)
             Arrives == /\ position \in 0..MaxOffset
                        /\ MoveTo(d, position)
                        /\ Report("seek", "")
                        /\ Ends("seek", answer.eax = Invalid)
                        /\ LearnsPosition(handle, Meant(low, high, wide), wide, method, answer)
                        /\ UNCHANGED disk
  <1>0. high # Unreadable
    BY FilesAssumption DEF Unreadable
  <1>1. Running /\ UNCHANGED <<files, nextHandle, status>>
    BY <1>0 DEF invokeSetFilePointer
  <1>2. CASE SeekFails(6, "invalid") /\ EndsDead("seek", TRUE)
    BY <1>1, <1>2, SeekFailsStep DEF ErrorTexts, EndsDead
  <1>3. CASE SeekFails(87, "method") /\ Ends("seek", TRUE)
    BY <1>1, <1>3, SeekFailsStep DEF ErrorTexts, Ends
  <1>4. CASE SeekFails(OSCode("other"), "other") /\ Ends("seek", TRUE)
    <2>1. OSCode("other") = 1
      BY DEF OSCode
    <2> QED BY <1>1, <1>4, <2>1, SeekFailsStep DEF ErrorTexts, Ends
  <1>5. CASE Valid(handle) /\ method <= 2 /\ Arrives
    <2>1. /\ handle \in DOMAIN files /\ opened[d].offset \in Nat
          /\ Len(disk[opened[d].name]) \in Nat
          /\ handle \in DOMAIN known => known[handle] = opened[d].offset
      BY <1>1, <1>5, HandleIs DEF Valid
    <2>2. distance = Meant(low, high, wide) /\ distance \in Int
      BY DistanceIsMeant
    <2>3. position \in Nat
      <3>1. position \in 0..MaxOffset
        BY <1>5
      <3> HIDE DEF position
      <3> QED BY <3>1, BoundsAre
    <2> HIDE DEF position, distance
    <2>4. KnownMoves(handle, position)
      <3> DEFINE aim == distance + CASE method = 0 -> 0 [] method = 1 -> known[handle]
                                     [] method = 2 -> Len(disk[opened[files[handle]].name])
                 agrees == IF wide THEN answer.word * WordSize + answer.eax = aim
                           ELSE answer.eax = aim % WordSize
      <3> HIDE DEF answer
      <3>1. known' = IF method = 1 /\ handle \notin DOMAIN known THEN known
                     ELSE With(known, handle, IF agrees THEN aim ELSE Contradicted)
        <4>1. LearnsPosition(handle, Meant(low, high, wide), wide, method, answer)
          BY <1>5
        <4>2. LearnsPosition(handle, distance, wide, method, answer)
          BY <2>2, <4>1, Zenon
        <4> QED BY <4>2, Zenon DEF LearnsPosition
      <3>2. CASE method = 1 /\ handle \notin DOMAIN known
        BY <3>1, <3>2 DEF KnownMoves, FilesInv, Typed
      <3>3. CASE ~(method = 1 /\ handle \notin DOMAIN known)
        <4>1. aim = position
          <5>1. CASE method = 0
            BY <2>2, <5>1 DEF Origin, position
          <5>2. CASE method = 1
            BY <2>1, <2>2, <3>3, <5>2 DEF Origin, position
          <5>3. CASE method = 2
            BY <2>1, <2>2, <5>3 DEF Origin, position
          <5>4. method = 0 \/ method = 1 \/ method = 2
            <6>1. method <= 2
              BY <1>5
            <6> QED BY <6>1
          <5> QED BY <5>1, <5>2, <5>3, <5>4
        <4> HIDE DEF aim
        <4>2. answer.word = position \div WordSize /\ answer.eax = position % WordSize
          BY DEF Answer, answer
        <4>3. agrees
          BY <2>3, <4>1, <4>2, WordsAgree
        <4> HIDE DEF agrees
        <4>4. known' = With(known, handle, position)
          BY <3>1, <3>3, <4>1, <4>3
        <4> QED BY <4>4 DEF KnownMoves, With
      <3> QED BY <3>2, <3>3
    <2>5. LastErrorTells' /\ lastErrorCode' \in {0, 1, 2, 5, 6, 87} /\ outcome'.told = Nothing
      <3>1. /\ outcome'.api = "seek" /\ outcome'.failed \in BOOLEAN /\ outcome'.dead = FALSE
            /\ outcome'.told = Nothing
        BY <1>5 DEF Ends, Outcome
      <3> QED BY <1>5, <3>1, ReportTells DEF FilesInv, Typed
    <2>6. disk' = disk /\ DiskKept
      BY <1>5 DEF FilesInv, Typed, TypeOK, DiskKept
    <2>7. /\ Typed' /\ HandlesMatchHost'
          /\ \A h \in DOMAIN known' : opened'[files'[h]].offset = known'[h]
      BY <1>1, <1>5, <2>1, <2>4, <2>5, <2>6, MoveStep DEF DiskKept, KnownMoves
    <2> QED BY <2>5, <2>7, ToldNothing DEF FilesInv
  <1>6. \/ SeekFails(6, "invalid") /\ EndsDead("seek", TRUE)
        \/ SeekFails(87, "method") /\ Ends("seek", TRUE)
        \/ SeekFails(OSCode("other"), "other") /\ Ends("seek", TRUE)
        \/ Valid(handle) /\ method <= 2 /\ Arrives
    BY <1>0 DEF invokeSetFilePointer, ReportedPosition
  <1> QED BY <1>2, <1>3, <1>4, <1>5, <1>6

\* A high half that is not in memory ends the program, or is not looked at.
LEMMA SeekUnreadableStep ==
  ASSUME FilesInv, NEW handle, NEW low, NEW wide, NEW method,
         invokeSetFilePointer(handle, low, Unreadable, wide, method)
  PROVE  FilesInv'
  <1>1. CASE Valid(handle)
    <2>1. Fails
      BY <1>1 DEF invokeSetFilePointer
    <2> QED BY <2>1, FailsStep
  <1>2. CASE ~Valid(handle)
    <2>1. /\ Running /\ SeekFails(6, "invalid") /\ EndsDead("seek", TRUE)
          /\ UNCHANGED <<files, nextHandle, status>>
      BY <1>2 DEF invokeSetFilePointer
    <2> QED BY <2>1, SeekFailsStep DEF ErrorTexts, EndsDead
  <1> QED BY <1>1, <1>2
-----------------------------------------------------------------------------
(***************************************************************************)
(* Every step, and the theorems                                             *)
(***************************************************************************)
\* Nothing the program or the host does breaks the invariant.
LEMMA FilesInvNext == FilesInv /\ [Next]_vars => FilesInv'
  <1> SUFFICES ASSUME FilesInv, [Next]_vars PROVE FilesInv'
    OBVIOUS
  <1>1. CASE UNCHANGED vars
    BY <1>1 DEF vars, host, errors, FilesInv, Typed, TypeOK, HandlesMatchHost, LastErrorTells,
                KnowledgeHolds
  <1>2. ASSUME NEW f \in Names, builtinCreateOutputFile(f) \/ builtinOpenInputFile(f)
        PROVE  FilesInv'
    <2>1. \A c, t \in BOOLEAN : How(c, t, "both", FALSE) \in Hows /\ How(c, t, "read", FALSE) \in Hows
      BY DEF How, Hows
    <2> QED BY <1>2, <2>1, OpenStep DEF builtinCreateOutputFile, builtinOpenInputFile
  <1>3. ASSUME NEW f \in Names, NEW mode \in Modes, fopen(f, mode)
        PROVE  FilesInv'
    <2>1. mode \in {"r", "r+", "w", "w+", "a", "a+"}
      BY FilesAssumption
    <2>2. openCFile(mode) \in Hows
      BY <2>1 DEF openCFile, How, Hows
    <2> QED BY <1>3, <2>2, OpenStep DEF fopen
  <1>4. ASSUME NEW f \in Names, NEW access \in Accesses, NEW disposition,
               invokeCreateFile(f, access, disposition)
        PROVE  FilesInv'
    <2>1. access \in {"read", "write", "both"}
      BY FilesAssumption
    <2>2. openCreateFile(access, disposition) \in Hows
      BY <2>1 DEF openCreateFile, How, Hows
    <2> QED BY <1>4, <2>2, OpenStep DEF invokeCreateFile
  <1>5. ASSUME NEW h \in Handles, builtinCloseFile(h) \/ fclose(h) \/ invokeCloseHandle(h)
        PROVE  FilesInv'
    BY <1>5, CloseStep DEF builtinCloseFile, fclose, invokeCloseHandle
  <1>6. ASSUME NEW h \in Handles, NEW n \in Counts, NEW counted \in BOOLEAN,
               builtinReadFromFile(h, n) \/ invokeReadFile(h, n, counted)
        PROVE  FilesInv'
    <2>1. n \in Nat
      BY FilesAssumption
    <2> QED BY <1>6, <2>1, ReadStep DEF builtinReadFromFile, invokeReadFile
  <1>7. ASSUME NEW h \in Handles, NEW text \in Texts,
               builtinWriteToFile(h, text) \/ invokeWriteFile(h, text)
        PROVE  FilesInv'
    <2>1. text \in Seq(Nat)
      BY FilesAssumption
    <2> QED BY <1>7, <2>1, WriteStep DEF builtinWriteToFile, invokeWriteFile
  <1>8. ASSUME NEW h \in Handles, NEW low \in Lows, NEW high \in Highs \union {0, Unreadable},
               NEW wide \in BOOLEAN, NEW method \in 0..3,
               invokeSetFilePointer(h, low, high, wide, method)
        PROVE  FilesInv'
    <2>1. CASE high = Unreadable
      BY <1>8, <2>1, SeekUnreadableStep
    <2>2. CASE high # Unreadable
      <3>1. low \in 0..(WordSize - 1) /\ high \in 0..(WordSize - 1)
        BY <2>2, FilesAssumption
      <3> QED BY <1>8, <3>1, SeekStep
    <2> QED BY <2>1, <2>2
  <1>9. CASE Finish
    BY <1>9, FinishStep
  <1> QED BY <1>1, <1>2, <1>3, <1>4, <1>5, <1>6, <1>7, <1>8, <1>9 DEF Next, HandleCalls

LEMMA FilesInvAlways == Spec => []FilesInv
  BY FilesInvInit, FilesInvNext, PTL DEF Spec

\* Files, positions and what is kept of them stay of their kinds and within their
\* bounds, and nothing is known of a handle that is not in use.
THEOREM FilesTyped == Spec => []TypeOK
  BY FilesInvAlways, PTL DEF FilesInv, Typed

\* However calls of the three interfaces and failures of the host follow one
\* another, the open files are those the handles name, one each (storeHandle, the
\* closes, Run).
THEOREM HandlesInStep == Spec => []HandlesMatchHost
  BY FilesInvAlways, PTL DEF FilesInv

\* The last error is always the last call's (setLastError, setOSError,
\* clearLastError).
THEOREM ErrorsTold == Spec => []LastErrorTells
  BY FilesInvAlways, PTL DEF FilesInv

\* What the program was told of bytes and positions is so, whatever the size of
\* words, files and texts (Reported, invokeSetFilePointer).
THEOREM KnowledgeKept == Spec => []KnowledgeHolds
  BY FilesInvAlways, PTL DEF FilesInv
-----------------------------------------------------------------------------
\* What a step may do to a handle that is dead.
StaysDead == /\ \A h \in FirstHandle..(nextHandle - 1) : h \notin DOMAIN files => h \notin DOMAIN files'
             /\ outcome'.dead => UNCHANGED <<host, files>>

\* A call that ends with no handle dead, and takes or gives at most the next one,
\* revives none.
LEMMA NoneDead ==
  ASSUME FilesInv, outcome'.dead = FALSE,
         DOMAIN files' \subseteq DOMAIN files \union {nextHandle}
  PROVE  StaysDead
  <1>1. nextHandle \in Nat /\ FirstHandle \in Nat
    BY DEF FilesInv, Typed, FirstHandle
  <1>2. \A h \in FirstHandle..(nextHandle - 1) : h # nextHandle
    BY <1>1
  <1> QED BY <1>2 DEF StaysDead

\* How a call that found no dead handle ended.
Ended(api) == \E failed, told : outcome' = Outcome(api, failed, FALSE, told)

LEMMA EndedIs == \A api : Ended(api) => outcome'.dead = FALSE
  BY DEF Ended, Outcome

LEMMA OpenKeepsDead ==
  ASSUME FilesInv, NEW api, NEW name, NEW how, Open(api, name, how)
  PROVE  StaysDead
  <1>1. outcome'.dead = FALSE
    <2>1. Ended(api)
      BY DEF Open, Ends, Ended
    <2> QED BY <2>1, EndedIs
  <1>2. DOMAIN files' \subseteq DOMAIN files \union {nextHandle}
    BY DEF Open, storeHandle, NewHandle, With
  <1> QED BY <1>1, <1>2, NoneDead

LEMMA CloseKeepsDead ==
  ASSUME FilesInv, NEW api, NEW handle, Close(api, handle)
  PROVE  StaysDead
  <1>1. CASE ~Valid(handle)
    BY <1>1 DEF Close, StaysDead
  <1>2. CASE Valid(handle)
    <2>1. Ended(api)
      BY <1>2 DEF Close, Ends, Ended
    <2>2. DOMAIN files' \subseteq DOMAIN files
      BY <1>2 DEF Close, Removed, Restrict
    <2> QED BY <2>1, <2>2, EndedIs, NoneDead
  <1> QED BY <1>1, <1>2

LEMMA BytesKeepDead ==
  ASSUME FilesInv, NEW api, NEW handle, NEW count, NEW counted, NEW text,
         Read(api, handle, count, counted) \/ Write(api, handle, text)
  PROVE  StaysDead
  <1>1. files' = files
    BY DEF Read, Write
  <1>2. CASE Refused(api, handle)
    BY <1>1, <1>2 DEF Refused, StaysDead
  <1>3. CASE Fails
    <2>1. outcome'.dead = FALSE
      BY <1>3 DEF Fails, Over, Outcome
    <2> QED BY <1>1, <2>1, NoneDead
  <1>4. CASE ~Refused(api, handle) /\ ~Fails
    <2>1. Ended(api)
      BY <1>4 DEF Read, Write, OutOfMemory, HostRefuses, Tell, Ended
    <2> QED BY <1>1, <2>1, EndedIs, NoneDead
  <1> QED BY <1>2, <1>3, <1>4

LEMMA SeekKeepsDead ==
  ASSUME FilesInv, NEW handle, NEW low, NEW high, NEW wide, NEW method,
         invokeSetFilePointer(handle, low, high, wide, method)
  PROVE  StaysDead
  <1>1. files' = files
    BY DEF invokeSetFilePointer
  <1>2. CASE ~Valid(handle)
    BY <1>1, <1>2 DEF invokeSetFilePointer, SeekFails, StaysDead
  <1>3. CASE Valid(handle)
    <2>1. CASE Fails
      <3>1. outcome'.dead = FALSE
        BY <2>1 DEF Fails, Over, Outcome
      <3> QED BY <1>1, <3>1, NoneDead
    <2>2. CASE ~Fails
      <3>1. Ended("seek")
        BY <1>3, <2>2 DEF invokeSetFilePointer, Ends, Ended
      <3> QED BY <1>1, <3>1, EndedIs, NoneDead
    <2> QED BY <2>1, <2>2
  <1> QED BY <1>2, <1>3

LEMMA FinishKeepsDead ==
  ASSUME FilesInv, Finish
  PROVE  StaysDead
  <1>1. files' = files /\ outcome'.dead = FALSE
    BY DEF Finish, Over, Outcome
  <1> QED BY <1>1, NoneDead

\* A handle that was closed names no file ever after, whatever is opened next, and
\* a call through it touches nothing (storeHandle).
THEOREM HandlesNeverRevive == Spec => HandlesStayDead
  <1>1. FilesInv /\ [Next]_vars => [StaysDead]_vars
    <2> SUFFICES ASSUME FilesInv, Next PROVE StaysDead
      OBVIOUS
    <2> QED BY OpenKeepsDead, CloseKeepsDead, BytesKeepDead, SeekKeepsDead, FinishKeepsDead
            DEF Next, HandleCalls, builtinCreateOutputFile, builtinOpenInputFile, fopen,
                invokeCreateFile, builtinCloseFile, fclose, invokeCloseHandle,
                builtinReadFromFile, invokeReadFile, builtinWriteToFile, invokeWriteFile
  <1> QED BY <1>1, FilesInvAlways, PTL DEF Spec, HandlesStayDead, StaysDead
=============================================================================
