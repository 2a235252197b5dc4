---------------------------- MODULE AnchorProofs ----------------------------
(***************************************************************************)
(* Theorems about Anchor: the two tickers of the anchor program, the       *)
(* allowlist file and the operator who edits it, for every value of the    *)
(* constants.                                                              *)
(***************************************************************************)
EXTENDS Anchor, SequenceTheorems, TLAPS

----------------------------------------------------------------------------
(* The reference offset. *)

\* The offset signed at time t.
Reference(t) == << [size |-> LocationOffsetSize, slot |-> t, rtt |-> 0] >>

\* The offset in force was signed after the tick before the next one, and the
\* one about to be set after the next tick fired.
RefreshInv ==
    /\ wall \in Nat /\ nextRefresh \in Nat /\ wall <= nextRefresh + LoopLag
    /\ \E t \in Nat : /\ t <= wall /\ t >= nextRefresh - RefreshEvery
                      /\ offsets = Reference(t)
    /\ \/ stamped = << >>
       \/ \E t \in Nat : t <= wall /\ t >= nextRefresh /\ stamped = <<Reference(t)>>

\* Only the two steps of refreshLoop and time touch what RefreshInv is about.
LEMMA RefreshStep == RefreshInv /\ [AnchorNext]_anchorVars => RefreshInv'
<1> SUFFICES ASSUME RefreshInv, [AnchorNext]_anchorVars PROVE RefreshInv'
  OBVIOUS
<1>1. /\ wall \in Nat /\ nextRefresh \in Nat /\ RefreshEvery \in Nat /\ LoopLag \in Nat
      /\ RefreshEvery > 0
  BY TickerAssumption DEF RefreshInv
<1>2. PICK t \in Nat : /\ t <= wall /\ t >= nextRefresh - RefreshEvery
                       /\ offsets = Reference(t)
  BY DEF RefreshInv
<1>3. CASE StampOffset
  <2>1. /\ wall >= nextRefresh /\ stamped' = <<Reference(wall)>>
        /\ UNCHANGED <<wall, offsets, nextRefresh>>
    BY <1>3 DEF StampOffset, referenceOffset, Reference, vars
  <2>2. QED
    BY <1>1, <2>1 DEF RefreshInv
<1>4. CASE PublishOffset
  <2>1. PICK u \in Nat : u <= wall /\ u >= nextRefresh /\ stamped = <<Reference(u)>>
    BY <1>4 DEF PublishOffset, RefreshInv
  <2>2. /\ offsets' = Reference(u) /\ stamped' = << >>
        /\ nextRefresh' = nextRefresh + RefreshEvery /\ wall' = wall
    BY <1>4, <2>1 DEF PublishOffset, SetOffsets
  <2>3. nextRefresh' \in Nat /\ wall <= nextRefresh' + LoopLag /\ u >= nextRefresh' - RefreshEvery
    BY <1>1, <2>1, <2>2 DEF RefreshInv
  <2>4. QED
    BY <1>1, <2>1, <2>2, <2>3 DEF RefreshInv
<1>5. CASE AnchorTick
  <2>1. /\ wall' = wall + 1 /\ wall < nextRefresh + LoopLag
        /\ UNCHANGED <<offsets, nextRefresh, stamped>>
    BY <1>5 DEF AnchorTick, Prompt, Tick, refreshVars
  <2>2. wall' \in Nat /\ wall' <= nextRefresh + LoopLag /\ \A u \in Nat : u <= wall => u <= wall'
    BY <1>1, <2>1
  <2>3. QED
    BY <1>1, <2>1, <2>2 DEF RefreshInv
<1>6. ASSUME UNCHANGED <<wall, offsets, nextRefresh, stamped>>
      PROVE  RefreshInv'
  BY <1>6 DEF RefreshInv
<1>7. CASE reloadLoop
  <2>1. CASE OpenAllowlist \/ ScanLine \/ KeepPrevious
    BY <1>6, <2>1 DEF OpenAllowlist, ScanLine, KeepPrevious, vars, refreshVars
  <2>2. CASE Install
    BY <1>6, <2>2 DEF Install, SetAuthorizedKeys, refreshVars
  <2>3. CASE ReplaceKeys
    BY <1>6, <2>3 DEF ReplaceKeys, RangeKey, DeleteState, StoreKey, refreshVars
  <2>4. QED
    BY <1>7, <2>1, <2>2, <2>3 DEF reloadLoop
<1>8. CASE Operator
  BY <1>6, <1>8 DEF Operator, Save, Enrol, Truncate, WriteLine, vars, refreshVars
<1>9. CASE UNCHANGED anchorVars
  BY <1>6, <1>9 DEF anchorVars, vars, refreshVars
<1>10. QED
  BY <1>3, <1>4, <1>5, <1>7, <1>8, <1>9 DEF AnchorNext, refreshLoop

\* At every moment the anchor holds a reference offset that a reply can carry,
\* signed in the past and no longer ago than a refresh period and the time one
\* refresh takes.  (refreshLoop, referenceOffset.)
THEOREM FreshnessCorrect == AnchorSpec => []ObservedAtFresh
<1>1. AnchorInit => RefreshInv
  <2> SUFFICES ASSUME AnchorInit PROVE RefreshInv
    OBVIOUS
  <2>1. wall = 0 /\ offsets = Reference(0) /\ nextRefresh = RefreshEvery /\ stamped = << >>
    BY DEF AnchorInit, Init, referenceOffset, Reference
  <2>2. 0 \in Nat /\ 0 <= wall /\ 0 >= nextRefresh - RefreshEvery
    BY <2>1, TickerAssumption
  <2>3. wall \in Nat /\ nextRefresh \in Nat /\ wall <= nextRefresh + LoopLag
    BY <2>1, TickerAssumption
  <2>4. QED
    BY <2>1, <2>2, <2>3 DEF RefreshInv
<1>2. RefreshInv => ObservedAtFresh
  <2> SUFFICES ASSUME RefreshInv PROVE ObservedAtFresh
    OBVIOUS
  <2>1. PICK t \in Nat : /\ t <= wall /\ t >= nextRefresh - RefreshEvery
                         /\ offsets = Reference(t)
    BY DEF RefreshInv
  <2>2. Sendable(offsets)
    BY <2>1 DEF Sendable, Reference, MaxOffsets
  <2>3. ParseOffsetInfo(offsets).slot = t
    BY <2>1 DEF ParseOffsetInfo, Reference, OffsetInfo, LocationOffsetSize
  <2>4. t \in wall - (RefreshEvery + LoopLag) .. wall
    BY <2>1, TickerAssumption DEF RefreshInv
  <2>5. QED
    BY <2>2, <2>3, <2>4 DEF ObservedAtFresh
<1>3. QED
  BY <1>1, <1>2, RefreshStep, PTL DEF AnchorSpec

----------------------------------------------------------------------------
(* The allowlist: its types and the progress of a reload. *)

Lines == Keys \cup {Blank, Bad}
Loaders == [file : Nat, line : Nat \ {0}, keys : SUBSET Keys]

\* The keys in the first n lines of a file.
KeysBefore(lines, n) == {lines[i] : i \in 1 .. n - 1} \cap Keys

FileTypes ==
    /\ wall \in Nat /\ changedAt \in Nat /\ changedAt <= wall
    /\ disk \in Seq(Seq(Lines)) /\ disk # << >>
    /\ unwritten \in Seq(Lines)
    /\ loader \in {<< >>} \cup {<<l>> : l \in Loaders}
    /\ authorizedKeys \in SUBSET Keys
    /\ reload \in Reloads

\* When the steps of a reload happen: it opens the file once the ticker fired,
\* and is done a lag later.
PaceInv ==
    /\ nextReload \in Nat
    /\ nextReload - ReloadEvery <= wall /\ wall <= nextReload + LoopLag
    /\ loader # << >> => nextReload <= wall /\ ~Reloading
    /\ Reloading => wall <= nextReload - ReloadEvery + LoopLag

\* SetAuthorizedKeys under way.
ReplaceInv ==
    /\ reload.range \subseteq authorizedKeys
    /\ authorizedKeys \ reload.range \subseteq reload.new
    /\ reload.new \ reload.store \subseteq authorizedKeys
    /\ reload.store \subseteq reload.new

\* LoadAllowlist under way.  Unless the file was truncated under it, it has the
\* keys of the lines it has passed; and when the file has not changed since the
\* tick, it has exactly those, of the current file.
LoaderInv ==
    loader # << >> =>
        LET l == loader[1] IN
        /\ l.file \in 1 .. Len(disk)
        /\ ~truncated => /\ l.line <= Len(disk[l.file]) + 1
                         /\ KeysBefore(disk[l.file], l.line) \subseteq l.keys
        /\ nextReload > changedAt => /\ l.file = Len(disk)
                                     /\ l.line <= Len(contents) + 1
                                     /\ l.keys = KeysBefore(contents, l.line)

----------------------------------------------------------------------------
(* What the two properties about the allowlist rest on. *)

\* A file that has not changed since the tick of the last reload is the list
\* last given to SetAuthorizedKeys; one that has not changed since the tick
\* before it is in force, also while that reload is under way.
ForceInv ==
    Readable(contents) =>
        /\ nextReload - ReloadEvery > changedAt => reload.new = KeysOf(contents)
        /\ nextReload - 2 * ReloadEvery > changedAt => authorizedKeys = KeysOf(contents)

\* The keys every version of the file names.
Core == {k \in Keys : \A f \in versions : k \in KeysOf(f)}

\* Without truncation every file a reload may have open is a version, and the
\* list in force and the one being installed have the keys of all of them.
CoreInv ==
    ~truncated => /\ unwritten = << >>
                  /\ \A i \in DOMAIN disk : disk[i] \in versions
                  /\ Core \subseteq reload.new /\ Core \subseteq authorizedKeys

AllowlistInv == FileTypes /\ PaceInv /\ ReplaceInv /\ LoaderInv /\ ForceInv /\ CoreInv

----------------------------------------------------------------------------
(* Facts about lines. *)

\* What is left of a sequence from its n-th element on.
LEMMA Rest ==
  ASSUME NEW S, NEW q \in Seq(S), NEW n \in Nat \ {0}
  PROVE  LET r == SubSeq(q, n, Len(q))
         IN  /\ r # << >> => n <= Len(q) /\ Head(r) = q[n] /\ q[n] \in S
             /\ r = << >> => n > Len(q)
<1> DEFINE r == SubSeq(q, n, Len(q))
<1>1. Len(q) \in Nat /\ \A i \in n .. Len(q) : q[i] \in S
  BY LenProperties, ElementOfSeq
<1>2. /\ r \in Seq(S) /\ Len(r) = (IF n <= Len(q) THEN Len(q) - n + 1 ELSE 0)
      /\ \A i \in 1 .. Len(q) - n + 1 : r[i] = q[n + i - 1]
  BY <1>1, SubSeqProperties
<1>3. CASE n <= Len(q)
  <2>1. 1 \in 1 .. Len(q) - n + 1 /\ n + 1 - 1 = n /\ Len(r) # 0 /\ n \in n .. Len(q)
    BY <1>1, <1>2, <1>3
  <2>2. r[1] = q[n] /\ r # << >> /\ q[n] \in S
    BY <1>1, <1>2, <2>1, EmptySeq
  <2>3. Head(r) = r[1]
    BY <1>2, <2>2, HeadTailProperties
  <2> HIDE DEF r
  <2>4. r # << >> /\ n <= Len(q) /\ Head(r) = q[n] /\ q[n] \in S
    BY <1>3, <2>2, <2>3
  <2>5. QED
    BY <2>4, Zenon DEF r
<1>4. CASE ~(n <= Len(q))
  <2>1. Len(r) = 0 /\ n > Len(q)
    BY <1>1, <1>2, <1>4
  <2>2. r = << >>
    BY <1>2, <2>1, EmptySeq
  <2> HIDE DEF r
  <2>3. QED
    BY <2>1, <2>2, Zenon DEF r
<1>5. QED
  BY <1>3, <1>4

\* One more line adds its key, if it names one.
LEMMA KeysBeforeNext ==
  ASSUME NEW q, NEW n \in Nat \ {0}
  PROVE  /\ KeysBefore(q, 1) = {}
         /\ KeysBefore(q, n + 1) = KeysBefore(q, n) \cup ({q[n]} \cap Keys)
<1>1. KeysBefore(q, 1) = {}
  BY DEF KeysBefore
<1>2. 1 .. (n + 1) - 1 = (1 .. n - 1) \cup {n}
  BY SMT
<1>3. QED
  BY <1>1, <1>2 DEF KeysBefore

\* Past its last line, a file has given all its keys.
LEMMA KeysBeforeAll ==
  ASSUME NEW S, NEW q \in Seq(S), NEW n \in Nat \ {0}, n = Len(q) + 1
  PROVE  KeysBefore(q, n) = KeysOf(q)
<1>1. DOMAIN q = 1 .. n - 1
  BY LenProperties
<1>2. QED
  BY <1>1 DEF KeysBefore, KeysOf

\* What the loader is about to read.
LEMMA ReaderFacts ==
  ASSUME FileTypes, LoaderInv, loader # << >>
  PROVE  LET l == loader[1]
             f == disk[l.file]
         IN  /\ l \in Loaders /\ loader = <<l>> /\ l.file \in 1 .. Len(disk)
             /\ f \in Seq(Lines) /\ Len(f) \in Nat
             /\ Remaining # << >> => /\ l.line <= Len(f) /\ f[l.line] \in Lines
                                     /\ Head(Remaining) = f[l.line]
             /\ Remaining = << >> => l.line > Len(f)
<1> DEFINE l == loader[1]
           f == disk[l.file]
<1>1. l \in Loaders /\ loader = <<l>>
  BY DEF FileTypes
<1>2. l.file \in 1 .. Len(disk) /\ l.line \in Nat \ {0}
  BY <1>1 DEF LoaderInv, Loaders
<1>3. f \in Seq(Lines) /\ Len(f) \in Nat
  BY <1>2, ElementOfSeq, LenProperties DEF FileTypes
<1>4. Remaining = SubSeq(f, l.line, Len(f))
  BY DEF Remaining
<1> HIDE DEF l, f
<1>5. /\ Remaining # << >> => /\ l.line <= Len(f) /\ f[l.line] \in Lines
                              /\ Head(Remaining) = f[l.line]
      /\ Remaining = << >> => l.line > Len(f)
  BY <1>2, <1>3, <1>4, Rest
<1>6. QED
  BY <1>1, <1>2, <1>3, <1>5 DEF l, f

\* The path always names a file.
LEMMA ContentsType ==
  ASSUME FileTypes
  PROVE  /\ Len(disk) \in Nat \ {0} /\ DOMAIN disk = 1 .. Len(disk)
         /\ contents \in Seq(Lines) /\ Len(contents) \in Nat
         /\ DOMAIN contents = 1 .. Len(contents)
<1>1. /\ Len(disk) \in Nat \ {0} /\ DOMAIN disk = 1 .. Len(disk)
  BY EmptySeq, LenProperties DEF FileTypes
<1>2. contents \in Seq(Lines)
  <2>1. Len(disk) \in 1 .. Len(disk)
    BY <1>1
  <2>2. QED
    BY <2>1, ElementOfSeq DEF FileTypes, contents
<1>3. QED
  BY <1>1, <1>2, LenProperties

----------------------------------------------------------------------------
(* The steps of reloadLoop. *)

\* The ticker has fired and the file is opened.
LEMMA OpenStep == ASSUME AllowlistInv, OpenAllowlist PROVE AllowlistInv'
<1> DEFINE l == [file |-> Len(disk), line |-> 1, keys |-> {}]
<1>1. /\ wall >= nextReload /\ ~Reloading /\ loader' = <<l>>
      /\ UNCHANGED <<wall, disk, unwritten, changedAt, versions, truncated, nextReload,
                     authorizedKeys, reload>>
  BY DEF OpenAllowlist, vars, fileVars
<1>2. FileTypes /\ PaceInv /\ ReplaceInv /\ ForceInv /\ CoreInv
  BY DEF AllowlistInv
<1>3. Len(disk) \in Nat \ {0} /\ Len(contents) \in Nat
  BY <1>2, ContentsType
<1>4. l \in Loaders /\ l.file = Len(disk) /\ l.line = 1 /\ l.keys = {}
  BY <1>3 DEF Loaders
<1> HIDE DEF l
<1>5. loader'[1] = l /\ loader' # << >>
  BY <1>1
<1>6. FileTypes'
  BY <1>1, <1>2, <1>4 DEF FileTypes
<1>7. PaceInv'
  BY <1>1, <1>2 DEF PaceInv, FileTypes, Reloading
<1>8. LoaderInv'
  <2>1. contents = disk[l.file] /\ contents' = contents
    BY <1>1, <1>4 DEF contents
  <2>2. l.line <= Len(contents) + 1 /\ l.keys = KeysBefore(contents, l.line)
    BY <1>3, <1>4, KeysBeforeNext
  <2>3. l.file \in 1 .. Len(disk)
    BY <1>3, <1>4
  <2>4. QED
    BY <1>1, <1>4, <1>5, <2>1, <2>2, <2>3 DEF LoaderInv
<1>9. ReplaceInv' /\ ForceInv' /\ CoreInv'
  BY <1>1, <1>2 DEF ReplaceInv, ForceInv, CoreInv, contents, Core
<1>10. QED
  BY <1>6, <1>7, <1>8, <1>9 DEF AllowlistInv

\* A line is read.
LEMMA ScanStep == ASSUME AllowlistInv, ScanLine PROVE AllowlistInv'
<1> DEFINE l == loader[1]
           f == disk[l.file]
           key == f[l.line]
           z == [l EXCEPT !.line = @ + 1, !.keys = @ \cup ({key} \ {Blank})]
<1>1. FileTypes /\ PaceInv /\ ReplaceInv /\ LoaderInv /\ ForceInv /\ CoreInv
  BY DEF AllowlistInv
<1>2. /\ loader # << >> /\ Remaining # << >> /\ Head(Remaining) # Bad
      /\ UNCHANGED <<wall, disk, unwritten, changedAt, versions, truncated, nextReload,
                     authorizedKeys, reload>>
  BY DEF ScanLine, vars, fileVars
<1>3. /\ l \in Loaders /\ l.file \in 1 .. Len(disk) /\ Len(f) \in Nat
      /\ l.line <= Len(f) /\ key \in Lines /\ Head(Remaining) = key
  BY <1>1, <1>2, ReaderFacts
<1>4. loader' = <<z>> /\ key # Bad
  BY <1>2, <1>3 DEF ScanLine
<1>5. {key} \ {Blank} = {key} \cap Keys
  BY <1>3, <1>4, FileAssumption DEF Lines
<1>6. /\ z \in Loaders /\ z.file = l.file /\ z.line = l.line + 1
      /\ z.keys = l.keys \cup ({key} \cap Keys) /\ l.line \in Nat \ {0}
  <2>1. l.line + 1 \in Nat \ {0} /\ l.line \in Nat \ {0} /\ l.keys \in SUBSET Keys
    BY <1>3 DEF Loaders
  <2> HIDE DEF l, key
  <2>2. QED
    BY <1>3, <1>5, <2>1 DEF Loaders
<1>7. KeysBefore(f, z.line) = KeysBefore(f, l.line) \cup ({key} \cap Keys)
  BY <1>6, KeysBeforeNext
<1> HIDE DEF z, l, key
<1>8. loader'[1] = z /\ loader' # << >>
  BY <1>4
<1>9. FileTypes' /\ PaceInv'
  BY <1>1, <1>2, <1>4, <1>6 DEF FileTypes, PaceInv, Reloading
<1>10. LoaderInv'
  <2>1. z.line <= Len(f) + 1
    BY <1>3, <1>6
  <2>2. ~truncated => KeysBefore(f, l.line) \subseteq l.keys
    BY <1>1, <1>2 DEF LoaderInv, l
  <2>3. ~truncated => KeysBefore(f, z.line) \subseteq z.keys
    BY <1>6, <1>7, <2>2
  <2>4. nextReload > changedAt => /\ l.file = Len(disk) /\ f = contents
                                  /\ l.keys = KeysBefore(contents, l.line)
    BY <1>1, <1>2 DEF LoaderInv, contents, l
  <2>5. nextReload > changedAt => z.keys = KeysBefore(contents, z.line)
    BY <1>6, <1>7, <2>4
  <2>6. disk'[z.file] = f /\ contents' = contents
    BY <1>2, <1>6 DEF contents
  <2> HIDE DEF f
  <2>7. QED
    BY <1>2, <1>3, <1>6, <1>8, <2>1, <2>3, <2>4, <2>5, <2>6 DEF LoaderInv
<1>11. ReplaceInv' /\ ForceInv' /\ CoreInv'
  BY <1>1, <1>2 DEF ReplaceInv, ForceInv, CoreInv, contents, Core
<1>12. QED
  BY <1>9, <1>10, <1>11 DEF AllowlistInv

\* A file that does not parse: it is not the current one, or not readable.
LEMMA KeepStep == ASSUME AllowlistInv, KeepPrevious PROVE AllowlistInv'
<1> DEFINE l == loader[1]
           f == disk[l.file]
<1>1. FileTypes /\ PaceInv /\ ReplaceInv /\ LoaderInv /\ ForceInv /\ CoreInv
  BY DEF AllowlistInv
<1>2. /\ loader # << >> /\ Remaining # << >> /\ Head(Remaining) = Bad
      /\ loader' = << >> /\ nextReload' = nextReload + ReloadEvery
      /\ UNCHANGED <<wall, disk, unwritten, changedAt, versions, truncated,
                     authorizedKeys, reload>>
  BY DEF KeepPrevious, AwaitTick, vars, fileVars
<1>3. /\ l \in Loaders /\ Len(f) \in Nat
      /\ l.line <= Len(f) /\ f[l.line] = Bad
  BY <1>1, <1>2, ReaderFacts
<1>4. /\ nextReload \in Nat /\ ReloadEvery \in Nat \ {0} /\ LoopLag \in Nat /\ wall \in Nat
      /\ changedAt \in Nat
      /\ nextReload <= wall /\ wall <= nextReload + LoopLag /\ ~Reloading
  BY <1>1, <1>2, TickerAssumption DEF PaceInv, FileTypes
<1>5. FileTypes' /\ LoaderInv' /\ ReplaceInv' /\ CoreInv'
  BY <1>1, <1>2 DEF FileTypes, LoaderInv, ReplaceInv, CoreInv, Core
<1>6. PaceInv'
  <2>1. /\ nextReload' \in Nat /\ nextReload' - ReloadEvery <= wall
        /\ wall <= nextReload' + LoopLag
    BY <1>2, <1>4
  <2>2. QED
    BY <1>2, <1>4, <2>1 DEF PaceInv, Reloading
<1>7. ForceInv'
  <2>1. ASSUME nextReload > changedAt PROVE ~Readable(contents)
    <3>1. f = contents
      BY <1>1, <1>2, <2>1 DEF LoaderInv, contents
    <3>2. l.line \in 1 .. Len(contents)
      BY <1>3, <3>1 DEF Loaders
    <3>3. l.line \in DOMAIN contents
      BY <1>1, <3>2, ContentsType
    <3>4. QED
      BY <1>3, <3>1, <3>3 DEF Readable
  <2>2. /\ nextReload' - ReloadEvery > changedAt => nextReload > changedAt
        /\ nextReload' - 2 * ReloadEvery > changedAt => nextReload > changedAt
    BY <1>2, <1>4
  <2>3. contents' = contents
    BY <1>2 DEF contents
  <2>4. QED
    BY <1>2, <2>1, <2>2, <2>3 DEF ForceInv
<1>8. QED
  BY <1>5, <1>6, <1>7 DEF AllowlistInv

\* The end of the file: what was read is handed to SetAuthorizedKeys.
LEMMA InstallStep == ASSUME AllowlistInv, Install PROVE AllowlistInv'
<1> DEFINE l == loader[1]
           f == disk[l.file]
<1>1. FileTypes /\ PaceInv /\ ReplaceInv /\ LoaderInv /\ ForceInv /\ CoreInv
  BY DEF AllowlistInv
<1>2. /\ loader # << >> /\ Remaining = << >>
      /\ loader' = << >> /\ nextReload' = nextReload + ReloadEvery
      /\ ~Reloading
      /\ reload' = [new |-> l.keys, range |-> authorizedKeys, doomed |-> {}, store |-> l.keys]
      /\ UNCHANGED <<wall, disk, unwritten, changedAt, versions, truncated, authorizedKeys>>
  BY DEF Install, AwaitTick, SetAuthorizedKeys, fileVars
<1>3. /\ l \in Loaders /\ f \in Seq(Lines) /\ Len(f) \in Nat /\ l.file \in 1 .. Len(disk)
      /\ l.line > Len(f)
  BY <1>1, <1>2, ReaderFacts
<1>4. /\ nextReload \in Nat /\ ReloadEvery \in Nat \ {0} /\ LoopLag \in Nat /\ wall \in Nat
      /\ changedAt \in Nat
      /\ nextReload <= wall /\ wall <= nextReload + LoopLag
  BY <1>1, <1>2, TickerAssumption DEF PaceInv, FileTypes
<1>5. l.keys \in SUBSET Keys /\ l.line \in Nat \ {0}
  BY <1>3 DEF Loaders
<1>6. authorizedKeys = reload.new
  BY <1>1, <1>2 DEF ReplaceInv, Reloading
<1>7. l.line <= Len(f) + 1 => KeysBefore(f, l.line) = KeysOf(f)
  <2>1. l.line <= Len(f) + 1 => l.line = Len(f) + 1
    BY <1>3, <1>5
  <2>2. QED
    BY <1>3, <1>5, <2>1, KeysBeforeAll
<1>8. /\ reload'.new = l.keys /\ reload'.range = authorizedKeys
      /\ reload'.doomed = {} /\ reload'.store = l.keys
  BY <1>2
<1>9. FileTypes'
  <2>1. reload' \in Reloads
    BY <1>1, <1>2, <1>5 DEF FileTypes, Reloads
  <2>2. QED
    BY <1>1, <1>2, <2>1 DEF FileTypes
<1>10. LoaderInv' /\ ReplaceInv'
  BY <1>2, <1>8 DEF LoaderInv, ReplaceInv
<1>11. PaceInv'
  <2>1. /\ nextReload' \in Nat /\ nextReload' - ReloadEvery <= wall
        /\ wall <= nextReload' + LoopLag /\ wall <= nextReload' - ReloadEvery + LoopLag
    BY <1>2, <1>4
  <2>2. QED
    BY <1>2, <2>1 DEF PaceInv
<1>12. ForceInv'
  <2>1. contents' = contents
    BY <1>2 DEF contents
  <2>2. ASSUME nextReload > changedAt PROVE l.keys = KeysOf(contents)
    <3>1. /\ f = contents /\ l.line <= Len(f) + 1 /\ l.keys = KeysBefore(f, l.line)
      BY <1>1, <1>2, <2>2 DEF LoaderInv, contents
    <3>2. QED
      BY <1>7, <3>1
  <2>3. /\ nextReload' - ReloadEvery > changedAt => nextReload > changedAt
        /\ nextReload' - 2 * ReloadEvery > changedAt => nextReload - ReloadEvery > changedAt
    BY <1>2, <1>4
  <2>4. QED
    BY <1>1, <1>2, <1>6, <1>8, <2>1, <2>2, <2>3 DEF ForceInv
<1>13. CoreInv'
  <2>1. ASSUME ~truncated PROVE Core \subseteq l.keys
    <3>1. l.line <= Len(f) + 1 /\ KeysBefore(f, l.line) \subseteq l.keys
      BY <1>1, <1>2, <2>1 DEF LoaderInv
    <3>2. f \in versions
      BY <1>1, <1>3, <2>1, ContentsType DEF CoreInv
    <3>3. QED
      BY <1>7, <3>1, <3>2 DEF Core
  <2>2. Core' = Core
    BY <1>2 DEF Core
  <2>3. QED
    BY <1>1, <1>2, <1>8, <2>1, <2>2 DEF CoreInv
<1>14. QED
  BY <1>9, <1>10, <1>11, <1>12, <1>13 DEF AllowlistInv

\* SetAuthorizedKeys takes a step.  It takes no key off the list that the new
\* one names, and adds none that it does not.
LEMMA ReplaceStep == ASSUME AllowlistInv, ReplaceKeys PROVE AllowlistInv'
<1>1. FileTypes /\ PaceInv /\ ReplaceInv /\ LoaderInv /\ ForceInv /\ CoreInv
  BY DEF AllowlistInv
<1>2. UNCHANGED <<wall, disk, unwritten, changedAt, versions, truncated, loader, nextReload>>
  BY DEF ReplaceKeys, RangeKey, DeleteState, StoreKey, fileVars, loaderVars
<1>3. PICK key \in Keys : RangeKey(key) \/ DeleteState(key) \/ StoreKey(key)
  BY DEF ReplaceKeys
<1>4. reload \in Reloads /\ authorizedKeys \in SUBSET Keys
  BY <1>1 DEF FileTypes
<1>5. /\ reload' \in Reloads /\ authorizedKeys' \in SUBSET Keys /\ reload'.new = reload.new
      /\ Reloading /\ ReplaceInv'
      /\ authorizedKeys \cap reload.new \subseteq authorizedKeys'
      /\ authorizedKeys' \subseteq authorizedKeys \cup reload.new
  <2>1. CASE RangeKey(key)
    <3>1. /\ key \in reload.range
          /\ authorizedKeys' = IF key \in reload.new THEN authorizedKeys
                                                     ELSE authorizedKeys \ {key}
      BY <2>1 DEF RangeKey
    <3>2. /\ reload'.new = reload.new /\ reload'.store = reload.store
          /\ reload'.range = reload.range \ {key} /\ reload' \in Reloads
      BY <1>4, <2>1 DEF RangeKey, Reloads
    <3>3. QED
      BY <1>1, <1>4, <3>1, <3>2 DEF ReplaceInv, Reloading
  <2>2. CASE DeleteState(key)
    <3>1. key \in reload.doomed /\ authorizedKeys' = authorizedKeys
      BY <2>2 DEF DeleteState
    <3>2. /\ reload'.new = reload.new /\ reload'.store = reload.store
          /\ reload'.range = reload.range /\ reload' \in Reloads
      BY <1>4, <2>2 DEF DeleteState, Reloads
    <3>3. QED
      BY <1>1, <1>4, <3>1, <3>2 DEF ReplaceInv, Reloading
  <2>3. CASE StoreKey(key)
    <3>1. key \in reload.store /\ authorizedKeys' = authorizedKeys \cup {key}
      BY <2>3 DEF StoreKey
    <3>2. /\ reload'.new = reload.new /\ reload'.range = reload.range
          /\ reload'.store = reload.store \ {key} /\ reload' \in Reloads
      BY <1>4, <2>3 DEF StoreKey, Reloads
    <3>3. QED
      BY <1>1, <1>4, <3>1, <3>2 DEF ReplaceInv, Reloading
  <2>4. QED
    BY <1>3, <2>1, <2>2, <2>3
<1>6. FileTypes' /\ LoaderInv'
  BY <1>1, <1>2, <1>5 DEF FileTypes, LoaderInv, contents
<1>7. PaceInv'
  BY <1>1, <1>2, <1>5 DEF PaceInv
<1>8. ForceInv'
  <2>1. contents' = contents
    BY <1>2 DEF contents
  <2>2. nextReload - 2 * ReloadEvery > changedAt => nextReload - ReloadEvery > changedAt
    BY <1>1, TickerAssumption DEF PaceInv, FileTypes
  <2>3. QED
    BY <1>1, <1>2, <1>5, <2>1, <2>2 DEF ForceInv
<1>9. CoreInv'
  <2>1. Core' = Core
    BY <1>2 DEF Core
  <2>2. QED
    BY <1>1, <1>2, <1>5, <2>1 DEF CoreInv
<1>10. QED
  BY <1>5, <1>6, <1>7, <1>8, <1>9 DEF AllowlistInv

----------------------------------------------------------------------------
(* The operator and time. *)

\* An edit.  Unless it is a rewrite in place, every file keeps its lines in place
\* and is a version.
LEMMA EditStep ==
  ASSUME AllowlistInv,
         UNCHANGED <<wall, loader, nextReload, authorizedKeys, reload>>,
         changedAt' = wall,
         disk' \in Seq(Seq(Lines)), Len(disk') \in Nat, Len(disk') >= Len(disk),
         unwritten' \in Seq(Lines),
         ~truncated' =>
             /\ ~truncated /\ unwritten' = << >> /\ versions \subseteq versions'
             /\ \A i \in DOMAIN disk' : disk'[i] \in versions'
             /\ \A i \in 1 .. Len(disk) :
                    /\ Len(disk'[i]) \in Nat /\ Len(disk'[i]) >= Len(disk[i])
                    /\ \A j \in 1 .. Len(disk[i]) : disk'[i][j] = disk[i][j]
  PROVE  AllowlistInv'
<1>1. FileTypes /\ PaceInv /\ ReplaceInv /\ LoaderInv /\ ForceInv /\ CoreInv
  BY DEF AllowlistInv
<1>2. Len(disk) \in Nat \ {0}
  BY <1>1, ContentsType
<1>3. FileTypes'
  <2>1. disk' # << >>
    BY <1>2, EmptySeq
  <2>2. changedAt' \in Nat /\ changedAt' <= wall'
    BY <1>1 DEF FileTypes
  <2>3. QED
    BY <1>1, <2>1, <2>2 DEF FileTypes
<1>4. PaceInv' /\ ReplaceInv'
  BY <1>1 DEF PaceInv, ReplaceInv, Reloading
<1>5. ForceInv'
  <2>1. /\ nextReload \in Nat /\ wall \in Nat /\ ReloadEvery \in Nat
        /\ nextReload - ReloadEvery <= wall
    BY <1>1, TickerAssumption DEF PaceInv, FileTypes
  <2>2. ~(nextReload' - ReloadEvery > changedAt') /\ ~(nextReload' - 2 * ReloadEvery > changedAt')
    BY <2>1
  <2>3. QED
    BY <2>2 DEF ForceInv
<1>6. CoreInv'
  <2>1. ASSUME ~truncated' PROVE Core' \subseteq Core
    BY <2>1 DEF Core
  <2>2. QED
    BY <1>1, <2>1 DEF CoreInv
<1>7. LoaderInv'
  <2>1. SUFFICES ASSUME loader # << >> PROVE LoaderInv'
    BY DEF LoaderInv
  <2> DEFINE l == loader[1]
             f == disk[l.file]
             g == disk'[l.file]
  <2>2. /\ l.file \in 1 .. Len(disk) /\ l.line \in Nat \ {0} /\ Len(f) \in Nat
    BY <1>1, <2>1, ReaderFacts DEF Loaders
  <2>3. l.file \in 1 .. Len(disk')
    BY <1>2, <2>2
  <2>4. ~(nextReload' > changedAt')
    BY <1>1, <2>1 DEF PaceInv, FileTypes
  <2>5. ASSUME ~truncated'
        PROVE  l.line <= Len(g) + 1 /\ KeysBefore(g, l.line) \subseteq l.keys
    <3>1. /\ Len(g) \in Nat /\ Len(g) >= Len(f)
          /\ \A j \in 1 .. Len(f) : g[j] = f[j]
      BY <2>2, <2>5
    <3>2. l.line <= Len(f) + 1 /\ KeysBefore(f, l.line) \subseteq l.keys
      BY <1>1, <2>1, <2>5 DEF LoaderInv
    <3> HIDE DEF l, f, g
    <3>3. KeysBefore(g, l.line) = KeysBefore(f, l.line)
      <4>1. \A j \in 1 .. l.line - 1 : j \in 1 .. Len(f)
        BY <2>2, <3>2
      <4>2. \A j \in 1 .. l.line - 1 : g[j] = f[j]
        BY <3>1, <4>1
      <4>3. QED
        BY <4>2 DEF KeysBefore
    <3>4. l.line <= Len(g) + 1
      BY <2>2, <3>1, <3>2
    <3>5. QED
      BY <3>2, <3>3, <3>4
  <2>6. QED
    BY <2>3, <2>4, <2>5 DEF LoaderInv
<1>8. QED
  BY <1>3, <1>4, <1>5, <1>6, <1>7 DEF AllowlistInv

\* The last file of the disk is replaced or extended.
LEMMA LastFile ==
  ASSUME FileTypes, NEW g \in Seq(Lines)
  PROVE  LET d == [disk EXCEPT ![Len(disk)] = g]
         IN  /\ d \in Seq(Seq(Lines)) /\ Len(d) = Len(disk) /\ DOMAIN d = 1 .. Len(disk)
             /\ d[Len(disk)] = g
             /\ \A i \in 1 .. Len(disk) : i # Len(disk) => d[i] = disk[i]
<1> DEFINE d == [disk EXCEPT ![Len(disk)] = g]
<1>1. Len(disk) \in Nat \ {0} /\ disk \in Seq(Seq(Lines))
  BY ContentsType DEF FileTypes
<1>2. Len(disk) \in 1 .. Len(disk)
  BY <1>1
<1>3. /\ d \in Seq(Seq(Lines)) /\ Len(d) = Len(disk)
      /\ \A j \in 1 .. Len(disk) : d[j] = IF j = Len(disk) THEN g ELSE disk[j]
  BY <1>1, <1>2, ExceptSeq
<1> HIDE DEF d
<1>4. DOMAIN d = 1 .. Len(disk)
  BY <1>3, LenProperties
<1>5. d[Len(disk)] = g /\ \A i \in 1 .. Len(disk) : i # Len(disk) => d[i] = disk[i]
  BY <1>2, <1>3
<1>6. QED
  BY <1>3, <1>4, <1>5, Zenon DEF d

\* Appending keeps what a sequence holds and adds one element.
LEMMA AppendFacts ==
  ASSUME NEW S, NEW q \in Seq(S), NEW e \in S
  PROVE  /\ Append(q, e) \in Seq(S) /\ Len(q) \in Nat
         /\ Len(Append(q, e)) = Len(q) + 1 /\ DOMAIN Append(q, e) = 1 .. Len(q) + 1
         /\ \A i \in 1 .. Len(q) : Append(q, e)[i] = q[i]
         /\ Append(q, e)[Len(q) + 1] = e
  BY AppendProperties, LenProperties, SMT

\* A new file put in place is a version, and no file changes.
LEMMA SaveStep == ASSUME AllowlistInv, NEW f \in Files, Save(f) PROVE AllowlistInv'
<1>1. FileTypes /\ CoreInv
  BY DEF AllowlistInv
<1>2. /\ disk' = Append(disk, f) /\ changedAt' = wall /\ versions' = versions \cup {f}
      /\ UNCHANGED <<wall, loader, nextReload, authorizedKeys, reload, unwritten, truncated>>
  BY DEF Save, vars, loaderVars
<1>3. f \in Seq(Lines) /\ disk \in Seq(Seq(Lines)) /\ unwritten \in Seq(Lines)
  BY <1>1, FileAssumption DEF FileTypes, Lines
<1>4. /\ disk' \in Seq(Seq(Lines)) /\ Len(disk) \in Nat /\ Len(disk') = Len(disk) + 1
      /\ DOMAIN disk' = 1 .. Len(disk) + 1 /\ DOMAIN disk = 1 .. Len(disk)
      /\ \A i \in 1 .. Len(disk) : disk'[i] = disk[i]
      /\ disk'[Len(disk) + 1] = f
  BY <1>1, <1>2, <1>3, AppendFacts, ContentsType
<1>5. \A i \in 1 .. Len(disk) : Len(disk[i]) \in Nat
  BY <1>3, ElementOfSeq, LenProperties
<1>6. Len(disk') \in Nat /\ Len(disk') >= Len(disk)
  BY <1>4
<1>7. ASSUME ~truncated'
      PROVE  /\ ~truncated /\ unwritten' = << >> /\ versions \subseteq versions'
             /\ \A i \in DOMAIN disk' : disk'[i] \in versions'
             /\ \A i \in 1 .. Len(disk) :
                    /\ Len(disk'[i]) \in Nat /\ Len(disk'[i]) >= Len(disk[i])
                    /\ \A j \in 1 .. Len(disk[i]) : disk'[i][j] = disk[i][j]
  <2>1. ~truncated /\ unwritten = << >> /\ \A i \in DOMAIN disk : disk[i] \in versions
    BY <1>1, <1>2, <1>7 DEF CoreInv
  <2>2. \A i \in DOMAIN disk' : i \in 1 .. Len(disk) \/ i = Len(disk) + 1
    BY <1>4
  <2>3. \A i \in DOMAIN disk' : disk'[i] \in versions'
    BY <1>2, <1>4, <2>1, <2>2
  <2>4. \A i \in 1 .. Len(disk) : Len(disk'[i]) \in Nat /\ Len(disk'[i]) >= Len(disk[i])
    BY <1>4, <1>5
  <2>5. QED
    BY <1>2, <1>4, <2>1, <2>3, <2>4
<1>8. QED
  BY <1>2, <1>3, <1>4, <1>6, <1>7, EditStep

\* A line appended to the current file makes a new version of it.
LEMMA EnrolStep == ASSUME AllowlistInv, NEW key \in Keys, Enrol(key) PROVE AllowlistInv'
<1> DEFINE n == Len(disk)
           g == Append(contents, key)
<1>1. FileTypes /\ CoreInv
  BY DEF AllowlistInv
<1>0. disk' = [disk EXCEPT ![Len(disk)] = g]
  BY DEF Enrol, contents
<1>2. /\ changedAt' = wall /\ versions' = versions \cup {g}
      /\ UNCHANGED <<wall, loader, nextReload, authorizedKeys, reload, unwritten, truncated>>
  BY DEF Enrol, vars, loaderVars
<1>3. /\ n \in Nat \ {0} /\ DOMAIN disk = 1 .. n /\ contents \in Seq(Lines)
      /\ key \in Lines /\ disk \in Seq(Seq(Lines)) /\ unwritten \in Seq(Lines)
      /\ contents = disk[n]
  BY <1>1, ContentsType DEF FileTypes, Lines, contents
<1>4. /\ g \in Seq(Lines) /\ Len(contents) \in Nat /\ Len(g) = Len(contents) + 1
      /\ \A j \in 1 .. Len(contents) : g[j] = contents[j]
  BY <1>3, AppendFacts
<1> HIDE DEF g
<1>5. /\ disk' \in Seq(Seq(Lines)) /\ Len(disk') = n /\ DOMAIN disk' = 1 .. n
      /\ disk'[n] = g
      /\ \A i \in 1 .. n : i # n => disk'[i] = disk[i]
  BY <1>0, <1>1, <1>4, LastFile
<1>6. \A i \in 1 .. n : Len(disk[i]) \in Nat
  BY <1>3, ElementOfSeq, LenProperties
<1> HIDE DEF n
<1>7. Len(disk') \in Nat /\ Len(disk') >= n
  BY <1>3, <1>5
<1>8. ASSUME ~truncated'
      PROVE  /\ ~truncated /\ unwritten' = << >> /\ versions \subseteq versions'
             /\ \A i \in DOMAIN disk' : disk'[i] \in versions'
             /\ \A i \in 1 .. n :
                    /\ Len(disk'[i]) \in Nat /\ Len(disk'[i]) >= Len(disk[i])
                    /\ \A j \in 1 .. Len(disk[i]) : disk'[i][j] = disk[i][j]
  <2>1. ~truncated /\ unwritten = << >> /\ \A i \in DOMAIN disk : disk[i] \in versions
    BY <1>1, <1>2, <1>8 DEF CoreInv
  <2>2. \A i \in DOMAIN disk' : disk'[i] \in versions'
    BY <1>2, <1>3, <1>5, <2>1
  <2>3. ASSUME NEW i \in 1 .. n
        PROVE  /\ Len(disk'[i]) \in Nat /\ Len(disk'[i]) >= Len(disk[i])
               /\ \A j \in 1 .. Len(disk[i]) : disk'[i][j] = disk[i][j]
    <3>1. CASE i = n
      <4>1. disk'[i] = g /\ disk[i] = contents
        BY <1>3, <1>5, <3>1
      <4>2. Len(g) \in Nat /\ Len(g) >= Len(contents)
        BY <1>4
      <4>3. QED
        BY <1>4, <4>1, <4>2
    <3>2. CASE i # n
      <4>1. disk'[i] = disk[i] /\ Len(disk[i]) \in Nat
        BY <1>5, <1>6, <3>2
      <4>2. QED
        BY <4>1
    <3>3. QED
      BY <3>1, <3>2
  <2>4. QED
    BY <1>2, <2>1, <2>2, <2>3
<1>9. QED
  BY <1>2, <1>3, <1>5, <1>7, <1>8, EditStep, Zenon DEF n

\* A rewrite in place: its first step and the ones that follow.
LEMMA RewriteStep ==
  ASSUME AllowlistInv, (\E f \in Files : Truncate(f)) \/ WriteLine
  PROVE  AllowlistInv'
<1>1. FileTypes /\ CoreInv
  BY DEF AllowlistInv
<1>2. /\ Len(disk) \in Nat \ {0} /\ contents = disk[Len(disk)] /\ contents \in Seq(Lines)
      /\ unwritten \in Seq(Lines)
  BY <1>1, ContentsType DEF contents, FileTypes
<1>3. CASE \E f \in Files : Truncate(f)
  <2>1. PICK f \in Files : Truncate(f)
    BY <1>3
  <2>2. /\ disk' = [disk EXCEPT ![Len(disk)] = << >>] /\ changedAt' = wall
        /\ unwritten' = f /\ truncated' = TRUE
        /\ UNCHANGED <<wall, loader, nextReload, authorizedKeys, reload>>
    BY <2>1 DEF Truncate, vars, loaderVars
  <2>3. << >> \in Seq(Lines) /\ f \in Seq(Lines)
    BY EmptySeq, FileAssumption DEF Lines
  <2>4. disk' \in Seq(Seq(Lines)) /\ Len(disk') = Len(disk)
    BY <1>1, <2>2, <2>3, LastFile
  <2>5. Len(disk') \in Nat /\ Len(disk') >= Len(disk)
    BY <1>2, <2>4
  <2>6. QED
    BY <2>2, <2>3, <2>4, <2>5, EditStep
<1>4. CASE WriteLine
  <2> DEFINE g == Append(contents, Head(unwritten))
  <2>1. /\ disk' = [disk EXCEPT ![Len(disk)] = g] /\ changedAt' = wall
        /\ unwritten # << >> /\ unwritten' = Tail(unwritten)
        /\ UNCHANGED <<wall, loader, nextReload, authorizedKeys, reload, truncated>>
    BY <1>4 DEF WriteLine, vars, loaderVars, contents
  <2>2. Head(unwritten) \in Lines /\ unwritten' \in Seq(Lines)
    BY <1>2, <2>1, HeadTailProperties
  <2>3. g \in Seq(Lines)
    BY <1>2, <2>2, AppendFacts
  <2> HIDE DEF g
  <2>4. disk' \in Seq(Seq(Lines)) /\ Len(disk') = Len(disk)
    BY <1>1, <2>1, <2>3, LastFile
  <2>5. truncated /\ (truncated' <=> truncated)
    BY <1>1, <2>1 DEF CoreInv
  <2>6. Len(disk') \in Nat /\ Len(disk') >= Len(disk)
    BY <1>2, <2>4
  <2>7. QED
    BY <2>1, <2>2, <2>4, <2>5, <2>6, EditStep
<1>5. QED
  BY <1>3, <1>4

\* Time passes, unless a reload is overdue.
LEMMA TickStep == ASSUME AllowlistInv, AnchorTick PROVE AllowlistInv'
<1>1. FileTypes /\ PaceInv /\ ReplaceInv /\ LoaderInv /\ ForceInv /\ CoreInv
  BY DEF AllowlistInv
<1>2. /\ wall' = wall + 1 /\ wall < nextReload + LoopLag
      /\ Reloading => wall < nextReload - ReloadEvery + LoopLag
      /\ UNCHANGED <<disk, unwritten, changedAt, versions, truncated, loader, nextReload,
                     authorizedKeys, reload>>
  BY DEF AnchorTick, Prompt, Tick, fileVars, loaderVars
<1>3. /\ wall \in Nat /\ nextReload \in Nat /\ ReloadEvery \in Nat /\ LoopLag \in Nat
      /\ changedAt \in Nat /\ changedAt <= wall
  BY <1>1, TickerAssumption DEF FileTypes, PaceInv
<1>4. /\ wall' \in Nat /\ changedAt <= wall' /\ wall <= wall'
      /\ wall' <= nextReload + LoopLag
      /\ Reloading => wall' <= nextReload - ReloadEvery + LoopLag
  BY <1>2, <1>3
<1>5. FileTypes'
  BY <1>1, <1>2, <1>4 DEF FileTypes
<1>6. PaceInv'
  <2>1. nextReload - ReloadEvery <= wall' /\ (loader # << >> => nextReload <= wall' /\ ~Reloading)
    BY <1>1, <1>2, <1>3 DEF PaceInv
  <2>2. Reloading' = Reloading
    BY <1>2 DEF Reloading
  <2>3. QED
    BY <1>2, <1>3, <1>4, <2>1, <2>2 DEF PaceInv
<1>7. ReplaceInv' /\ LoaderInv' /\ ForceInv' /\ CoreInv'
  BY <1>1, <1>2 DEF ReplaceInv, LoaderInv, ForceInv, CoreInv, contents, Core
<1>8. QED
  BY <1>5, <1>6, <1>7 DEF AllowlistInv

\* Every step of the anchor keeps the invariant of the allowlist.
LEMMA AllowlistStep == AllowlistInv /\ [AnchorNext]_anchorVars => AllowlistInv'
<1> SUFFICES ASSUME AllowlistInv, [AnchorNext]_anchorVars PROVE AllowlistInv'
  OBVIOUS
<1>1. CASE reloadLoop
  BY <1>1, OpenStep, ScanStep, KeepStep, InstallStep, ReplaceStep DEF reloadLoop
<1>2. CASE Operator
  BY <1>2, SaveStep, EnrolStep, RewriteStep DEF Operator
<1>3. CASE AnchorTick
  BY <1>3, TickStep
<1>4. CASE UNCHANGED <<wall, disk, unwritten, changedAt, versions, truncated, loader,
                       nextReload, authorizedKeys, reload>>
  BY <1>4 DEF AllowlistInv, FileTypes, PaceInv, ReplaceInv, LoaderInv, ForceInv, CoreInv,
     contents, Core, Reloading
<1>5. CASE refreshLoop
  BY <1>4, <1>5 DEF refreshLoop, StampOffset, PublishOffset, SetOffsets, vars, fileVars,
     loaderVars
<1>6. CASE UNCHANGED anchorVars
  BY <1>4, <1>6 DEF anchorVars, vars, fileVars, loaderVars
<1>7. QED
  BY <1>1, <1>2, <1>3, <1>5, <1>6 DEF AnchorNext

\* The anchor starts with the allowlist its file names.
LEMMA AllowlistInit == AnchorInit => AllowlistInv
<1> SUFFICES ASSUME AnchorInit PROVE AllowlistInv
  OBVIOUS
<1>1. PICK f \in Files : disk = <<f>>
  BY DEF AnchorInit
<1>2. /\ wall = 0 /\ changedAt = 0 /\ nextReload = ReloadEvery
      /\ loader = << >> /\ unwritten = << >>
      /\ authorizedKeys \in SUBSET Keys /\ reload = Idle(authorizedKeys)
      /\ authorizedKeys = KeysOf(contents) /\ versions = {contents}
  BY DEF AnchorInit, Init
<1>3. contents = f /\ f \in Seq(Lines)
  BY <1>1, FileAssumption DEF contents, Lines
<1>4. /\ reload.new = authorizedKeys /\ reload.range = {} /\ reload.doomed = {}
      /\ reload.store = {} /\ reload \in Reloads
  BY <1>2 DEF Idle, Reloads
<1>5. FileTypes
  <2>1. disk \in Seq(Seq(Lines)) /\ disk # << >>
    BY <1>1, <1>3
  <2>2. unwritten \in Seq(Lines)
    BY <1>2, EmptySeq
  <2>3. wall \in Nat /\ changedAt \in Nat /\ changedAt <= wall
    BY <1>2
  <2>4. QED
    BY <1>2, <1>4, <2>1, <2>2, <2>3 DEF FileTypes
<1>6. PaceInv
  <2>1. /\ nextReload \in Nat /\ nextReload - ReloadEvery <= wall
        /\ wall <= nextReload + LoopLag
    BY <1>2, TickerAssumption
  <2>2. QED
    BY <1>2, <1>4, <2>1 DEF PaceInv, Reloading
<1>7. ReplaceInv /\ LoaderInv /\ ForceInv
  BY <1>2, <1>4 DEF ReplaceInv, LoaderInv, ForceInv
<1>8. CoreInv
  <2>1. \A i \in DOMAIN disk : disk[i] \in versions
    BY <1>1, <1>2, <1>3
  <2>2. Core \subseteq authorizedKeys
    BY <1>2 DEF Core
  <2>3. QED
    BY <1>2, <1>4, <2>1, <2>2 DEF CoreInv
<1>9. QED
  BY <1>5, <1>6, <1>7, <1>8 DEF AllowlistInv

\* A file that parses and has not changed for a reload period and the time one
\* reload takes is in force key by key, whatever edits, reads and installations
\* overlapped before.  (reloadLoop, LoadAllowlist, SetAuthorizedKeys.)
THEOREM EditCorrect == AnchorSpec => []EditInForce
<1>1. AllowlistInv => EditInForce
  <2> SUFFICES ASSUME AllowlistInv, Readable(contents), wall - changedAt > ReloadEvery + LoopLag
               PROVE  authorizedKeys = KeysOf(contents)
    BY DEF EditInForce
  <2>1. FileTypes /\ PaceInv /\ ReplaceInv /\ ForceInv
    BY DEF AllowlistInv
  <2>2. /\ wall \in Nat /\ changedAt \in Nat /\ nextReload \in Nat /\ ReloadEvery \in Nat
        /\ LoopLag \in Nat
    BY <2>1, TickerAssumption DEF FileTypes, PaceInv
  <2>3. CASE Reloading
    <3>1. nextReload - 2 * ReloadEvery > changedAt
      BY <2>1, <2>2, <2>3 DEF PaceInv
    <3>2. QED
      BY <2>1, <3>1 DEF ForceInv
  <2>4. CASE ~Reloading
    <3>1. nextReload - ReloadEvery > changedAt
      BY <2>1, <2>2 DEF PaceInv
    <3>2. authorizedKeys = reload.new
      BY <2>1, <2>4 DEF ReplaceInv, Reloading
    <3>3. QED
      BY <2>1, <3>1, <3>2 DEF ForceInv
  <2>5. QED
    BY <2>3, <2>4
<1>2. QED
  BY <1>1, AllowlistInit, AllowlistStep, PTL DEF AnchorSpec

\* A key that every version of the file names stays authorized throughout, as
\* long as the file is appended to or replaced as a whole.  (reloadLoop.)
THEOREM ListedKeysCorrect == AnchorSpec => []ListedKeysUndisturbed
<1>1. AllowlistInv => ListedKeysUndisturbed
  BY DEF AllowlistInv, CoreInv, Core, ListedKeysUndisturbed
<1>2. QED
  BY <1>1, AllowlistInit, AllowlistStep, PTL DEF AnchorSpec
=============================================================================
