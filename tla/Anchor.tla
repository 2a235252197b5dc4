------------------------------- MODULE Anchor -------------------------------
(***************************************************************************)
(* The anchor program (cmd/anchor/main.go) around its reflector:           *)
(* reloadLoop reads the allowlist file (keys.LoadAllowlist) and hands its  *)
(* keys to SetAuthorizedKeys, refreshLoop stamps and signs a new reference *)
(* offset, each on a ticker of its own, while an operator edits the file.  *)
(* The receive loop, which changes neither the file, the list nor the      *)
(* offsets, is left to Reflector.                                          *)
(***************************************************************************)
EXTENDS Reflector, FiniteSets

CONSTANTS
    RefreshEvery,   \* -refresh-interval, in ticks
    ReloadEvery,    \* -reload-interval, in ticks
    LoopLag,        \* bound: from a tick of a ticker to the end of its work
    Files,          \* the contents an operator may give the allowlist file
    Blank,          \* a line with no key: empty, or a comment
    Bad,            \* a line that does not parse, a file that cannot be read
    MaxEdits        \* bound: edits of the file

ASSUME TickerAssumption ==
    RefreshEvery \in Nat \ {0} /\ ReloadEvery \in Nat \ {0} /\ LoopLag \in Nat
ASSUME FileAssumption ==
    /\ MaxEdits \in Nat
    /\ Files \subseteq Seq(Keys \cup {Blank, Bad})
    /\ {Blank, Bad} \cap Keys = {}

VARIABLES
    disk,           \* the files the path has named, the current one last
    unwritten,      \* what a rewrite in place has yet to write
    loader,         \* the LoadAllowlist under way, if any
    nextReload,     \* when the ticker of reloadLoop fires
    nextRefresh,    \* when the ticker of refreshLoop fires
    stamped,        \* the offset signed and not yet set, if any
    edits,          \* edits so far
    changedAt,      \* history: when the current contents were last changed
    versions,       \* history: every contents an edit began with or ended in
    truncated       \* history: the file has been rewritten in place

fileVars == <<disk, unwritten, edits, changedAt, versions, truncated>>
refreshVars == <<nextRefresh, stamped>>
loaderVars == <<loader, nextReload>>
anchorVars == <<vars, fileVars, loaderVars, refreshVars>>

contents == disk[Len(disk)]

\* The keys the lines of a file name, first fields of lines, each once.
KeysOf(lines) == {lines[i] : i \in DOMAIN lines} \cap Keys
Readable(lines) == \A i \in DOMAIN lines : lines[i] # Bad

\* referenceOffset: no upstream hop, ObservedAt is the time now.
referenceOffset == << [size |-> LocationOffsetSize, slot |-> wall, rtt |-> 0] >>

----------------------------------------------------------------------------
(* reloadLoop. *)

\* The ticker has fired: open the file.
OpenAllowlist ==
    /\ wall >= nextReload
    /\ loader = << >> /\ ~Reloading
    /\ loader' = << [file |-> Len(disk), line |-> 1, keys |-> {}] >>
    /\ UNCHANGED <<vars, fileVars, nextReload, refreshVars>>

\* What the scanner is about to see of the file it has open.
Remaining == SubSeq(disk[loader[1].file], loader[1].line, Len(disk[loader[1].file]))

\* A line is scanned; a key is added unless it was seen before.
ScanLine ==
    /\ loader # << >> /\ Remaining # << >> /\ Head(Remaining) # Bad
    /\ loader' = << [loader[1] EXCEPT !.line = @ + 1,
                        !.keys = @ \cup ({Head(Remaining)} \ {Blank})] >>
    /\ UNCHANGED <<vars, fileVars, nextReload, refreshVars>>

\* Back to the select, until the next tick.
AwaitTick == loader' = << >> /\ nextReload' = nextReload + ReloadEvery

\* Wrong variant: the keys read before the bad line are installed.
KeepPrevious_Partial ==
    /\ loader # << >> /\ Remaining # << >> /\ Head(Remaining) = Bad
    /\ AwaitTick
    /\ SetAuthorizedKeys(loader[1].keys)
    /\ UNCHANGED <<fileVars, refreshVars>>

\* The file does not parse: the list in force stays.
KeepPrevious ==
    /\ loader # << >> /\ Remaining # << >> /\ Head(Remaining) = Bad
    /\ AwaitTick
    /\ UNCHANGED <<vars, fileVars, refreshVars>>

\* Wrong variant: a list of unchanged length is taken for the same list.
Install_SameLength ==
    /\ loader # << >> /\ Remaining = << >>
    /\ AwaitTick
    /\ IF Cardinality(loader[1].keys) = Cardinality(authorizedKeys)
       THEN UNCHANGED vars ELSE SetAuthorizedKeys(loader[1].keys)
    /\ UNCHANGED <<fileVars, refreshVars>>

\* The end of the file: SetAuthorizedKeys begins.
Install ==
    /\ loader # << >> /\ Remaining = << >>
    /\ AwaitTick
    /\ SetAuthorizedKeys(loader[1].keys)
    /\ UNCHANGED <<fileVars, refreshVars>>

\* SetAuthorizedKeys goes on.
ReplaceKeys ==
    /\ \E key \in Keys : RangeKey(key) \/ DeleteState(key) \/ StoreKey(key)
    /\ UNCHANGED <<fileVars, loaderVars, refreshVars>>

reloadLoop == OpenAllowlist \/ ScanLine \/ KeepPrevious \/ Install \/ ReplaceKeys

----------------------------------------------------------------------------
(* refreshLoop. *)

StampOffset ==
    /\ wall >= nextRefresh /\ stamped = << >>
    /\ stamped' = <<referenceOffset>>
    /\ UNCHANGED <<vars, fileVars, loaderVars, nextRefresh>>

\* Wrong variant: the loop sets the offset it was started with.
PublishOffset_First ==
    /\ stamped # << >>
    /\ SetOffsets(offsets)
    /\ stamped' = << >> /\ nextRefresh' = nextRefresh + RefreshEvery
    /\ UNCHANGED <<fileVars, loaderVars>>

PublishOffset ==
    /\ stamped # << >>
    /\ SetOffsets(stamped[1])
    /\ stamped' = << >> /\ nextRefresh' = nextRefresh + RefreshEvery
    /\ UNCHANGED <<fileVars, loaderVars>>

refreshLoop == StampOffset \/ PublishOffset

----------------------------------------------------------------------------
(* The operator and time. *)

\* The path names a new file, put in place by a rename.
Save(f) ==
    /\ edits < MaxEdits /\ unwritten = << >>
    /\ edits' = edits + 1
    /\ disk' = Append(disk, f)
    /\ changedAt' = wall
    /\ versions' = versions \cup {f}
    /\ UNCHANGED <<vars, loaderVars, refreshVars, unwritten, truncated>>

\* A line is appended to the file, as docs/deployment.md tells the operator to.
Enrol(key) ==
    /\ edits < MaxEdits /\ unwritten = << >>
    /\ edits' = edits + 1
    /\ disk' = [disk EXCEPT ![Len(disk)] = Append(@, key)]
    /\ changedAt' = wall
    /\ versions' = versions \cup {Append(contents, key)}
    /\ UNCHANGED <<vars, loaderVars, refreshVars, unwritten, truncated>>

\* The file is truncated, then written again line by line.
Truncate(f) ==
    /\ edits < MaxEdits /\ unwritten = << >> /\ f # << >>
    /\ edits' = edits + 1
    /\ disk' = [disk EXCEPT ![Len(disk)] = << >>]
    /\ unwritten' = f
    /\ changedAt' = wall
    /\ truncated' = TRUE
    /\ versions' = versions \cup {f}
    /\ UNCHANGED <<vars, loaderVars, refreshVars>>

WriteLine ==
    /\ unwritten # << >>
    /\ disk' = [disk EXCEPT ![Len(disk)] = Append(@, Head(unwritten))]
    /\ unwritten' = Tail(unwritten)
    /\ changedAt' = wall
    /\ UNCHANGED <<vars, loaderVars, refreshVars, edits, versions, truncated>>

Operator ==
    \/ \E f \in Files : Save(f) \/ Truncate(f)
    \/ \E key \in Keys : Enrol(key)
    \/ WriteLine

\* Time passes while the work of neither ticker is overdue.
Prompt ==
    /\ wall < nextRefresh + LoopLag
    /\ wall < nextReload + LoopLag
    /\ Reloading => wall < nextReload - ReloadEvery + LoopLag

AnchorTick == Prompt /\ Tick /\ UNCHANGED <<fileVars, loaderVars, refreshVars>>

\* run: the allowlist has been loaded, or the program would have ended, and the
\* first offset set.
AnchorInit ==
    /\ Init
    /\ disk \in {<<f>> : f \in {g \in Files : Readable(g)}}
    /\ authorizedKeys = KeysOf(contents)
    /\ offsets = referenceOffset
    /\ unwritten = << >> /\ loader = << >> /\ stamped = << >>
    /\ nextReload = ReloadEvery /\ nextRefresh = RefreshEvery
    /\ edits = 0 /\ changedAt = 0 /\ truncated = FALSE
    /\ versions = {contents}

AnchorNext == reloadLoop \/ refreshLoop \/ Operator \/ AnchorTick

AnchorSpec == AnchorInit /\ [][AnchorNext]_anchorVars

----------------------------------------------------------------------------
(* Properties. *)

\* "Within 30s the anchor picks it up" (docs/deployment.md): a file that parses
\* and has not changed for a period and the time one reload takes is in force,
\* key by key, whatever was being read or installed when it was changed, and
\* however it was changed.  (reloadLoop, LoadAllowlist, SetAuthorizedKeys.)
EditInForce ==
    Readable(contents) /\ wall - changedAt > ReloadEvery + LoopLag
        => authorizedKeys = KeysOf(contents)

\* "so an attester can be enrolled without restarting the anchor and dropping
\* in-flight measurements" (reloadLoop): a key that every version of the file
\* names is authorized at every moment, across edits, reads that overlap them,
\* files that do not parse and reloads, as long as the file is appended to or
\* replaced as a whole and never truncated in place.
ListedKeysUndisturbed ==
    ~truncated => \A k \in Keys :
        (\A f \in versions : k \in KeysOf(f)) => k \in authorizedKeys

\* The reference offset is at every moment one that a reply can carry, and the
\* ObservedAt a reply sent at that moment would be signed with is not in the
\* future and no older than a refresh period and the time one refresh takes.
\* (refreshLoop, referenceOffset; Run reads the offsets just before it sends.)
ObservedAtFresh ==
    /\ Sendable(offsets)
    /\ ParseOffsetInfo(offsets).slot \in wall - (RefreshEvery + LoopLag) .. wall
=============================================================================
